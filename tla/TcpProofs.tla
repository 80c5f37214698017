------------------------------ MODULE TcpProofs ----------------------------
(***************************************************************************)
(* FNET's TCP, for every size of the buffers, of the segments and of the   *)
(* sequence space.  As a sender: what is under way is within the server's  *)
(* window and has a timer, the server's acknowledgments are acceptable,    *)
(* and its bytes are the ones send() accepted, in order and each once (the *)
(* refinement of Stream).  As a receiver: every field keeps its type, a    *)
(* board that has read everything leaves a window, and, where its probes   *)
(* announce no more than it notes, the application reads the server's      *)
(* bytes in order and once, and nothing is acknowledged that is not there. *)
(*                                                                         *)
(* First the arithmetic of sequence numbers, wherever zero lies.  Then     *)
(* what each function of fnet_tcp.c does to the sender's part of the       *)
(* control block, from the inside out: a segment, a burst, everything that *)
(* may be sent, an acknowledgment, a segment that arrives.  Then the other *)
(* end, the invariant of both, and a lemma for each action.  The receiver  *)
(* follows in the same order.                                              *)
(***************************************************************************)
EXTENDS Tcp, Loops, SequenceTheorems

Seqs == 0 .. SeqSpace - 1

(* A sum of two sequence numbers wraps at most once. *)
LEMMA WrapsOnce ==
    \A x \in 0 .. 2 * SeqSpace - 1 : Wrap(x) = IF x < SeqSpace THEN x ELSE x - SeqSpace
<1> USE TcpAssumption DEF Wrap
<1> TAKE x \in 0 .. 2 * SeqSpace - 1
<1>1. CASE x < SeqSpace
    BY <1>1, SMT
<1>2. CASE x >= SeqSpace
    BY <1>2, SMT
<1> QED BY <1>1, <1>2

(* fnet_tcp_getsize() is how far one goes up from x to reach y. *)
THEOREM SizeIsDistance ==
    ASSUME NEW x \in Seqs, NEW y \in Seqs
    PROVE  getsize(x, y) \in Seqs /\ Wrap(x + getsize(x, y)) = y
<1> USE TcpAssumption DEF Seqs
<1>1. getsize(x, y) \in Seqs /\ x + getsize(x, y) \in 0 .. 2 * SeqSpace - 1
    BY SMT DEF getsize
<1>2. Wrap(x + getsize(x, y)) = IF x + getsize(x, y) < SeqSpace THEN x + getsize(x, y)
                                                                 ELSE x + getsize(x, y) - SeqSpace
    BY <1>1, WrapsOnce
<1> QED BY <1>1, <1>2, SMT DEF getsize

LEMMA NoDistance ==
    ASSUME NEW x \in Seqs, NEW y \in Seqs
    PROVE  x # y <=> getsize(x, y) # 0
<1>1. SeqSpace \in Nat
    BY TcpAssumption
<1> QED BY <1>1, SMT DEF getsize, Seqs

(* fnet_tcp_hit(): x is in the interval if it is no farther from its       *)
(* beginning than its end is.                                              *)
THEOREM HitIsInterval ==
    ASSUME NEW first \in Seqs, NEW last \in Seqs, NEW x \in Seqs
    PROVE  hit(first, last, x) <=> getsize(first, x) <= getsize(first, last)
BY TcpAssumption, SMT DEF Seqs, hit, getsize

(* FNET_TCP_COMP_G(x, y): x lies at most an eighth of the space above y,   *)
(* wherever zero is.  So what lies above y is not what y lies above.       *)
THEOREM AboveIsDistance ==
    ASSUME NEW x \in Seqs, NEW y \in Seqs
    PROVE  /\ Above(x, y) <=> getsize(y, x) \in 1 .. SeqSpace \div 8
           /\ ~(Above(x, y) /\ Above(y, x))
<1> DEFINE eighth == SeqSpace \div 8
<1> USE TcpAssumption DEF Seqs
<1>1. eighth \in Nat /\ 8 * eighth <= SeqSpace /\ eighth >= 1
    BY SMT
<1> HIDE DEF eighth
<1>2. ASSUME NEW v \in Seqs, NEW w \in Seqs
      PROVE  hit(Wrap(w + 1), Wrap(w + eighth), v) <=> getsize(w, v) \in 1 .. eighth
    <2> DEFINE sum == w + eighth
    <2>1. w + 1 \in 0 .. 2 * SeqSpace - 1
        BY <1>1, SMT
    <2>2. sum \in 0 .. 2 * SeqSpace - 1
        BY <1>1, SMT
    <2>3. Wrap(w + 1) = IF w + 1 < SeqSpace THEN w + 1 ELSE w + 1 - SeqSpace
        BY <2>1, WrapsOnce
    <2> HIDE DEF sum
    <2>4. Wrap(sum) = IF sum < SeqSpace THEN sum ELSE sum - SeqSpace
        BY <2>2, WrapsOnce
    <2> QED BY <1>1, <2>3, <2>4, SMT DEF hit, getsize, sum
<1>3. (Above(x, y) <=> getsize(y, x) \in 1 .. eighth) /\ (Above(y, x) <=> getsize(x, y) \in 1 .. eighth)
    BY <1>2 DEF Above, eighth
<1>4. ~(getsize(y, x) \in 1 .. eighth /\ getsize(x, y) \in 1 .. eighth)
    BY <1>1, SMT DEF getsize
<1> QED BY <1>3, <1>4 DEF eighth
(* The buffers hold less than an eighth of the sequence space. *)
LEMMA Eighth ==
    /\ SeqSpace \div 8 \in Nat /\ 8 * (SeqSpace \div 8) <= SeqSpace
    /\ SndMax < SeqSpace \div 8 /\ RcvMax < SeqSpace \div 8
    /\ {SndMax, RcvMax, SndMss, RcvMss, SeqSpace} \subseteq Nat \ {0}
BY TcpAssumption, SMT

(* The sizes, without the division *)
LEMMA Small ==
    /\ {SndMax, RcvMax, SndMss, RcvMss, SeqSpace} \subseteq Nat \ {0}
    /\ 8 * SndMax < SeqSpace /\ 8 * RcvMax < SeqSpace
<1>1. SndMax \in Nat /\ RcvMax \in Nat
    BY Eighth
<1> QED BY <1>1, Eighth, SMT

(* Going on from y, as seen from x *)
LEMMA Ahead ==
    ASSUME NEW x \in Seqs, NEW y \in Seqs, NEW n \in Nat, getsize(x, y) + n < SeqSpace
    PROVE  Wrap(y + n) \in Seqs /\ getsize(x, Wrap(y + n)) = getsize(x, y) + n
<1> USE Eighth DEF Seqs
<1>1. y + n \in 0 .. 2 * SeqSpace - 1
    BY SMT DEF getsize
<1>2. Wrap(y + n) = IF y + n < SeqSpace THEN y + n ELSE y + n - SeqSpace
    BY <1>1, WrapsOnce
<1> QED BY <1>1, <1>2, SMT DEF getsize

(* Going back from y, not past x *)
LEMMA Behind ==
    ASSUME NEW x \in Seqs, NEW y \in Seqs, NEW n \in Nat, n <= getsize(x, y)
    PROVE  Wrap(y - n) \in Seqs /\ getsize(x, Wrap(y - n)) = getsize(x, y) - n
<1> USE Eighth DEF Seqs
<1>1. y - n + SeqSpace \in 0 .. 2 * SeqSpace - 1
    BY SMT DEF getsize
<1>2. Wrap(y - n + SeqSpace) = IF y - n + SeqSpace < SeqSpace THEN y - n + SeqSpace ELSE y - n
    BY <1>1, WrapsOnce
<1>3. Wrap(y - n) = IF y - n < 0 THEN y - n + SeqSpace ELSE y - n
    BY <1>1, SMT DEF Wrap, getsize
<1> QED BY <1>1, <1>3, SMT DEF getsize

(* A place between two others splits their distance. *)
LEMMA Between ==
    ASSUME NEW x \in Seqs, NEW y \in Seqs, NEW z \in Seqs, getsize(x, y) <= getsize(x, z)
    PROVE  getsize(y, z) = getsize(x, z) - getsize(x, y)
BY Small, SMT DEF Seqs, getsize

(* Of two places that follow a third one closely, one is above the other   *)
(* if it is farther from it.                                               *)
LEMMA AboveIsFarther ==
    ASSUME NEW r \in Seqs, NEW x \in Seqs, NEW y \in Seqs,
           getsize(r, x) <= SeqSpace \div 8, getsize(r, y) <= SeqSpace \div 8
    PROVE  Above(x, y) <=> getsize(r, y) < getsize(r, x)
<1>1. Above(x, y) <=> getsize(y, x) \in 1 .. SeqSpace \div 8
    BY AboveIsDistance
<1> QED BY <1>1, Small, SMT DEF Seqs, getsize
-----------------------------------------------------------------------------
(* Numbers and loops *)

(* The loops of the model are recursive functions.  There is a function    *)
(* with that equation: the limit of the functions on 0 .. n that fulfil    *)
(* it, which agree.  So it is the loop.                                    *)
LEMMA BurstDef ==
    ASSUME NEW c
    PROVE  /\ Burst(c)[0] = c
           /\ \A k \in Nat : Burst(c)[k + 1] = senddataseg(Burst(c)[k], SndMss)
<1> DEFINE Step(x) == senddataseg(x, SndMss)
           Right(f, n) == f[0] = c /\ \A k \in 0 .. n - 1 : f[k + 1] = Step(f[k])
           Def(f) == f = [k \in Nat |-> IF k = 0 THEN c ELSE Step(f[k - 1])]
<1> HIDE DEF Step
<1>1. \A n \in Nat : \E f : Right(f, n)
    <2> DEFINE S == {n \in Nat : \E f : Right(f, n)}
    <2>1. 0 \in S
        <3> DEFINE f == [k \in {0} |-> c]
        <3>1. Right(f, 0)
            BY SMT
        <3> QED BY <3>1
    <2>2. ASSUME NEW n \in Nat, n \in S PROVE n + 1 \in S
        <3>1. PICK f : Right(f, n)
            BY <2>2
        <3> DEFINE g == [k \in 0 .. n + 1 |-> IF k = n + 1 THEN Step(f[n]) ELSE f[k]]
        <3>2. Right(g, n + 1)
            BY <3>1, SMT
        <3> QED BY <3>2, SMTT(40)
    <2> HIDE DEF S
    <2>3. \A n \in Nat : n \in S
        BY <2>1, <2>2, Induction
    <2> QED BY <2>3 DEF S
<1>2. \A n \in Nat : \A f, g : Right(f, n) /\ Right(g, n) => f[n] = g[n]
    <2> DEFINE S == {n \in Nat : \A f, g : Right(f, n) /\ Right(g, n) => f[n] = g[n]}
    <2>1. 0 \in S
        OBVIOUS
    <2>2. ASSUME NEW n \in Nat, n \in S PROVE n + 1 \in S
        <3> SUFFICES ASSUME NEW f, NEW g, Right(f, n + 1), Right(g, n + 1) PROVE f[n + 1] = g[n + 1]
            OBVIOUS
        <3>1. Right(f, n) /\ Right(g, n)
            OBVIOUS
        <3> QED BY <3>1, <2>2
    <2> HIDE DEF S
    <2>3. \A n \in Nat : n \in S
        BY <2>1, <2>2, Induction
    <2> QED BY <2>3 DEF S
<1> DEFINE F(n) == CHOOSE f : Right(f, n)
           G == [n \in Nat |-> F(n)[n]]
<1>3. \A n \in Nat : Right(F(n), n)
    <2> TAKE n \in Nat
    <2> HIDE DEF Right
    <2> QED BY <1>1
<1>4. \A n \in Nat : Right(F(n + 1), n)
    <2> TAKE n \in Nat
    <2> HIDE DEF F
    <2>1. Right(F(n + 1), n + 1)
        <3> HIDE DEF Right
        <3> QED BY <1>3
    <2> QED BY <2>1
<1>5. G[0] = c
    <2> HIDE DEF F
    <2>1. Right(F(0), 0)
        <3> HIDE DEF Right
        <3> QED BY <1>3
    <2> QED BY <2>1
<1>6. \A n \in Nat : G[n + 1] = Step(G[n])
    <2> TAKE n \in Nat
    <2>1. F(n + 1)[n + 1] = Step(F(n + 1)[n])
        <3> HIDE DEF F
        <3>1. Right(F(n + 1), n + 1)
            <4> HIDE DEF Right
            <4> QED BY <1>3
        <3> QED BY <3>1
    <2>2. F(n + 1)[n] = F(n)[n]
        <3> HIDE DEF F, Right
        <3> QED BY <1>2, <1>3, <1>4
    <2> HIDE DEF F
    <2> QED BY <2>1, <2>2
<1>7. Def(G)
    <2> HIDE DEF G
    <2>1. \A k \in Nat : G[k] = IF k = 0 THEN c ELSE Step(G[k - 1])
        <3> TAKE k \in Nat
        <3>1. CASE k = 0
            BY <1>5, <3>1
        <3>2. CASE k # 0
            <4>1. k - 1 \in Nat /\ (k - 1) + 1 = k
                BY <3>2
            <4> QED BY <1>6, <4>1, <3>2
        <3> QED BY <3>1, <3>2
    <2>2. G = [k \in Nat |-> G[k]]
        BY DEF G
    <2> QED BY <2>1, <2>2
<1>8. Burst(c) = CHOOSE f : Def(f)
    BY DEF Burst, Step
<1>9. Def(Burst(c))
    <2> HIDE DEF Def, G
    <2> QED BY <1>7, <1>8
<1> QED
    <2>1. \A k \in Nat : Burst(c)[k] = IF k = 0 THEN c ELSE Step(Burst(c)[k - 1])
        BY <1>9
    <2>2. ASSUME NEW k \in Nat PROVE Burst(c)[k + 1] = Step(Burst(c)[k])
        <3>1. k + 1 \in Nat /\ k + 1 # 0 /\ (k + 1) - 1 = k
            OBVIOUS
        <3> QED BY <2>1, <3>1
    <2> QED BY <2>1, <2>2 DEF Step
-----------------------------------------------------------------------------
(* Records: what an operator changes of the control block *)

Fields == {"state", "sndseq", "rcvack", "maxrcvack", "sndack", "sndwnd", "maxwnd", "cwnd", "ssthresh", "pcount",
           "repeats", "rcvwnd", "newfree", "sndbuf", "rcvbuf", "chain", "count", "timers", "flags", "sent", "owes",
           "memory"}

Reach(c) == getsize(c.rcvack, c.maxrcvack)      \* bytes that were ever sent, not acknowledged

(* What a sender can be in: what is under way is in the buffer. *)
Sender(c) ==
    /\ DOMAIN c = Fields
    /\ c.sndseq \in Seqs /\ c.rcvack \in Seqs /\ c.maxrcvack \in Seqs
    /\ c.sndbuf \in Seq(Nat) /\ Len(c.sndbuf) <= SndMax
    /\ c.cwnd \in Nat /\ c.cwnd >= SndMss /\ c.ssthresh \in Nat /\ c.sndwnd \in Nat
    /\ Flight(c) <= Len(c.sndbuf) /\ Reach(c) <= Len(c.sndbuf)

(* s repeats bytes of the send buffer, none beyond the last one ever sent. *)
Piece(s, c) ==
    /\ s.seq \in Seqs /\ s.data \in Seq(Nat)
    /\ s.data # <<>> =>
          /\ getsize(c.rcvack, s.seq) + Len(s.data) <= Reach(c)
          /\ \A i \in 1 .. Len(s.data) : s.data[i] = c.sndbuf[getsize(c.rcvack, s.seq) + i]

SameReceiver(c, d) ==
    d.sndack = c.sndack /\ d.rcvbuf = c.rcvbuf /\ d.chain = c.chain /\ d.count = c.count

(* The steps of sending *)
Sends(c, d) ==
    /\ Sender(d) /\ SameReceiver(c, d)
    /\ d.state = c.state /\ d.rcvack = c.rcvack /\ d.sndbuf = c.sndbuf /\ d.sndwnd = c.sndwnd
    /\ d.cwnd = c.cwnd /\ d.ssthresh = c.ssthresh
    /\ Reach(c) <= Reach(d)
    /\ \A s \in d.sent : s \in c.sent \/ Piece(s, d)

(* A part of a sequence *)
LEMMA Cut ==
    ASSUME NEW T, NEW s \in Seq(T), NEW k \in Nat, NEW n \in Nat, k + n <= Len(s)
    PROVE  /\ SubSeq(s, k + 1, k + n) \in Seq(T) /\ Len(SubSeq(s, k + 1, k + n)) = n
           /\ \A i \in 1 .. n : SubSeq(s, k + 1, k + n)[i] = s[k + i]
<1>1. Len(s) \in Nat
    OBVIOUS
<1>2. \A i \in k + 1 .. k + n : s[i] \in T
    BY <1>1
<1>3. SubSeq(s, k + 1, k + n) \in Seq(T) /\ Len(SubSeq(s, k + 1, k + n)) = n
    BY <1>1, <1>2, SubSeqProperties
<1>4. ASSUME NEW i \in 1 .. n PROVE SubSeq(s, k + 1, k + n)[i] = s[k + i]
    BY <1>1, <1>2, SubSeqProperties
<1> QED BY <1>3, <1>4

(* Sizes in the send buffer are small numbers. *)
LEMMA SizesAreNumbers ==
    ASSUME NEW c, Sender(c)
    PROVE  Reach(c) \in 0 .. SndMax /\ Flight(c) \in 0 .. SndMax /\ Len(c.sndbuf) \in 0 .. SndMax
<1>1. Len(c.sndbuf) \in Nat
    BY DEF Sender
<1>2. Flight(c) \in Seqs /\ Reach(c) \in Seqs
    BY SizeIsDistance DEF Sender, Reach, Flight
<1>3. Len(c.sndbuf) <= SndMax /\ Flight(c) <= Len(c.sndbuf) /\ Reach(c) <= Len(c.sndbuf)
    BY DEF Sender
<1> QED BY <1>1, <1>2, <1>3, Small, SMT DEF Seqs

(* A piece of the buffer is one also after more was sent. *)
LEMMA PieceStays ==
    ASSUME NEW d, NEW e, Sender(d), Sends(d, e), NEW s, Piece(s, d)
    PROVE  Piece(s, e)
<1>1. Reach(d) \in Nat /\ Reach(e) \in Nat
    BY SizesAreNumbers, Small, SMT DEF Sends
<1>2. getsize(d.rcvack, s.seq) \in Nat
    <2>1. getsize(d.rcvack, s.seq) \in Seqs
        BY SizeIsDistance DEF Sender, Piece
    <2> QED BY <2>1, Small, SMT DEF Seqs
<1>3. Len(s.data) \in Nat
    BY DEF Piece
<1>4. e.rcvack = d.rcvack /\ e.sndbuf = d.sndbuf /\ Reach(d) <= Reach(e)
    BY DEF Sends
<1> QED BY <1>1, <1>2, <1>3, <1>4, SMT DEF Piece

(* Steps of sending compose. *)
LEMMA SendsOn ==
    ASSUME NEW c, NEW d, NEW e, Sender(c), Sends(c, d), Sends(d, e)
    PROVE  Sends(c, e)
<1>1. Reach(c) \in Nat /\ Reach(d) \in Nat /\ Reach(e) \in Nat
    BY SizesAreNumbers, Small, SMT DEF Sends
<1>2. Reach(c) <= Reach(e)
    BY <1>1, SMT DEF Sends
<1>3. ASSUME NEW s \in e.sent PROVE s \in c.sent \/ Piece(s, e)
    <2>1. s \in d.sent \/ Piece(s, e)
        BY DEF Sends
    <2>2. s \in d.sent => s \in c.sent \/ Piece(s, d)
        BY DEF Sends
    <2>3. Piece(s, d) => Piece(s, e)
        BY PieceStays DEF Sends
    <2> QED BY <2>1, <2>2, <2>3
<1>4. SameReceiver(c, e)
    BY SMT DEF Sends, SameReceiver
<1> QED BY <1>2, <1>3, <1>4, SMT DEF Sends

(* What sendseg changes, field by field *)
LEMMA SendsegEffect ==
    ASSUME NEW c, NEW data, NEW flags, NEW n, DOMAIN c = Fields
    PROVE  LET d == sendseg(c, data, flags, n)
           IN  /\ DOMAIN d = Fields /\ SameReceiver(c, d)
               /\ d.state = c.state /\ d.rcvack = c.rcvack /\ d.sndbuf = c.sndbuf /\ d.sndwnd = c.sndwnd
               /\ d.cwnd = c.cwnd /\ d.ssthresh = c.ssthresh
               /\ d.flags = c.flags /\ d.owes = c.owes /\ d.memory = c.memory
               /\ d.timers = c.timers \ {"delayed_ack"}
               /\ d.sndseq = Wrap(c.sndseq + n) /\ d.maxrcvack = Farthest(c, d.sndseq)
               /\ \A s \in d.sent : s \in c.sent \/ (s.seq = c.sndseq /\ s.data = data /\ s.flags = flags)
BY SMT DEF Fields, SameReceiver, sendseg, Off

(* But for the acknowledgment that a segment carries, timers are left. *)
SameTimers(c, d) == c.timers \cup {"delayed_ack"} = d.timers \cup {"delayed_ack"}

(* A data segment: what it occupies was in the buffer and not under way. *)
LEMMA DatasegSends ==
    ASSUME NEW c, Sender(c), NEW size \in Nat
    PROVE  LET d == senddataseg(c, size)
               n == Least(size, Left(c))
           IN  /\ Sends(c, d) /\ n \in Nat /\ Flight(d) = Flight(c) + n
               /\ SameTimers(c, d)
               /\ d.flags = c.flags /\ d.owes = c.owes /\ d.memory = c.memory
<1> DEFINE n == Least(size, Left(c))
           next == Wrap(c.sndseq + n)
           d == senddataseg(c, size)
           Goal == /\ Sends(c, d) /\ n \in Nat /\ Flight(d) = Flight(c) + n
                   /\ SameTimers(c, d)
                   /\ d.flags = c.flags /\ d.owes = c.owes /\ d.memory = c.memory
<1>1. Flight(c) \in Nat /\ Reach(c) \in Nat /\ Len(c.sndbuf) \in Nat /\ Len(c.sndbuf) <= SndMax
      /\ Flight(c) <= Len(c.sndbuf) /\ Reach(c) <= Len(c.sndbuf)
    BY SizesAreNumbers, Small, SMTT(30) DEF Sender
<1>2. n \in Nat /\ Flight(c) + n <= Len(c.sndbuf)
    BY <1>1, SMT DEF Least, Left
<1> HIDE DEF n
<1>3. next \in Seqs /\ getsize(c.rcvack, next) = Flight(c) + n
    <2>1. Flight(c) + n < SeqSpace
        BY <1>1, <1>2, Small, SMT
    <2>2. c.rcvack \in Seqs /\ c.sndseq \in Seqs
        BY DEF Sender
    <2> QED BY <2>1, <2>2, <1>2, Ahead DEF Flight
<1>4. d = IF n > 0 /\ ~c.memory THEN [c EXCEPT !.rcvwnd = getrcvwnd(c), !.sndseq = next]
          ELSE sendseg(c, Unsent(c, n), {"ACK"}, n)
    BY DEF senddataseg, n, Left
<1>5. ASSUME n > 0 /\ ~c.memory PROVE Goal
    <2>1. d = [c EXCEPT !.rcvwnd = getrcvwnd(c), !.sndseq = next]
        BY <1>4, <1>5, Zenon
    <2> HIDE DEF d, next
    <2>2. DOMAIN c = Fields
        BY DEF Sender
    <2>3. /\ DOMAIN d = Fields /\ SameReceiver(c, d)
          /\ d.state = c.state /\ d.rcvack = c.rcvack /\ d.sndbuf = c.sndbuf /\ d.sndwnd = c.sndwnd
          /\ d.cwnd = c.cwnd /\ d.ssthresh = c.ssthresh /\ d.timers = c.timers /\ d.flags = c.flags
          /\ d.owes = c.owes /\ d.memory = c.memory /\ d.sent = c.sent
          /\ d.sndseq = next /\ d.maxrcvack = c.maxrcvack
        BY <2>1, <2>2, SMT DEF Fields, SameReceiver
    <2>4. Flight(d) = Flight(c) + n /\ Reach(d) = Reach(c)
        BY <2>3, <1>3, SMT DEF Flight, Reach
    <2>5. Sender(d)
        BY <2>3, <2>4, <1>1, <1>2, <1>3, SMT DEF Sender
    <2> QED BY <2>3, <2>4, <2>5, <1>1, <1>2, SMT DEF Sends, SameTimers
<1>6. ASSUME ~(n > 0 /\ ~c.memory) PROVE Goal
    <2>1. d = sendseg(c, Unsent(c, n), {"ACK"}, n)
        BY <1>4, <1>6, Zenon
    <2> HIDE DEF d
    <2>2. DOMAIN c = Fields
        BY DEF Sender
    <2>3. /\ DOMAIN d = Fields /\ SameReceiver(c, d)
          /\ d.state = c.state /\ d.rcvack = c.rcvack /\ d.sndbuf = c.sndbuf /\ d.sndwnd = c.sndwnd
          /\ d.cwnd = c.cwnd /\ d.ssthresh = c.ssthresh /\ d.timers = c.timers \ {"delayed_ack"} /\ d.flags = c.flags
          /\ d.owes = c.owes /\ d.memory = c.memory
          /\ d.sndseq = next /\ d.maxrcvack = Farthest(c, next)
          /\ \A s \in d.sent : s \in c.sent \/ (s.seq = c.sndseq /\ s.data = Unsent(c, n))
        BY <2>1, <2>2, SendsegEffect, SMT DEF next, SameReceiver
    <2> HIDE DEF next
    <2>4. Flight(d) = Flight(c) + n
        BY <2>3, <1>3, SMT DEF Flight
    <2>5. /\ d.maxrcvack \in Seqs /\ Reach(d) <= Len(c.sndbuf) /\ Reach(c) <= Reach(d) /\ Flight(d) <= Reach(d)
        <3>1. c.rcvack \in Seqs /\ c.maxrcvack \in Seqs
            BY DEF Sender
        <3>2. Above(next, c.maxrcvack) <=> Reach(c) < Flight(c) + n
            BY <3>1, <1>1, <1>2, <1>3, Eighth, AboveIsFarther, SMTT(30) DEF Reach
        <3>3. CASE Above(next, c.maxrcvack)
            <4>1. d.maxrcvack = next /\ Reach(d) = Flight(c) + n
                BY <3>3, <2>3, <1>3, SMT DEF Farthest, Reach
            <4> QED BY <4>1, <3>2, <3>3, <2>4, <1>1, <1>2, <1>3, SMT
        <3>4. CASE ~Above(next, c.maxrcvack)
            <4>1. d.maxrcvack = c.maxrcvack /\ Reach(d) = Reach(c)
                BY <3>4, <2>3, SMT DEF Farthest, Reach
            <4> QED BY <4>1, <3>1, <3>2, <3>4, <2>4, <1>1, <1>2, SMT
        <3> QED BY <3>3, <3>4
    <2>6. Sender(d)
        BY <2>3, <2>4, <2>5, <1>1, <1>2, <1>3, SMT DEF Sender
    <2>7. ASSUME NEW s \in d.sent, s \notin c.sent PROVE Piece(s, d)
        <3>1. s.seq = c.sndseq /\ s.data = Unsent(c, n)
            BY <2>3, <2>7
        <3>2. c.sndbuf \in Seq(Nat) /\ c.sndseq \in Seqs
            BY DEF Sender
        <3>3. /\ Unsent(c, n) \in Seq(Nat) /\ Len(Unsent(c, n)) = n
              /\ \A i \in 1 .. n : Unsent(c, n)[i] = c.sndbuf[Flight(c) + i]
            <4>1. c.sndbuf \in Seq(Nat) /\ Flight(c) \in Nat /\ n \in Nat /\ Flight(c) + n <= Len(c.sndbuf)
                BY <3>2, <1>1, <1>2
            <4> QED BY <4>1, Cut, ZenonT(40) DEF Unsent
        <3>4. getsize(d.rcvack, s.seq) = Flight(c)
            BY <3>1, <2>3 DEF Flight
        <3> QED BY <3>1, <3>2, <3>3, <3>4, <2>3, <2>4, <2>5, SMT DEF Piece
    <2> QED BY <2>3, <2>4, <2>5, <2>6, <2>7, <1>2, SMT DEF Sends, SameTimers
<1> QED BY <1>5, <1>6 DEF n

(* Nothing sent is a step of sending. *)
LEMMA SendsNothing == ASSUME NEW c, Sender(c) PROVE Sends(c, c)
BY SizesAreNumbers, SMT DEF Sends, SameReceiver

(* k whole segments, if the buffer holds so many *)
LEMMA BurstSends ==
    ASSUME NEW c, Sender(c), NEW k \in Nat, k * SndMss <= Left(c)
    PROVE  LET d == Burst(c)[k]
           IN  /\ Sends(c, d) /\ Flight(d) = Flight(c) + k * SndMss
               /\ SameTimers(c, d) /\ d.flags = c.flags /\ d.owes = c.owes
<1> DEFINE D(i) == Burst(c)[i]
           Good(d, i) == /\ Sends(c, d) /\ Flight(d) = Flight(c) + i * SndMss
                         /\ SameTimers(c, d) /\ d.flags = c.flags /\ d.owes = c.owes
           S == {i \in Nat : i * SndMss <= Left(c) => Good(D(i), i)}
<1>1. Flight(c) \in Nat /\ Left(c) \in Int /\ Left(c) = Len(c.sndbuf) - Flight(c) /\ SndMss \in Nat
    BY SizesAreNumbers, Small, SMTT(30) DEF Left
<1>2. 0 \in S
    <2>1. D(0) = c
        BY BurstDef
    <2>2. Good(c, 0)
        BY <1>1, SendsNothing, SMT DEF SameTimers
    <2> HIDE DEF Good, D
    <2> QED BY <2>1, <2>2
<1>3. ASSUME NEW i \in Nat, i \in S PROVE i + 1 \in S
    <2> SUFFICES ASSUME (i + 1) * SndMss <= Left(c) PROVE Good(D(i + 1), i + 1)
        OBVIOUS
    <2>1. i * SndMss \in Nat /\ (i + 1) * SndMss = i * SndMss + SndMss
        BY <1>1, SMT
    <2>2. Good(D(i), i)
        BY <1>1, <1>3, <2>1, SMT
    <2>3. D(i + 1) = senddataseg(D(i), SndMss)
        BY BurstDef
    <2> DEFINE m == Least(SndMss, Left(D(i)))
    <2> HIDE DEF D
    <2>4. Sender(D(i)) /\ D(i).sndbuf = c.sndbuf
        BY <2>2, Zenon DEF Sends
    <2>5. m = SndMss
        BY <2>1, <2>2, <2>4, <1>1, SMTT(20) DEF Left, Least
    <2>6. /\ Sends(D(i), D(i + 1)) /\ Flight(D(i + 1)) = Flight(D(i)) + SndMss
          /\ SameTimers(D(i), D(i + 1)) /\ D(i + 1).flags = D(i).flags /\ D(i + 1).owes = D(i).owes
        <3>1. /\ Sends(D(i), senddataseg(D(i), SndMss))
              /\ Flight(senddataseg(D(i), SndMss)) = Flight(D(i)) + m
              /\ SameTimers(D(i), senddataseg(D(i), SndMss))
              /\ senddataseg(D(i), SndMss).flags = D(i).flags /\ senddataseg(D(i), SndMss).owes = D(i).owes
            BY <2>4, <1>1, DatasegSends
        <3> QED BY <2>3, <2>5, <3>1, Zenon
    <2>7. Sends(c, D(i + 1))
        BY <2>2, <2>6, SendsOn
    <2>8. SameTimers(c, D(i + 1))
        BY <2>2, <2>6, Zenon DEF SameTimers
    <2> QED BY <2>1, <2>2, <2>6, <2>7, <2>8, <1>1, SMT
<1> HIDE DEF S
<1>4. k \in S
    BY <1>2, <1>3, Induction
<1> QED BY <1>4 DEF S

(* What a sender's invariant is about is left alone, but for timers. *)
SameSender(c, d) ==
    /\ DOMAIN d = Fields
    /\ d.sndseq = c.sndseq /\ d.rcvack = c.rcvack /\ d.maxrcvack = c.maxrcvack
    /\ d.sndbuf = c.sndbuf /\ d.sndwnd = c.sndwnd /\ d.cwnd = c.cwnd /\ d.ssthresh = c.ssthresh

LEMMA SameIsSender ==
    ASSUME NEW c, NEW d, Sender(c), SameSender(c, d)
    PROVE  Sender(d) /\ Flight(d) = Flight(c) /\ Reach(d) = Reach(c) /\ Left(d) = Left(c)
BY SMT DEF Sender, SameSender, Flight, Reach, Left

LEMMA SameSends ==
    ASSUME NEW c, NEW d, Sender(c), SameSender(c, d), SameReceiver(c, d), d.sent = c.sent, d.state = c.state
    PROVE  Sends(c, d)
<1>1. Sender(d) /\ Reach(d) = Reach(c) /\ Reach(c) \in Int
    BY SameIsSender, SizesAreNumbers, SMT
<1> QED BY <1>1, SMT DEF SameSender, Sends

(* Turning a timer on or off sends nothing. *)
LEMMA TimersSend ==
    ASSUME NEW c, Sender(c), NEW t
    PROVE  Sends(c, On(c, t)) /\ Sends(c, Off(c, t)) /\ Flight(On(c, t)) = Flight(c) /\ Flight(Off(c, t)) = Flight(c)
<1>1. DOMAIN c = Fields
    BY DEF Sender
<1>2. SameSender(c, On(c, t)) /\ SameReceiver(c, On(c, t)) /\ On(c, t).sent = c.sent /\ On(c, t).state = c.state
    BY <1>1, SMT DEF Fields, On, SameSender, SameReceiver
<1>3. SameSender(c, Off(c, t)) /\ SameReceiver(c, Off(c, t)) /\ Off(c, t).sent = c.sent /\ Off(c, t).state = c.state
    BY <1>1, SMT DEF Fields, Off, SameSender, SameReceiver
<1> QED BY <1>2, <1>3, SameSends, SameIsSender
-----------------------------------------------------------------------------
(* Sending what the window allows *)

LEMMA Divided ==
    ASSUME NEW n \in Nat, NEW m \in Nat \ {0}
    PROVE  /\ n \div m \in Nat /\ n % m \in 0 .. m - 1 /\ (n \div m) * m + (n % m) = n
           /\ n >= m => n \div m >= 1
<1>1. n \div m \in Int /\ n % m \in 0 .. m - 1
    BY SMT
<1>2. n % m = n - m * (n \div m)
    BY SMT
<1>3. (n \div m) * m = m * (n \div m) /\ m * (n \div m) \in Int
    BY <1>1, SMT
<1>4. n \div m >= 0
    BY SMT
<1>5. n >= m => n \div m >= 1
    BY <1>1, <1>2, <1>3, SMT
<1> QED BY <1>1, <1>2, <1>3, <1>4, <1>5, SMT

(* How much is sent in whole segments, and what is left *)
LEMMA Parts ==
    ASSUME NEW n \in Nat, NEW oneexec \in BOOLEAN
    PROVE  /\ Whole(n, oneexec) \in Nat /\ Rest(n, oneexec) \in Nat
           /\ Whole(n, oneexec) * SndMss \in Nat
           /\ Whole(n, oneexec) * SndMss + Rest(n, oneexec) <= n
           /\ n > 0 => Whole(n, oneexec) * SndMss + Rest(n, oneexec) > 0
<1> DEFINE w == n \div SndMss
           r == n % SndMss
<1>1. SndMss \in Nat \ {0}
    BY Small
<1>2. w \in Nat /\ r \in Nat /\ w * SndMss + r = n /\ (n >= SndMss => w >= 1)
    BY <1>1, Divided
<1>3. Whole(n, oneexec) = (IF oneexec THEN Least(w, 1) ELSE w)
      /\ Rest(n, oneexec) = (IF oneexec /\ n >= SndMss THEN 0 ELSE r)
    BY DEF Whole, Rest
<1> HIDE DEF w, r
<1>4. w * SndMss \in Nat
    BY <1>1, <1>2, SMT
<1>5. CASE ~oneexec
    BY <1>1, <1>2, <1>3, <1>4, <1>5, SMT
<1>6. CASE oneexec /\ n >= SndMss
    <2>1. Whole(n, oneexec) = 1 /\ Rest(n, oneexec) = 0
        BY <1>2, <1>3, <1>6, SMT DEF Least
    <2> QED BY <2>1, <1>1, <1>6, SMT
<1>7. CASE oneexec /\ n < SndMss
    <2>1. w = 0 /\ r = n
        <3>1. w >= 1 => w * SndMss >= SndMss
            BY <1>1, <1>2, SMT
        <3>2. w = 0
            BY <3>1, <1>1, <1>2, <1>4, <1>7, SMT
        <3> QED BY <3>2, <1>1, <1>2, SMT
    <2>2. Whole(n, oneexec) = 0 /\ Rest(n, oneexec) = n
        BY <2>1, <1>1, <1>3, <1>7, SMT DEF Least
    <2> QED BY <2>2, <1>1, SMT
<1> QED BY <1>1, <1>5, <1>6, <1>7, SMT

(* What lies beyond the window is unsent. *)
LEMMA ShrunkSends ==
    ASSUME NEW c, Sender(c)
    PROVE  LET d == Shrunk(c)
           IN  /\ Sends(c, d) /\ Flight(d) <= d.sndwnd /\ Flight(d) <= Flight(c)
               /\ d.timers = c.timers /\ d.flags = c.flags \ {"SEND_TIMEOUT"} /\ d.owes = c.owes
               /\ d.maxrcvack = c.maxrcvack
<1> DEFINE d == Shrunk(c)
           n == Most(Flight(c) - c.sndwnd, 0)
           Goal == /\ Sends(c, d) /\ Flight(d) <= d.sndwnd /\ Flight(d) <= Flight(c)
                   /\ d.timers = c.timers /\ d.flags = c.flags \ {"SEND_TIMEOUT"} /\ d.owes = c.owes
                   /\ d.maxrcvack = c.maxrcvack
<1>1. d = [c EXCEPT !.flags = @ \ {"SEND_TIMEOUT"}, !.sndseq = Wrap(@ - n)]
    BY DEF Shrunk
<1>2. DOMAIN c = Fields /\ c.sndwnd \in Nat /\ c.rcvack \in Seqs /\ c.sndseq \in Seqs
    BY DEF Sender
<1>3. Flight(c) \in Nat /\ Reach(c) \in Nat /\ Len(c.sndbuf) \in Nat
    BY SizesAreNumbers, Small, SMT
<1>4. n \in Nat /\ n <= Flight(c) /\ Flight(c) - n <= c.sndwnd
    BY <1>2, <1>3, SMT DEF Most
<1> HIDE DEF d, n
<1>5. Wrap(c.sndseq - n) \in Seqs /\ getsize(c.rcvack, Wrap(c.sndseq - n)) = Flight(c) - n
    BY <1>2, <1>4, Behind DEF Flight
<1>6. /\ DOMAIN d = Fields /\ SameReceiver(c, d)
      /\ d.state = c.state /\ d.rcvack = c.rcvack /\ d.sndbuf = c.sndbuf /\ d.sndwnd = c.sndwnd
      /\ d.cwnd = c.cwnd /\ d.ssthresh = c.ssthresh /\ d.timers = c.timers
      /\ d.flags = c.flags \ {"SEND_TIMEOUT"} /\ d.owes = c.owes /\ d.sent = c.sent
      /\ d.sndseq = Wrap(c.sndseq - n) /\ d.maxrcvack = c.maxrcvack
    BY <1>1, <1>2, SMT DEF Fields, SameReceiver
<1>7. Flight(d) = Flight(c) - n /\ Reach(d) = Reach(c)
    BY <1>5, <1>6, SMT DEF Flight, Reach
<1>8. Sender(d)
    BY <1>3, <1>4, <1>5, <1>6, <1>7, SMT DEF Sender
<1>9. Goal
    BY <1>3, <1>4, <1>6, <1>7, <1>8, SMT DEF Sends
<1> QED BY <1>9 DEF d

(* What may be sent is in the buffer and the window, and something is when *)
(* nothing else is under way.                                              *)
LEMMA AllowedFits ==
    ASSUME NEW c, Sender(c), Flight(c) <= c.sndwnd
    PROVE  /\ Allowed(c) \in Nat /\ Allowed(c) <= Left(c) /\ Flight(c) + Allowed(c) <= c.sndwnd
           /\ Flight(c) = 0 /\ c.sndbuf # <<>> /\ c.sndwnd # 0 => Allowed(c) > 0
           /\ Left(c) \in Nat
<1> DEFINE more == c.cwnd - Flight(c)
           segs == (more \div SndMss) * SndMss
<1>1. c.sndwnd \in Nat /\ c.cwnd \in Nat /\ c.cwnd >= SndMss /\ SndMss \in Nat \ {0}
    BY Small DEF Sender
<1>2. Flight(c) \in Nat /\ Left(c) \in Nat /\ Left(c) = Len(c.sndbuf) - Flight(c)
    BY SizesAreNumbers, SMT DEF Sender, Left
<1>3. c.sndbuf # <<>> => Len(c.sndbuf) > 0
    BY SMT DEF Sender
<1>4. c.cwnd >= Flight(c) => segs \in Nat /\ (Flight(c) = 0 => segs > 0)
    <2> SUFFICES ASSUME c.cwnd >= Flight(c) PROVE segs \in Nat /\ (Flight(c) = 0 => segs > 0)
        OBVIOUS
    <2>1. more \in Nat /\ (Flight(c) = 0 => more >= SndMss)
        BY <1>1, <1>2, SMT
    <2> HIDE DEF more
    <2> DEFINE w == more \div SndMss
    <2>2. w \in Nat /\ (Flight(c) = 0 => w >= 1)
        BY <2>1, <1>1, Divided
    <2> HIDE DEF w
    <2>3. w * SndMss \in Nat /\ (Flight(c) = 0 => w * SndMss >= SndMss)
        BY <2>2, <1>1, SMT
    <2> QED BY <2>3, <1>1, SMT DEF w
<1>5. Room(c) = IF c.cwnd < Flight(c) THEN c.sndwnd - Flight(c) ELSE Least(c.sndwnd - Flight(c), segs)
    BY DEF Room
<1> HIDE DEF segs
<1>6. Room(c) \in Int /\ Room(c) <= c.sndwnd - Flight(c) /\ Room(c) >= 0
      /\ (Flight(c) = 0 /\ c.sndwnd # 0 => Room(c) > 0)
    BY <1>1, <1>2, <1>4, <1>5, SMT DEF Least
<1> QED BY <1>1, <1>2, <1>3, <1>6, SMT DEF Allowed, Least, Most

(* The flags but the one that says that data is held back *)
SameFlags(c, d) == c.flags \cup {"SEND_TIMEOUT"} = d.flags \cup {"SEND_TIMEOUT"}

(* What is less than a segment: sent, held back with the timer that sends  *)
(* it later, or, behind other data, left.                                  *)
LEMMA RemainderSends ==
    ASSUME NEW c, Sender(c), NEW rest \in Nat, rest <= Left(c), NEW force \in BOOLEAN
    PROVE  LET d == Remainder(c, rest, force)
           IN  /\ Sends(c, d) /\ Flight(c) <= Flight(d) /\ Flight(d) <= Flight(c) + rest
               /\ SameFlags(c, d) /\ d.owes = c.owes
               /\ c.timers \subseteq d.timers \cup {"delayed_ack"}
               /\ d.timers \subseteq c.timers \cup {"persist", "delayed_ack"}
               /\ "persist" \in d.timers => "persist" \in c.timers \/ rest > 0
               /\ "SEND_TIMEOUT" \in d.flags => "SEND_TIMEOUT" \in c.flags \/ rest > 0
               /\ rest > 0 /\ Flight(d) = 0 => ~force /\ "persist" \in d.timers /\ "SEND_TIMEOUT" \in d.flags
<1> DEFINE d == Remainder(c, rest, force)
           Goal == /\ Sends(c, d) /\ Flight(c) <= Flight(d) /\ Flight(d) <= Flight(c) + rest
                   /\ SameFlags(c, d) /\ d.owes = c.owes
                   /\ c.timers \subseteq d.timers \cup {"delayed_ack"}
                   /\ d.timers \subseteq c.timers \cup {"persist", "delayed_ack"}
                   /\ "persist" \in d.timers => "persist" \in c.timers \/ rest > 0
                   /\ "SEND_TIMEOUT" \in d.flags => "SEND_TIMEOUT" \in c.flags \/ rest > 0
                   /\ rest > 0 /\ Flight(d) = 0 => ~force /\ "persist" \in d.timers /\ "SEND_TIMEOUT" \in d.flags
           now  == rest > 0 /\ (rest > c.maxwnd \div 2 \/ force \/ (Idle(c) /\ rest = Left(c)))
           held == [On(c, "persist") EXCEPT !.flags = @ \cup {"SEND_TIMEOUT"}]
<1>1. d = IF now THEN senddataseg(c, rest) ELSE IF rest > 0 /\ Idle(c) THEN held ELSE c
    BY DEF Remainder
<1>2. Flight(c) \in Nat /\ DOMAIN c = Fields /\ c.rcvack \in Seqs /\ c.sndseq \in Seqs
    BY SizesAreNumbers, SMT DEF Sender
<1>3. Flight(c) = 0 => Idle(c)
    BY <1>2, Small, SMT DEF Flight, getsize, Seqs, Idle
<1>4. CASE now
    <2>1. d = senddataseg(c, rest)
        BY <1>1, <1>4
    <2>2. Least(rest, Left(c)) = rest
        BY SizesAreNumbers, SMT DEF Least, Left
    <2>3. Sends(c, d) /\ Flight(d) = Flight(c) + rest /\ SameTimers(c, d) /\ d.flags = c.flags /\ d.owes = c.owes
        BY <2>1, <2>2, DatasegSends, Zenon
    <2>4. rest > 0
        BY <1>4
    <2> HIDE DEF d, now, held
    <2>5. Goal
        BY <2>3, <2>4, <1>2, SMT DEF SameTimers, SameFlags
    <2> QED BY <2>5 DEF d
<1>5. CASE ~now /\ rest > 0 /\ Idle(c)
    <2>1. d = held
        BY <1>1, <1>5
    <2>2. /\ SameSender(c, held) /\ SameReceiver(c, held) /\ held.sent = c.sent /\ held.owes = c.owes /\ held.state = c.state
          /\ held.timers = c.timers \cup {"persist"} /\ held.flags = c.flags \cup {"SEND_TIMEOUT"}
        BY <1>2, SMT DEF Fields, On, SameSender, SameReceiver
    <2>3. ~force /\ rest > 0
        BY <1>5
    <2> HIDE DEF d, now, held
    <2>4. Sends(c, held) /\ Flight(held) = Flight(c)
        BY <2>2, SameSends, SameIsSender
    <2>5. Goal
        BY <2>1, <2>2, <2>3, <2>4, <1>2, SMT DEF SameFlags
    <2> QED BY <2>5 DEF d
<1>6. CASE ~now /\ ~(rest > 0 /\ Idle(c))
    <2>1. d = c
        BY <1>1, <1>6
    <2>2. rest > 0 => Flight(c) # 0
        BY <1>3, <1>6
    <2>3. Sends(c, c)
        BY SendsNothing
    <2> HIDE DEF d, now, held
    <2>4. Goal
        BY <2>1, <2>2, <2>3, <1>2, SMT DEF SameFlags
    <2> QED BY <2>4 DEF d
<1> QED BY <1>4, <1>5, <1>6

(* Something was sent: not what was held back, but the acknowledgment for  *)
(* it is waited for.                                                       *)
LEMMA TimedSends ==
    ASSUME NEW c, Sender(c), NEW d, Sends(c, d), Flight(c) <= Flight(d)
    PROVE  LET e == Timed(c, d)
           IN  /\ Sends(c, e) /\ Flight(e) = Flight(d) /\ e.flags = d.flags /\ e.owes = d.owes
               /\ Flight(e) = Flight(c) => e = d
               /\ Flight(e) # Flight(c) => e.timers = (d.timers \ {"persist"}) \cup {"retransmission"}
<1> DEFINE later == On(Off(d, "persist"), "retransmission")
           e == Timed(c, d)
<1>1. Sender(d) /\ DOMAIN d = Fields /\ d.rcvack = c.rcvack /\ d.sndseq \in Seqs /\ c.sndseq \in Seqs /\ c.rcvack \in Seqs
    BY DEF Sends, Sender
<1>2. Flight(c) = Flight(d) <=> c.sndseq = d.sndseq
    <2>1. Flight(d) = getsize(c.rcvack, d.sndseq) /\ Flight(c) = getsize(c.rcvack, c.sndseq)
        BY <1>1 DEF Flight
    <2> QED BY <2>1, <1>1, Small, SMT DEF getsize, Seqs
<1>3. e = IF d.sndseq = c.sndseq THEN d ELSE later
    BY DEF Timed
<1>4. /\ SameSender(d, later) /\ SameReceiver(d, later) /\ later.sent = d.sent /\ later.state = d.state
      /\ later.flags = d.flags /\ later.owes = d.owes /\ later.timers = (d.timers \ {"persist"}) \cup {"retransmission"}
    BY <1>1, SMT DEF Fields, On, Off, SameSender, SameReceiver
<1> HIDE DEF later
<1>5. Sends(c, later) /\ Flight(later) = Flight(d)
    <2>1. Sends(d, later) /\ Flight(later) = Flight(d)
        BY <1>1, <1>4, SameSends, SameIsSender
    <2> QED BY <2>1, SendsOn
<1>6. CASE d.sndseq = c.sndseq
    BY <1>2, <1>3, <1>6
<1>7. CASE d.sndseq # c.sndseq
    BY <1>2, <1>3, <1>4, <1>5, <1>7
<1> QED BY <1>6, <1>7

(* Everything that the window allows is sent; what is not has a timer. *)
Fills(c, d, force) ==
    /\ Sends(c, d) /\ Flight(d) <= d.sndwnd /\ SameFlags(c, d) /\ d.owes = c.owes
    /\ (Flight(c) # 0 => "retransmission" \in c.timers) => (Flight(d) # 0 => "retransmission" \in d.timers)
    /\ Flight(d) = 0 /\ d.sndbuf # <<>> /\ d.sndwnd # 0 =>
           ~force /\ "persist" \in d.timers /\ "SEND_TIMEOUT" \in d.flags
    /\ "SEND_TIMEOUT" \in d.flags => d.sndwnd # 0
    /\ "persist" \in d.timers => "persist" \in c.timers \/ d.sndwnd # 0
    /\ d.timers \subseteq c.timers \cup {"persist", "retransmission", "delayed_ack"}

(* That is so if the window holds what is under way, *)
LEMMA SentFills ==
    ASSUME NEW c, Sender(c), Flight(c) <= c.sndwnd, "SEND_TIMEOUT" \notin c.flags,
           NEW oneexec \in BOOLEAN, NEW force \in BOOLEAN
    PROVE  Fills(c, Sent(c, Allowed(c), oneexec, force), force)
<1> DEFINE n == Allowed(c)
           w == Whole(n, oneexec)
           r == Rest(n, oneexec)
           x == Burst(c)[w]
           y == Remainder(x, r, force)
           e == Timed(c, y)
<1>1. /\ n \in Nat /\ n <= Left(c) /\ Flight(c) + n <= c.sndwnd /\ Left(c) \in Nat
      /\ Flight(c) = 0 /\ c.sndbuf # <<>> /\ c.sndwnd # 0 => n > 0
    BY AllowedFits
<1> HIDE DEF n
<1>2. w \in Nat /\ r \in Nat /\ w * SndMss \in Nat /\ w * SndMss + r <= n /\ (n > 0 => w * SndMss + r > 0)
    BY <1>1, Parts
<1> DEFINE p == w * SndMss
<1> HIDE DEF w, r
<1>3. p \in Nat /\ p + r <= n /\ (n > 0 => p + r > 0)
    BY <1>2
<1>4. Sends(c, x) /\ Flight(x) = Flight(c) + p /\ SameTimers(c, x) /\ x.flags = c.flags /\ x.owes = c.owes
    <2>1. p <= Left(c)
        BY <1>1, <1>2, SMT
    <2> QED BY <2>1, <1>2, BurstSends
<1> HIDE DEF p, x
<1>5. Flight(c) \in Nat /\ Left(c) = Len(c.sndbuf) - Flight(c) /\ Len(c.sndbuf) \in Nat /\ c.sndwnd \in Nat
    BY SizesAreNumbers, SMT DEF Left, Sender
<1>6. Sender(x) /\ x.sndbuf = c.sndbuf /\ x.sndwnd = c.sndwnd
    BY <1>4 DEF Sends
<1>7. r <= Left(x)
    BY <1>1, <1>3, <1>4, <1>5, <1>6, <1>2, SMT DEF Left
<1>8. /\ Sends(x, y) /\ Flight(x) <= Flight(y) /\ Flight(y) <= Flight(x) + r
      /\ SameFlags(x, y) /\ y.owes = x.owes
      /\ x.timers \subseteq y.timers \cup {"delayed_ack"}
      /\ y.timers \subseteq x.timers \cup {"persist", "delayed_ack"}
      /\ "persist" \in y.timers => "persist" \in x.timers \/ r > 0
      /\ "SEND_TIMEOUT" \in y.flags => "SEND_TIMEOUT" \in x.flags \/ r > 0
      /\ r > 0 /\ Flight(y) = 0 => ~force /\ "persist" \in y.timers /\ "SEND_TIMEOUT" \in y.flags
    BY <1>2, <1>6, <1>7, RemainderSends
<1> HIDE DEF y
<1>9. Sends(c, y) /\ Flight(y) \in Nat
    <2>1. Sends(c, y)
        BY <1>4, <1>8, SendsOn
    <2> QED BY <2>1, SizesAreNumbers, SMT DEF Sends
<1>10. /\ Sends(c, e) /\ Flight(e) = Flight(y) /\ e.flags = y.flags /\ e.owes = y.owes
       /\ Flight(e) = Flight(c) => e = y
       /\ Flight(e) # Flight(c) => e.timers = (y.timers \ {"persist"}) \cup {"retransmission"}
    <2>1. Flight(c) <= Flight(y)
        BY <1>3, <1>4, <1>5, <1>8, <1>9, SMT
    <2> QED BY <2>1, <1>9, TimedSends
<1> HIDE DEF e
<1>11. e.sndwnd = c.sndwnd /\ e.sndbuf = c.sndbuf
    BY <1>10 DEF Sends
<1>12. Flight(e) <= e.sndwnd
    BY <1>1, <1>2, <1>3, <1>4, <1>5, <1>8, <1>9, <1>10, <1>11, SMTT(30)
<1>13. SameFlags(c, e) /\ e.owes = c.owes
    BY <1>4, <1>8, <1>10, SMT DEF SameFlags
<1>14. (r > 0 => e.sndwnd # 0) /\ (n > 0 => e.sndwnd # 0)
    BY <1>1, <1>2, <1>3, <1>5, <1>11, SMT
<1>15. "SEND_TIMEOUT" \in e.flags => e.sndwnd # 0
    BY <1>4, <1>8, <1>10, <1>14, SMT
<1>16. "persist" \in e.timers => "persist" \in c.timers \/ e.sndwnd # 0
    BY <1>4, <1>8, <1>10, <1>14, SMT DEF SameTimers
<1>17. e.timers \subseteq c.timers \cup {"persist", "retransmission", "delayed_ack"}
    BY <1>4, <1>8, <1>10, SMT DEF SameTimers
<1>18. ASSUME Flight(c) # 0 => "retransmission" \in c.timers, Flight(e) # 0 PROVE "retransmission" \in e.timers
    <2>1. CASE Flight(e) = Flight(c)
        BY <2>1, <1>4, <1>8, <1>10, <1>18, SMT DEF SameTimers
    <2>2. CASE Flight(e) # Flight(c)
        BY <2>2, <1>10, SMT
    <2> QED BY <2>1, <2>2
<1>19. ASSUME Flight(e) = 0, e.sndbuf # <<>>, e.sndwnd # 0
       PROVE  ~force /\ "persist" \in e.timers /\ "SEND_TIMEOUT" \in e.flags
    <2>1. Flight(c) = 0 /\ Flight(x) = 0 /\ p = 0 /\ Flight(y) = 0
        BY <1>3, <1>4, <1>5, <1>8, <1>9, <1>10, <1>19, SMT
    <2>2. r > 0
        BY <2>1, <1>1, <1>2, <1>3, <1>11, <1>19, SMT
    <2>3. e = y
        BY <2>1, <1>10, <1>19
    <2> QED BY <2>1, <2>2, <2>3, <1>8
<1>20. Fills(c, e, force)
    BY <1>10, <1>12, <1>13, <1>15, <1>16, <1>17, <1>18, <1>19 DEF Fills
<1> QED BY <1>20 DEF Sent, e, y, x, w, r, n

(* and sendanydata first sees to that. *)
LEMMA SendanydataFills ==
    ASSUME NEW c, Sender(c), NEW oneexec \in BOOLEAN, NEW force \in BOOLEAN
    PROVE  Fills(c, sendanydata(c, oneexec, force), force)
<1> DEFINE x == Shrunk(c)
           d == sendanydata(c, oneexec, force)
<1>1. /\ Sends(c, x) /\ Flight(x) <= x.sndwnd /\ Flight(x) <= Flight(c)
      /\ x.timers = c.timers /\ x.flags = c.flags \ {"SEND_TIMEOUT"} /\ x.owes = c.owes
    BY ShrunkSends
<1>2. d = Sent(x, Allowed(x), oneexec, force)
    BY DEF sendanydata, Filled
<1> HIDE DEF x, d
<1>3. Sender(x) /\ "SEND_TIMEOUT" \notin x.flags
    BY <1>1 DEF Sends
<1>4. Fills(x, d, force)
    BY <1>1, <1>2, <1>3, SentFills
<1>5. Sends(c, d)
    BY <1>1, <1>4, SendsOn DEF Fills
<1>6. Flight(c) \in Nat /\ Flight(x) \in Nat
    BY <1>3, SizesAreNumbers, SMT
<1>7. Fills(c, d, force)
    BY <1>1, <1>4, <1>5, <1>6, SMT DEF Fills, SameFlags
<1> QED BY <1>7 DEF d

(* send()'s loop is one, too, *)
LEMMA PushedDef ==
    ASSUME NEW c
    PROVE  /\ Pushed(c)[0] = c
           /\ \A k \in Nat : Pushed(c)[k + 1] = sendanydata(Pushed(c)[k], TRUE, FALSE)
<1> DEFINE Step(x) == sendanydata(x, TRUE, FALSE)
           Right(f, n) == f[0] = c /\ \A k \in 0 .. n - 1 : f[k + 1] = Step(f[k])
           Def(f) == f = [k \in Nat |-> IF k = 0 THEN c ELSE Step(f[k - 1])]
<1> HIDE DEF Step
<1>1. \A n \in Nat : \E f : Right(f, n)
    <2> DEFINE S == {n \in Nat : \E f : Right(f, n)}
    <2>1. 0 \in S
        <3> DEFINE f == [k \in {0} |-> c]
        <3>1. Right(f, 0)
            BY SMT
        <3> QED BY <3>1
    <2>2. ASSUME NEW n \in Nat, n \in S PROVE n + 1 \in S
        <3>1. PICK f : Right(f, n)
            BY <2>2
        <3> DEFINE g == [k \in 0 .. n + 1 |-> IF k = n + 1 THEN Step(f[n]) ELSE f[k]]
        <3>2. Right(g, n + 1)
            BY <3>1, SMT
        <3> QED BY <3>2, SMTT(40)
    <2> HIDE DEF S
    <2>3. \A n \in Nat : n \in S
        BY <2>1, <2>2, Induction
    <2> QED BY <2>3 DEF S
<1>2. \A n \in Nat : \A f, g : Right(f, n) /\ Right(g, n) => f[n] = g[n]
    <2> DEFINE S == {n \in Nat : \A f, g : Right(f, n) /\ Right(g, n) => f[n] = g[n]}
    <2>1. 0 \in S
        OBVIOUS
    <2>2. ASSUME NEW n \in Nat, n \in S PROVE n + 1 \in S
        <3> SUFFICES ASSUME NEW f, NEW g, Right(f, n + 1), Right(g, n + 1) PROVE f[n + 1] = g[n + 1]
            OBVIOUS
        <3>1. Right(f, n) /\ Right(g, n)
            OBVIOUS
        <3> QED BY <3>1, <2>2
    <2> HIDE DEF S
    <2>3. \A n \in Nat : n \in S
        BY <2>1, <2>2, Induction
    <2> QED BY <2>3 DEF S
<1> DEFINE F(n) == CHOOSE f : Right(f, n)
           G == [n \in Nat |-> F(n)[n]]
<1>3. \A n \in Nat : Right(F(n), n)
    <2> TAKE n \in Nat
    <2> HIDE DEF Right
    <2> QED BY <1>1
<1>4. \A n \in Nat : Right(F(n + 1), n)
    <2> TAKE n \in Nat
    <2> HIDE DEF F
    <2>1. Right(F(n + 1), n + 1)
        <3> HIDE DEF Right
        <3> QED BY <1>3
    <2> QED BY <2>1
<1>5. G[0] = c
    <2> HIDE DEF F
    <2>1. Right(F(0), 0)
        <3> HIDE DEF Right
        <3> QED BY <1>3
    <2> QED BY <2>1
<1>6. \A n \in Nat : G[n + 1] = Step(G[n])
    <2> TAKE n \in Nat
    <2>1. F(n + 1)[n + 1] = Step(F(n + 1)[n])
        <3> HIDE DEF F
        <3>1. Right(F(n + 1), n + 1)
            <4> HIDE DEF Right
            <4> QED BY <1>3
        <3> QED BY <3>1
    <2>2. F(n + 1)[n] = F(n)[n]
        <3> HIDE DEF F, Right
        <3> QED BY <1>2, <1>3, <1>4
    <2> HIDE DEF F
    <2> QED BY <2>1, <2>2
<1>7. Def(G)
    <2> HIDE DEF G
    <2>1. \A k \in Nat : G[k] = IF k = 0 THEN c ELSE Step(G[k - 1])
        <3> TAKE k \in Nat
        <3>1. CASE k = 0
            BY <1>5, <3>1
        <3>2. CASE k # 0
            <4>1. k - 1 \in Nat /\ (k - 1) + 1 = k
                BY <3>2
            <4> QED BY <1>6, <4>1, <3>2
        <3> QED BY <3>1, <3>2
    <2>2. G = [k \in Nat |-> G[k]]
        BY DEF G
    <2> QED BY <2>1, <2>2
<1>8. Pushed(c) = CHOOSE f : Def(f)
    BY DEF Pushed, Step
<1>9. Def(Pushed(c))
    <2> HIDE DEF Def, G
    <2> QED BY <1>7, <1>8
<1> QED
    <2>1. \A k \in Nat : Pushed(c)[k] = IF k = 0 THEN c ELSE Step(Pushed(c)[k - 1])
        BY <1>9
    <2>2. ASSUME NEW k \in Nat PROVE Pushed(c)[k + 1] = Step(Pushed(c)[k])
        <3>1. k + 1 \in Nat /\ k + 1 # 0 /\ (k + 1) - 1 = k
            OBVIOUS
        <3> QED BY <2>1, <3>1
    <2> QED BY <2>1, <2>2 DEF Step

(* and so is the one that empties the temporary buffer. *)
LEMMA DrainingDef ==
    ASSUME NEW c
    PROVE  /\ Draining(c)[0] = c
           /\ \A k \in Nat : Draining(c)[k + 1] = FromChain(Draining(c)[k])
<1> DEFINE Step(x) == FromChain(x)
           Right(f, n) == f[0] = c /\ \A k \in 0 .. n - 1 : f[k + 1] = Step(f[k])
           Def(f) == f = [k \in Nat |-> IF k = 0 THEN c ELSE Step(f[k - 1])]
<1> HIDE DEF Step
<1>1. \A n \in Nat : \E f : Right(f, n)
    <2> DEFINE S == {n \in Nat : \E f : Right(f, n)}
    <2>1. 0 \in S
        <3> DEFINE f == [k \in {0} |-> c]
        <3>1. Right(f, 0)
            BY SMT
        <3> QED BY <3>1
    <2>2. ASSUME NEW n \in Nat, n \in S PROVE n + 1 \in S
        <3>1. PICK f : Right(f, n)
            BY <2>2
        <3> DEFINE g == [k \in 0 .. n + 1 |-> IF k = n + 1 THEN Step(f[n]) ELSE f[k]]
        <3>2. Right(g, n + 1)
            BY <3>1, SMT
        <3> QED BY <3>2, SMTT(40)
    <2> HIDE DEF S
    <2>3. \A n \in Nat : n \in S
        BY <2>1, <2>2, Induction
    <2> QED BY <2>3 DEF S
<1>2. \A n \in Nat : \A f, g : Right(f, n) /\ Right(g, n) => f[n] = g[n]
    <2> DEFINE S == {n \in Nat : \A f, g : Right(f, n) /\ Right(g, n) => f[n] = g[n]}
    <2>1. 0 \in S
        OBVIOUS
    <2>2. ASSUME NEW n \in Nat, n \in S PROVE n + 1 \in S
        <3> SUFFICES ASSUME NEW f, NEW g, Right(f, n + 1), Right(g, n + 1) PROVE f[n + 1] = g[n + 1]
            OBVIOUS
        <3>1. Right(f, n) /\ Right(g, n)
            OBVIOUS
        <3> QED BY <3>1, <2>2
    <2> HIDE DEF S
    <2>3. \A n \in Nat : n \in S
        BY <2>1, <2>2, Induction
    <2> QED BY <2>3 DEF S
<1> DEFINE F(n) == CHOOSE f : Right(f, n)
           G == [n \in Nat |-> F(n)[n]]
<1>3. \A n \in Nat : Right(F(n), n)
    <2> TAKE n \in Nat
    <2> HIDE DEF Right
    <2> QED BY <1>1
<1>4. \A n \in Nat : Right(F(n + 1), n)
    <2> TAKE n \in Nat
    <2> HIDE DEF F
    <2>1. Right(F(n + 1), n + 1)
        <3> HIDE DEF Right
        <3> QED BY <1>3
    <2> QED BY <2>1
<1>5. G[0] = c
    <2> HIDE DEF F
    <2>1. Right(F(0), 0)
        <3> HIDE DEF Right
        <3> QED BY <1>3
    <2> QED BY <2>1
<1>6. \A n \in Nat : G[n + 1] = Step(G[n])
    <2> TAKE n \in Nat
    <2>1. F(n + 1)[n + 1] = Step(F(n + 1)[n])
        <3> HIDE DEF F
        <3>1. Right(F(n + 1), n + 1)
            <4> HIDE DEF Right
            <4> QED BY <1>3
        <3> QED BY <3>1
    <2>2. F(n + 1)[n] = F(n)[n]
        <3> HIDE DEF F, Right
        <3> QED BY <1>2, <1>3, <1>4
    <2> HIDE DEF F
    <2> QED BY <2>1, <2>2
<1>7. Def(G)
    <2> HIDE DEF G
    <2>1. \A k \in Nat : G[k] = IF k = 0 THEN c ELSE Step(G[k - 1])
        <3> TAKE k \in Nat
        <3>1. CASE k = 0
            BY <1>5, <3>1
        <3>2. CASE k # 0
            <4>1. k - 1 \in Nat /\ (k - 1) + 1 = k
                BY <3>2
            <4> QED BY <1>6, <4>1, <3>2
        <3> QED BY <3>1, <3>2
    <2>2. G = [k \in Nat |-> G[k]]
        BY DEF G
    <2> QED BY <2>1, <2>2
<1>8. Draining(c) = CHOOSE f : Def(f)
    BY DEF Draining, Step
<1>9. Def(Draining(c))
    <2> HIDE DEF Def, G
    <2> QED BY <1>7, <1>8
<1> QED
    <2>1. \A k \in Nat : Draining(c)[k] = IF k = 0 THEN c ELSE Step(Draining(c)[k - 1])
        BY <1>9
    <2>2. ASSUME NEW k \in Nat PROVE Draining(c)[k + 1] = Step(Draining(c)[k])
        <3>1. k + 1 \in Nat /\ k + 1 # 0 /\ (k + 1) - 1 = k
            OBVIOUS
        <3> QED BY <2>1, <3>1
    <2> QED BY <2>1, <2>2 DEF Step

(* Calls of sendanydata compose. *)
LEMMA FillsOn ==
    ASSUME NEW c, NEW d, NEW e, Sender(c), NEW f \in BOOLEAN, Fills(c, d, FALSE), Fills(d, e, FALSE)
    PROVE  Fills(c, e, FALSE)
<1>1. Sends(c, e)
    BY SendsOn DEF Fills
<1>2. e.sndwnd = d.sndwnd /\ d.sndwnd = c.sndwnd /\ e.sndbuf = d.sndbuf
    BY DEF Sends, Fills
<1> QED BY <1>1, <1>2, SMT DEF Fills, SameFlags

(* So send()'s loop is like one call of it. *)
LEMMA PushedFills ==
    ASSUME NEW c, Sender(c)
    PROVE  Fills(c, Pushed(c)[SndMax], FALSE)
<1> DEFINE D(i) == Pushed(c)[i]
           S == {i \in Nat : Fills(c, D(i + 1), FALSE)}
<1>1. \A i \in Nat : D(i + 1) = sendanydata(D(i), TRUE, FALSE)
    BY PushedDef
<1>2. D(0) = c
    BY PushedDef
<1> HIDE DEF D
<1>3. 0 \in S
    <2>1. D(0 + 1) = sendanydata(c, TRUE, FALSE)
        BY <1>1, <1>2
    <2>2. Fills(c, sendanydata(c, TRUE, FALSE), FALSE)
        BY SendanydataFills
    <2> QED BY <2>1, <2>2
<1>4. ASSUME NEW i \in Nat, i \in S PROVE i + 1 \in S
    <2>1. Fills(c, D(i + 1), FALSE) /\ i + 1 \in Nat
        <3>1. Fills(c, D(i + 1), FALSE)
            BY <1>4, Zenon
        <3>2. i + 1 \in Nat
            OBVIOUS
        <3> QED BY <3>1, <3>2, Zenon
    <2>2. D((i + 1) + 1) = sendanydata(D(i + 1), TRUE, FALSE)
        BY <1>1, <2>1
    <2>3. Sender(D(i + 1))
        BY <2>1 DEF Fills, Sends
    <2>4. Fills(D(i + 1), D((i + 1) + 1), FALSE)
        BY <2>2, <2>3, SendanydataFills
    <2>5. Fills(c, D((i + 1) + 1), FALSE)
        BY <2>1, <2>4, FillsOn
    <2> QED BY <2>1, <2>5
<1> HIDE DEF S
<1>5. \A i \in Nat : i \in S
    BY <1>3, <1>4, Induction
<1>6. SndMax - 1 \in Nat /\ (SndMax - 1) + 1 = SndMax
    BY Small, SMT
<1>7. Fills(c, D((SndMax - 1) + 1), FALSE)
    BY <1>5, <1>6 DEF S
<1> QED BY <1>6, <1>7 DEF D
-----------------------------------------------------------------------------
(* Receiving leaves the sender alone. *)

Chained(c) == \E T : c.chain \in Seq(T)

Receives(c, d) ==
    /\ SameSender(c, d) /\ d.timers = c.timers /\ d.sent = c.sent
    /\ Connected(c) => Connected(d)
    /\ Chained(c) => Chained(d)
    /\ c.flags \cup {"FIN_RCVD"} = d.flags \cup {"FIN_RCVD"}

(* Steps of receiving compose. *)
LEMMA ReceivesOn ==
    ASSUME NEW c, NEW d, NEW e, Receives(c, d), Receives(d, e)
    PROVE  Receives(c, e)
BY SMT DEF Receives, SameSender

(* Each part of addinpbuf is one: an acknowledgment that is owed, *)
LEMMA OwesReceives ==
    ASSUME NEW c, NEW how, DOMAIN c = Fields
    PROVE  Receives(c, Owes(c, how))
BY SMT DEF Fields, Owes, Receives, SameSender, Connected, Chained

(* data that is taken, *)
LEMMA TakeReceives ==
    ASSUME NEW c, NEW s, NEW skip, DOMAIN c = Fields
    PROVE  Receives(c, Take(c, s, skip))
<1> DEFINE c1 == IF "FIN" \in s.flags THEN Owes(finprocessing(c), "FIN_ACK") ELSE c
           d == Take(c, s, skip)
<1>1. Receives(c, finprocessing(c))
    BY SMT DEF Fields, finprocessing, Receives, SameSender, Connected, Chained
<1>2. Receives(finprocessing(c), Owes(finprocessing(c), "FIN_ACK"))
    BY <1>1, OwesReceives DEF Receives, SameSender
<1>3. Receives(c, c1)
    <2>1. Receives(c, c)
        BY SMT DEF Receives, SameSender
    <2> QED BY <2>1, <1>1, <1>2, ReceivesOn
<1>4. DOMAIN c1 = Fields
    BY <1>3 DEF Receives, SameSender
<1>5. \E buf, ack : d = [c1 EXCEPT !.rcvbuf = buf, !.sndack = ack]
    BY DEF Take
<1> HIDE DEF c1, d
<1>6. Receives(c1, d)
    BY <1>4, <1>5, SMT DEF Fields, Receives, SameSender, Connected, Chained
<1>7. Receives(c, d)
    BY <1>3, <1>6, ReceivesOn
<1> QED BY <1>7 DEF d

(* a segment that leaves the temporary buffer, *)
LEMMA FromChainReceives ==
    ASSUME NEW c, DOMAIN c = Fields
    PROVE  Receives(c, FromChain(c))
<1> DEFINE s == Head(c.chain)
           skip == getsize(s.seq, c.sndack)
           rest == Tail(c.chain)
           d1 == [c EXCEPT !.chain = rest, !.count = @ - total_length(s)]
           d2 == [c EXCEPT !.chain = rest,
                           !.count = @ - IF rest = <<>> THEN NullLength ELSE total_length(Head(rest))]
<1>1. FromChain(c) = IF c.chain = <<>> \/ ~NotBelow(c.sndack, s.seq) THEN c
                     ELSE IF NotBelow(End(s), c.sndack) THEN Take(d1, s, skip) ELSE d2
    BY DEF FromChain
<1>2. Receives(c, c)
    BY SMT DEF Receives, SameSender
<1> SUFFICES ASSUME c.chain # <<>> PROVE Receives(c, FromChain(c))
    BY <1>1, <1>2
<1>3. ASSUME NEW T, c.chain \in Seq(T) PROVE rest \in Seq(T)
    BY <1>3, SMT
<1> HIDE DEF rest
<1>4. Receives(c, d1)
    BY <1>3, SMT DEF Fields, Receives, SameSender, Connected, Chained
<1>5. Receives(c, d2)
    BY <1>3, SMT DEF Fields, Receives, SameSender, Connected, Chained
<1> HIDE DEF d1, d2
<1>6. DOMAIN d1 = Fields
    BY <1>4 DEF Receives, SameSender
<1>7. Receives(d1, Take(d1, s, skip))
    BY <1>6, TakeReceives
<1>8. Receives(c, Take(d1, s, skip))
    BY <1>4, <1>7, ReceivesOn
<1> QED BY <1>1, <1>2, <1>5, <1>8

(* and many of them. *)
LEMMA DrainingReceives ==
    ASSUME NEW c, DOMAIN c = Fields, NEW k \in Nat
    PROVE  Receives(c, Draining(c)[k])
<1> DEFINE D(i) == Draining(c)[i]
           S == {i \in Nat : Receives(c, D(i))}
<1>1. D(0) = c /\ \A i \in Nat : D(i + 1) = FromChain(D(i))
    BY DrainingDef
<1> HIDE DEF D
<1>2. 0 \in S
    BY <1>1, SMT DEF Receives, SameSender
<1>3. ASSUME NEW i \in Nat, i \in S PROVE i + 1 \in S
    <2>1. DOMAIN D(i) = Fields
        BY <1>3 DEF Receives, SameSender
    <2>2. Receives(D(i), D(i + 1))
        BY <1>1, <2>1, FromChainReceives
    <2> QED BY <1>3, <2>2, ReceivesOn
<1> HIDE DEF S
<1>4. k \in S
    BY <1>2, <1>3, Induction
<1> QED BY <1>4 DEF S, D

LEMMA ChainLength == ASSUME NEW c, Chained(c) PROVE Len(c.chain) \in Nat
BY DEF Chained

(* A set of numbers has a least one. *)
LEMMA LeastNumber ==
    ASSUME NEW S, S \subseteq Nat, S # {}
    PROVE  Min(S) \in S /\ \A x \in S : Min(S) <= x
<1>1. PICK n \in S : \A m \in S : n <= m
    BY Smallest
<1> QED BY <1>1 DEF Min

(* A segment more in the temporary buffer *)
LEMMA InsertIsChain ==
    ASSUME NEW T, NEW chain \in Seq(T), NEW s \in T
    PROVE  Insert(chain, s) \in Seq(T) /\ Len(Insert(chain, s)) = Len(chain) + 1
<1> DEFINE k == Place(chain, s)
           H == Higher(chain, s)
<1>1. Len(chain) \in Nat
    OBVIOUS
<1>2. k \in 1 .. Len(chain) + 1
    <2>1. H \subseteq 1 .. Len(chain) /\ H \subseteq Nat
        BY <1>1 DEF Higher
    <2> HIDE DEF H
    <2>2. H # {} => Min(H) \in 1 .. Len(chain)
        BY <2>1, LeastNumber
    <2>3. k = IF H = {} THEN Len(chain) + 1 ELSE Min(H)
        BY DEF Place, H
    <2> QED BY <2>2, <2>3, <1>1
<1> HIDE DEF k
<1>3. SubSeq(chain, 1, k - 1) \in Seq(T) /\ Len(SubSeq(chain, 1, k - 1)) = k - 1
    BY <1>1, <1>2
<1>4. SubSeq(chain, k, Len(chain)) \in Seq(T) /\ Len(SubSeq(chain, k, Len(chain))) = Len(chain) + 1 - k
    <2>1. CASE k = Len(chain) + 1
        BY <1>1, <2>1
    <2>2. CASE k # Len(chain) + 1
        BY <1>1, <1>2, <2>2
    <2> QED BY <2>1, <2>2
<1>5. Insert(chain, s) = SubSeq(chain, 1, k - 1) \o <<s>> \o SubSeq(chain, k, Len(chain))
    BY DEF Insert, InsertAt, k
<1>6. <<s>> \in Seq(T) /\ Len(<<s>>) = 1
    OBVIOUS
<1> DEFINE x == SubSeq(chain, 1, k - 1)
           y == SubSeq(chain, k, Len(chain))
<1> HIDE DEF x, y
<1>7. x \in Seq(T) /\ y \in Seq(T) /\ Len(x) = k - 1 /\ Len(y) = Len(chain) + 1 - k
    BY <1>3, <1>4 DEF x, y
<1>8. x \o <<s>> \in Seq(T) /\ Len(x \o <<s>>) = k
    BY <1>2, <1>6, <1>7
<1>9. (x \o <<s>>) \o y \in Seq(T) /\ Len((x \o <<s>>) \o y) = Len(chain) + 1
    <2> DEFINE z == x \o <<s>>
    <2> HIDE DEF z
    <2>1. z \in Seq(T) /\ Len(z) = k
        BY <1>8 DEF z
    <2>2. z \o y \in Seq(T) /\ Len(z \o y) = Len(chain) + 1
        BY <2>1, <1>1, <1>2, <1>7
    <2> QED BY <2>2 DEF z
<1> QED BY <1>5, <1>9 DEF x, y

(* So a segment that is kept is a step of receiving, *)
LEMMA KeptReceives ==
    ASSUME NEW c, NEW s, DOMAIN c = Fields, Chained(c)
    PROVE  Receives(c, Kept(c, s))
<1> DEFINE d == [c EXCEPT !.chain = Insert(@, s), !.count = @ + total_length(s)]
<1>1. Chained(d)
    <2>1. PICK T : c.chain \in Seq(T)
        BY DEF Chained
    <2>2. c.chain \in Seq(T \cup {s}) /\ s \in T \cup {s}
        BY <2>1
    <2>3. Insert(c.chain, s) \in Seq(T \cup {s})
        BY <2>2, InsertIsChain
    <2>4. d.chain = Insert(c.chain, s)
        BY SMT DEF Fields
    <2> QED BY <2>3, <2>4 DEF Chained
<1>2. Receives(c, d)
    BY <1>1, SMT DEF Fields, Receives, SameSender, Connected
<1>3. DOMAIN d = Fields
    BY <1>2 DEF Receives, SameSender
<1> HIDE DEF d
<1>4. Receives(d, Owes(d, "IMMEDIATELY"))
    BY <1>3, OwesReceives
<1>5. Receives(c, Owes(d, "IMMEDIATELY"))
    BY <1>2, <1>4, ReceivesOn
<1> QED BY <1>5 DEF d, Kept

(* addinpbuf is one, *)
LEMMA AddinpbufReceives ==
    ASSUME NEW c, NEW s, DOMAIN c = Fields, Chained(c)
    PROVE  Receives(c, addinpbuf(c, s))
<1> DEFINE o == Owes(c, "DELAY")
           k == Kept(c, s)
           inorder == s.seq = c.sndack
<1>1. addinpbuf(c, s) =
          IF s.data = <<>> /\ "FIN" \notin s.flags THEN c
          ELSE IF inorder /\ c.count = 0 THEN Take(IF s.data # <<>> THEN o ELSE c, s, 0)
          ELSE IF inorder THEN Drained(k)
          ELSE IF Fits(c, s) THEN k ELSE c
    BY DEF addinpbuf
<1>2. Receives(c, c)
    BY SMT DEF Receives, SameSender
<1>3. Receives(c, o) /\ Receives(c, k)
    BY OwesReceives, KeptReceives
<1>4. DOMAIN o = Fields /\ DOMAIN k = Fields /\ Chained(k)
    BY <1>3 DEF Receives, SameSender
<1> HIDE DEF o, k, inorder
<1>5. Receives(c, Take(c, s, 0)) /\ Receives(c, Take(o, s, 0))
    <2>1. Receives(o, Take(o, s, 0)) /\ Receives(c, Take(c, s, 0))
        BY <1>4, TakeReceives
    <2> QED BY <2>1, <1>3, ReceivesOn
<1>6. Receives(c, Drained(k))
    <2>1. Len(k.chain) \in Nat
        BY <1>4, ChainLength
    <2>2. Receives(k, Drained(k))
        BY <2>1, <1>4, DrainingReceives DEF Drained
    <2> QED BY <2>2, <1>3, ReceivesOn
<1> QED BY <1>1, <1>2, <1>3, <1>5, <1>6, Zenon

(* and so is all that a segment brings. *)
LEMMA ReceivedReceives ==
    ASSUME NEW c, NEW s, DOMAIN c = Fields, Chained(c)
    PROVE  Receives(c, Received(c, s))
<1>1. Received(c, s) = IF "FIN_RCVD" \notin c.flags THEN addinpbuf(c, s)
                       ELSE IF s.data # <<>> THEN Owes(c, "IMMEDIATELY") ELSE c
    BY DEF Received
<1>2. Receives(c, c)
    BY SMT DEF Receives, SameSender
<1>3. Receives(c, addinpbuf(c, s)) /\ Receives(c, Owes(c, "IMMEDIATELY"))
    BY AddinpbufReceives, OwesReceives
<1> QED BY <1>1, <1>2, <1>3, Zenon
-----------------------------------------------------------------------------
(* Acknowledgments *)

(* An acknowledgment sends nothing of the buffer. *)
LEMMA SendackSends ==
    ASSUME NEW c, Sender(c)
    PROVE  LET d == sendack(c)
           IN  /\ Sends(c, d) /\ Flight(d) = Flight(c)
               /\ d.flags = c.flags /\ d.owes = c.owes /\ d.timers = c.timers \ {"delayed_ack"}
<1> DEFINE d == sendack(c)
           Goal == /\ Sends(c, d) /\ Flight(d) = Flight(c)
                   /\ d.flags = c.flags /\ d.owes = c.owes /\ d.timers = c.timers \ {"delayed_ack"}
<1>1. DOMAIN c = Fields /\ c.sndseq \in Seqs /\ c.maxrcvack \in Seqs /\ c.rcvack \in Seqs
    BY DEF Sender
<1>2. Wrap(c.sndseq + 0) = c.sndseq
    BY <1>1, WrapsOnce, Small, SMT DEF Seqs
<1>3. /\ DOMAIN d = Fields /\ SameReceiver(c, d)
      /\ d.state = c.state /\ d.rcvack = c.rcvack /\ d.sndbuf = c.sndbuf /\ d.sndwnd = c.sndwnd
      /\ d.cwnd = c.cwnd /\ d.ssthresh = c.ssthresh /\ d.flags = c.flags /\ d.owes = c.owes
      /\ d.timers = c.timers \ {"delayed_ack"}
      /\ d.sndseq = Wrap(c.sndseq + 0) /\ d.maxrcvack = Farthest(c, d.sndseq)
      /\ \A s \in d.sent : s \in c.sent \/ (s.seq = c.sndseq /\ s.data = <<>>)
    BY <1>1, SendsegEffect, SMT DEF sendack, SameReceiver
<1> HIDE DEF d
<1>4. d.sndseq = c.sndseq /\ Flight(d) = Flight(c)
    BY <1>2, <1>3 DEF Flight
<1>5. Flight(c) \in Nat /\ Reach(c) \in Nat /\ Flight(c) <= Len(c.sndbuf) /\ Reach(c) <= Len(c.sndbuf)
      /\ Len(c.sndbuf) \in Nat /\ Len(c.sndbuf) <= SndMax
    BY SizesAreNumbers, SMT DEF Sender
<1>6. d.maxrcvack \in Seqs /\ Reach(d) <= Len(c.sndbuf) /\ Reach(c) <= Reach(d)
    <2>1. Above(c.sndseq, c.maxrcvack) <=> Reach(c) < Flight(c)
        BY <1>1, <1>5, Eighth, AboveIsFarther, SMTT(30) DEF Reach, Flight
    <2>2. d.maxrcvack = IF Above(c.sndseq, c.maxrcvack) THEN c.sndseq ELSE c.maxrcvack
        BY <1>3, <1>4 DEF Farthest
    <2>3. Reach(d) = IF Above(c.sndseq, c.maxrcvack) THEN Flight(c) ELSE Reach(c)
        BY <2>2, <1>3, SMT DEF Reach, Flight
    <2> QED BY <2>1, <2>2, <2>3, <1>1, <1>5, SMT
<1>7. Sender(d)
    BY <1>1, <1>3, <1>4, <1>5, <1>6, SMT DEF Sender
<1>8. ASSUME NEW s \in d.sent, s \notin c.sent PROVE Piece(s, d)
    <2>1. s.seq \in Seqs /\ s.data = <<>>
        BY <1>1, <1>3, <1>8
    <2>2. <<>> \in Seq(Nat)
        OBVIOUS
    <2> QED BY <2>1, <2>2, Zenon DEF Piece
<1>9. Goal
    BY <1>3, <1>4, <1>6, <1>7, <1>8, SMT DEF Sends
<1> QED BY <1>9 DEF d

(* The first segment again, and all that was under way still is. *)
LEMMA FastRetransmitSends ==
    ASSUME NEW c, Sender(c)
    PROVE  LET d == FastRetransmit(c)
           IN  /\ Sender(d) /\ SameReceiver(c, d)
               /\ d.state = c.state /\ d.rcvack = c.rcvack /\ d.sndbuf = c.sndbuf /\ d.sndwnd = c.sndwnd
               /\ Reach(c) <= Reach(d) /\ Flight(d) = Flight(c) /\ SameTimers(c, d) /\ d.flags = c.flags
               /\ \A s \in d.sent : s \in c.sent \/ Piece(s, d)
<1> DEFINE c0 == [c EXCEPT !.sndseq = c.rcvack]
           c1 == senddataseg(c0, SndMss)
           d  == FastRetransmit(c)
           Goal == /\ Sender(d) /\ SameReceiver(c, d)
                   /\ d.state = c.state /\ d.rcvack = c.rcvack /\ d.sndbuf = c.sndbuf /\ d.sndwnd = c.sndwnd
                   /\ Reach(c) <= Reach(d) /\ Flight(d) = Flight(c) /\ SameTimers(c, d) /\ d.flags = c.flags
                   /\ \A s \in d.sent : s \in c.sent \/ Piece(s, d)
<1>1. DOMAIN c = Fields /\ c.sndseq \in Seqs /\ c.rcvack \in Seqs /\ c.cwnd \in Nat /\ c.sndwnd \in Nat
      /\ SndMss \in Nat /\ SndMss > 0
    BY Small DEF Sender
<1>2. Flight(c) \in Nat /\ Reach(c) \in Nat /\ Flight(c) <= Len(c.sndbuf) /\ Reach(c) <= Len(c.sndbuf)
      /\ Len(c.sndbuf) \in Nat
    BY SizesAreNumbers, SMT DEF Sender
<1>3. /\ DOMAIN c0 = Fields /\ SameReceiver(c, c0) /\ c0.sndseq = c.rcvack /\ c0.maxrcvack = c.maxrcvack
      /\ c0.state = c.state /\ c0.rcvack = c.rcvack /\ c0.sndbuf = c.sndbuf /\ c0.sndwnd = c.sndwnd
      /\ c0.cwnd = c.cwnd /\ c0.ssthresh = c.ssthresh /\ c0.timers = c.timers /\ c0.flags = c.flags
      /\ c0.sent = c.sent /\ c0.owes = c.owes
    BY <1>1, SMT DEF Fields, SameReceiver
<1>4. Sender(c0) /\ Reach(c0) = Reach(c)
    <2>1. Flight(c0) = 0 /\ Reach(c0) = Reach(c)
        BY <1>1, <1>3, SMT DEF Flight, Reach, getsize, Seqs
    <2> HIDE DEF c0
    <2> QED BY <2>1, <1>1, <1>2, <1>3, SMT DEF Sender
<1> HIDE DEF c0
<1>5. Sends(c0, c1) /\ SameTimers(c0, c1) /\ c1.flags = c0.flags /\ c1.owes = c0.owes
    BY <1>1, <1>4, DatasegSends
<1> DEFINE h == Halved(c)
<1>6. h \in Nat /\ h >= SndMss
    BY <1>1, SMT DEF Halved, Most, Least
<1>7. d = [[c1 EXCEPT !.sndseq = c.sndseq, !.ssthresh = h, !.cwnd = h]
              EXCEPT !.owes = @ \cup {"NO_SENDING"}]
    BY DEF FastRetransmit, Owes, c0
<1> HIDE DEF c1, h, d
<1>8. DOMAIN c1 = Fields /\ Sender(c1)
    BY <1>5 DEF Sends, Sender
<1>9. /\ DOMAIN d = Fields /\ SameReceiver(c1, d) /\ d.sndseq = c.sndseq /\ d.maxrcvack = c1.maxrcvack
      /\ d.state = c1.state /\ d.rcvack = c1.rcvack /\ d.sndbuf = c1.sndbuf /\ d.sndwnd = c1.sndwnd
      /\ d.cwnd = h /\ d.ssthresh = h /\ d.timers = c1.timers /\ d.flags = c1.flags /\ d.sent = c1.sent
    BY <1>7, <1>8, SMT DEF Fields, SameReceiver
<1>10. c1.rcvack = c.rcvack /\ c1.sndbuf = c.sndbuf /\ c1.sndwnd = c.sndwnd /\ c1.state = c.state
       /\ Reach(c) <= Reach(c1) /\ SameReceiver(c, c1)
    BY <1>3, <1>4, <1>5, SMT DEF Sends, SameReceiver
<1>11. Flight(d) = Flight(c) /\ Reach(d) = Reach(c1)
    BY <1>9, <1>10 DEF Flight, Reach
<1>12. Sender(d)
    BY <1>1, <1>2, <1>6, <1>8, <1>9, <1>10, <1>11, SMT DEF Sender
<1>13. ASSUME NEW s \in d.sent, s \notin c.sent PROVE Piece(s, d)
    <2>1. Piece(s, c1)
        BY <1>3, <1>5, <1>9, <1>13 DEF Sends
    <2> QED BY <2>1, <1>9, <1>11, SMT DEF Piece
<1>14. SameTimers(c, d) /\ SameReceiver(c, d)
    BY <1>3, <1>5, <1>9, <1>10, SMT DEF SameTimers, SameReceiver
<1>15. Goal
    BY <1>3, <1>5, <1>9, <1>10, <1>11, <1>12, <1>13, <1>14
<1> QED BY <1>15 DEF d

(* ack acknowledges n bytes more: they leave the buffer. *)
Acks(c, d, ack) ==
    /\ Sender(d) /\ SameReceiver(c, d) /\ d.state = c.state /\ d.sndwnd = c.sndwnd
    /\ SameTimers(c, d) /\ d.flags = c.flags
    /\ d.rcvack = ack /\ d.sndbuf = Drop(c.sndbuf, getsize(c.rcvack, ack))
    /\ Reach(c) <= getsize(c.rcvack, ack) + Reach(d)
    /\ \A s \in d.sent : s \in c.sent \/ Piece(s, d)

LEMMA DropNothing == ASSUME NEW T, NEW s \in Seq(T) PROVE Drop(s, 0) = s
<1>1. Len(s) \in Nat
    OBVIOUS
<1> QED BY <1>1, SMT DEF Drop

(* What is left of a sequence *)
LEMMA DropSome ==
    ASSUME NEW T, NEW s \in Seq(T), NEW n \in Nat, n <= Len(s)
    PROVE  /\ Drop(s, n) \in Seq(T) /\ Len(Drop(s, n)) = Len(s) - n
           /\ \A i \in 1 .. Len(s) - n : Drop(s, n)[i] = s[n + i]
<1> DEFINE m == Len(s) - n
<1>1. m \in Nat /\ n + m = Len(s)
    OBVIOUS
<1> HIDE DEF m
<1>2. Drop(s, n) = SubSeq(s, n + 1, n + m)
    BY <1>1 DEF Drop
<1>3. /\ SubSeq(s, n + 1, n + m) \in Seq(T) /\ Len(SubSeq(s, n + 1, n + m)) = m
      /\ \A i \in 1 .. m : SubSeq(s, n + 1, n + m)[i] = s[n + i]
    BY <1>1, Cut
<1> QED BY <1>2, <1>3 DEF m

(* The number that was acknowledged last acknowledges nothing. *)
LEMMA SameAcks ==
    ASSUME NEW c, Sender(c)
    PROVE  getsize(c.rcvack, c.rcvack) = 0 /\ Drop(c.sndbuf, getsize(c.rcvack, c.rcvack)) = c.sndbuf
<1>1. getsize(c.rcvack, c.rcvack) = 0
    BY Small, SMTT(30) DEF Sender, getsize, Seqs
<1>2. c.sndbuf \in Seq(Nat)
    BY DEF Sender
<1> QED BY <1>1, <1>2, DropNothing

(* A repeated acknowledgment leaves the buffer as it is, *)
LEMMA RepeatedAcks ==
    ASSUME NEW c, Sender(c)
    PROVE  Acks(c, Repeated(c), c.rcvack)
<1> DEFINE c4 == [c EXCEPT !.repeats = 4]
           cn == [c EXCEPT !.repeats = Least(@ + 1, 4)]
           f  == FastRetransmit(c4)
<1>1. Repeated(c) = IF c.sndseq = c.rcvack \/ c.sndbuf = <<>> THEN c ELSE IF c.repeats = 2 THEN f ELSE cn
    BY DEF Repeated
<1>2. DOMAIN c = Fields /\ Reach(c) \in Nat
    BY SizesAreNumbers, SMT DEF Sender
<1>3. /\ SameSender(c, c4) /\ SameReceiver(c, c4) /\ c4.state = c.state /\ c4.timers = c.timers
      /\ c4.flags = c.flags /\ c4.sent = c.sent
    BY <1>2, SMT DEF Fields, SameSender, SameReceiver
<1>4. /\ SameSender(c, cn) /\ SameReceiver(c, cn) /\ cn.state = c.state /\ cn.timers = c.timers
      /\ cn.flags = c.flags /\ cn.sent = c.sent
    BY <1>2, SMT DEF Fields, SameSender, SameReceiver
<1> HIDE DEF c4, cn
<1>5. Sender(c4) /\ Sender(cn) /\ Reach(c4) = Reach(c) /\ Reach(cn) = Reach(c)
    BY <1>3, <1>4, SameIsSender
<1>6. /\ Sender(f) /\ SameReceiver(c4, f)
      /\ f.state = c4.state /\ f.rcvack = c4.rcvack /\ f.sndbuf = c4.sndbuf /\ f.sndwnd = c4.sndwnd
      /\ Reach(c4) <= Reach(f) /\ SameTimers(c4, f) /\ f.flags = c4.flags
      /\ \A s \in f.sent : s \in c4.sent \/ Piece(s, f)
    BY <1>5, FastRetransmitSends
<1> HIDE DEF f
<1>7. Reach(f) \in Nat /\ Reach(cn) \in Nat
    BY <1>5, <1>6, SizesAreNumbers, SMT
<1>8. Acks(c, c, c.rcvack)
    BY SameAcks, <1>2, SMT DEF Acks, SameTimers, SameReceiver
<1>9. Acks(c, cn, c.rcvack)
    BY SameAcks, <1>2, <1>4, <1>5, SMT DEF Acks, SameTimers, SameSender
<1>10. Acks(c, f, c.rcvack)
    BY SameAcks, <1>2, <1>3, <1>5, <1>6, <1>7, SMT DEF Acks, SameTimers, SameSender, SameReceiver
<1> QED BY <1>1, <1>8, <1>9, <1>10

(* The congestion window is never less than a segment. *)
LEMMA OpenedKeeps ==
    ASSUME NEW c, Sender(c), NEW size \in Nat
    PROVE  LET d == Opened(c, size)
           IN  /\ DOMAIN d = Fields /\ SameReceiver(c, d) /\ d.state = c.state /\ d.sndseq = c.sndseq
               /\ d.rcvack = c.rcvack /\ d.maxrcvack = c.maxrcvack /\ d.sndbuf = c.sndbuf /\ d.sndwnd = c.sndwnd
               /\ d.ssthresh = c.ssthresh /\ d.timers = c.timers /\ d.flags = c.flags /\ d.sent = c.sent
               /\ d.cwnd \in Nat /\ d.cwnd >= SndMss
<1> DEFINE over == c.cwnd + size - c.ssthresh
           c1 == IF c.cwnd > c.ssthresh THEN [c EXCEPT !.pcount = @ + size]
                 ELSE IF over > 0 THEN [c EXCEPT !.pcount = @ + over, !.cwnd = c.ssthresh]
                 ELSE [c EXCEPT !.cwnd = @ + size]
           c2 == [c1 EXCEPT !.pcount = @ - c1.cwnd, !.cwnd = @ + SndMss]
           Kept1(d) ==
               /\ DOMAIN d = Fields /\ SameReceiver(c, d) /\ d.state = c.state /\ d.sndseq = c.sndseq
               /\ d.rcvack = c.rcvack /\ d.maxrcvack = c.maxrcvack /\ d.sndbuf = c.sndbuf /\ d.sndwnd = c.sndwnd
               /\ d.ssthresh = c.ssthresh /\ d.timers = c.timers /\ d.flags = c.flags /\ d.sent = c.sent
               /\ d.cwnd \in Nat /\ d.cwnd >= SndMss
<1>1. DOMAIN c = Fields /\ c.cwnd \in Nat /\ c.cwnd >= SndMss /\ c.ssthresh \in Nat /\ SndMss \in Nat
    BY Small DEF Sender
<1>2. Kept1(c1)
    <2>1. CASE c.cwnd > c.ssthresh
        <3>1. c1 = [c EXCEPT !.pcount = @ + size]
            BY <2>1
        <3> HIDE DEF c1
        <3> QED BY <3>1, <1>1, SMT DEF Fields, SameReceiver
    <2>2. CASE ~(c.cwnd > c.ssthresh) /\ over > 0
        <3>1. c1 = [c EXCEPT !.pcount = @ + over, !.cwnd = c.ssthresh]
            BY <2>2
        <3> HIDE DEF c1, over
        <3> QED BY <3>1, <2>2, <1>1, SMT DEF Fields, SameReceiver
    <2>3. CASE ~(c.cwnd > c.ssthresh) /\ ~(over > 0)
        <3>1. c1 = [c EXCEPT !.cwnd = @ + size]
            BY <2>3
        <3> HIDE DEF c1, over
        <3> QED BY <3>1, <1>1, SMT DEF Fields, SameReceiver
    <2> QED BY <2>1, <2>2, <2>3
<1>3. Opened(c, size) = IF c1.pcount >= c1.cwnd THEN c2 ELSE c1
    BY DEF Opened
<1> HIDE DEF c1
<1>4. Kept1(c2)
    BY <1>1, <1>2, SMT DEF Fields, SameReceiver
<1> HIDE DEF c2
<1> QED BY <1>2, <1>3, <1>4

(* a new one takes from its front what it acknowledges. *)
LEMMA AcknowledgedAcks ==
    ASSUME NEW c, Sender(c), NEW ack \in Seqs, getsize(c.rcvack, ack) <= Reach(c)
    PROVE  Acks(c, Acknowledged(c, ack), ack)
<1> DEFINE n == getsize(c.rcvack, ack)
           o == Opened(c, n)
           next == IF Above(ack, c.sndseq) THEN ack ELSE c.sndseq
           d == Acknowledged(c, ack)
<1>1. /\ Flight(c) \in Nat /\ Reach(c) \in Nat /\ Flight(c) <= Len(c.sndbuf) /\ Reach(c) <= Len(c.sndbuf)
      /\ Len(c.sndbuf) \in Nat /\ Len(c.sndbuf) <= SndMax
    BY SizesAreNumbers, SMT DEF Sender
<1>2. c.rcvack \in Seqs /\ c.sndseq \in Seqs /\ c.maxrcvack \in Seqs /\ c.sndbuf \in Seq(Nat)
    BY DEF Sender
<1>3. n \in Nat /\ n <= Reach(c)
    <2>1. n \in Seqs
        BY <1>2, SizeIsDistance
    <2> QED BY <2>1, Small, SMT DEF Seqs
<1>4. Least(n, Len(c.sndbuf)) = n
    BY <1>1, <1>3, SMT DEF Least
<1>5. /\ DOMAIN o = Fields /\ SameReceiver(c, o) /\ o.state = c.state /\ o.sndseq = c.sndseq
      /\ o.rcvack = c.rcvack /\ o.maxrcvack = c.maxrcvack /\ o.sndbuf = c.sndbuf /\ o.sndwnd = c.sndwnd
      /\ o.ssthresh = c.ssthresh /\ o.timers = c.timers /\ o.flags = c.flags /\ o.sent = c.sent
      /\ o.cwnd \in Nat /\ o.cwnd >= SndMss
    BY <1>3, OpenedKeeps
<1>6. d = [o EXCEPT !.sndbuf = Drop(@, n), !.rcvack = ack, !.repeats = 0,
                    !.sndseq = IF Above(ack, @) THEN ack ELSE @]
    BY <1>4 DEF Acknowledged
<1> HIDE DEF d, o
<1>7. /\ DOMAIN d = Fields /\ SameReceiver(c, d) /\ d.state = c.state /\ d.sndseq = next
      /\ d.rcvack = ack /\ d.maxrcvack = c.maxrcvack /\ d.sndbuf = Drop(c.sndbuf, n) /\ d.sndwnd = c.sndwnd
      /\ d.ssthresh = c.ssthresh /\ d.timers = c.timers /\ d.flags = c.flags /\ d.sent = c.sent
      /\ d.cwnd = o.cwnd
    BY <1>5, <1>6, SMT DEF Fields, SameReceiver
<1>8. Reach(d) = Reach(c) - n
    BY <1>2, <1>7, Between DEF Reach
<1>9. next \in Seqs /\ getsize(ack, next) <= Len(c.sndbuf) - n
    <2>1. Above(ack, c.sndseq) <=> Flight(c) < n
        <3>1. n <= SeqSpace \div 8 /\ Flight(c) <= SeqSpace \div 8
            BY <1>1, <1>3, Small
        <3> QED BY <3>1, <1>2, AboveIsFarther DEF Flight
    <2>2. CASE Flight(c) < n
        <3>1. next = ack
            BY <2>1, <2>2
        <3>2. getsize(ack, ack) = 0
            BY Small, SMT DEF getsize, Seqs
        <3> QED BY <3>1, <3>2, <1>1, <1>3
    <2>3. CASE ~(Flight(c) < n)
        <3>1. next = c.sndseq
            BY <2>1, <2>3
        <3>2. getsize(ack, c.sndseq) = Flight(c) - n
            BY <2>3, <1>1, <1>2, <1>3, Between, SMT DEF Flight
        <3> QED BY <3>1, <3>2, <1>1, <1>2, <1>3, SMT
    <2> QED BY <2>2, <2>3
<1> HIDE DEF next, n
<1>10. d.sndbuf \in Seq(Nat) /\ Len(d.sndbuf) = Len(c.sndbuf) - n
    <2>1. n <= Len(c.sndbuf) /\ n \in Nat
        BY <1>1, <1>3
    <2>2. Drop(c.sndbuf, n) \in Seq(Nat) /\ Len(Drop(c.sndbuf, n)) = Len(c.sndbuf) - n
        BY <2>1, <1>2, DropSome
    <2> QED BY <2>2, <1>7
<1>11. Sender(d)
    <2>1. Flight(d) <= Len(d.sndbuf) /\ Reach(d) <= Len(d.sndbuf)
        BY <1>1, <1>3, <1>7, <1>8, <1>9, <1>10, SMT DEF Flight
    <2>2. c.ssthresh \in Nat /\ c.sndwnd \in Nat
        BY DEF Sender
    <2>3. Len(d.sndbuf) <= SndMax
        BY <1>1, <1>3, <1>10, Small, SMT
    <2> QED BY <2>1, <2>2, <2>3, <1>2, <1>5, <1>7, <1>9, <1>10, SMT DEF Sender
<1>12. Reach(c) <= n + Reach(d)
    BY <1>1, <1>3, <1>8
<1>13. SameTimers(c, d) /\ \A s \in d.sent : s \in c.sent
    BY <1>7 DEF SameTimers
<1> QED BY <1>7, <1>11, <1>12, <1>13, Zenon DEF Acks, n, d

(* So it is for every acknowledgment that is acceptable. *)
LEMMA AckedAcks ==
    ASSUME NEW c, Sender(c), NEW s, s.ack \in Seqs, hit(c.rcvack, c.maxrcvack, s.ack)
    PROVE  Acks(c, Acked(c, s), s.ack)
<1>1. getsize(c.rcvack, s.ack) <= Reach(c)
    BY HitIsInterval DEF Sender, Reach
<1>2. Acked(c, s) = IF c.rcvack = s.ack THEN Repeated(c) ELSE Acknowledged(c, s.ack)
    BY DEF Acked
<1> QED BY <1>1, <1>2, RepeatedAcks, AcknowledgedAcks
-----------------------------------------------------------------------------
(* A segment that is processed *)

(* More is sent after an acknowledgment, and says so. *)
LEMMA MoreSentFills ==
    ASSUME NEW c, Sender(c)
    PROVE  LET d == MoreSent(c)
           IN  /\ Sends(c, d) /\ Flight(d) <= d.sndwnd /\ SameFlags(c, d)
               /\ Flight(d) = 0 /\ d.sndbuf # <<>> /\ d.sndwnd # 0 =>
                      "persist" \in d.timers /\ "SEND_TIMEOUT" \in d.flags
               /\ "SEND_TIMEOUT" \in d.flags => d.sndwnd # 0
               /\ d.timers \subseteq c.timers \cup {"persist", "retransmission", "delayed_ack"}
<1> DEFINE one == "INSND" \in c.flags
           e == sendanydata(c, one, FALSE)
           d == MoreSent(c)
           more == e.sndseq # Shrunk(c).sndseq
           Goal == /\ Sends(c, d) /\ Flight(d) <= d.sndwnd /\ SameFlags(c, d)
                   /\ Flight(d) = 0 /\ d.sndbuf # <<>> /\ d.sndwnd # 0 =>
                          "persist" \in d.timers /\ "SEND_TIMEOUT" \in d.flags
                   /\ "SEND_TIMEOUT" \in d.flags => d.sndwnd # 0
                   /\ d.timers \subseteq c.timers \cup {"persist", "retransmission", "delayed_ack"}
<1>1. one \in BOOLEAN
    OBVIOUS
<1> HIDE DEF one
<1>2. Fills(c, e, FALSE)
    BY <1>1, SendanydataFills
<1>3. d = IF more THEN Owes(e, "NO_SENDING") ELSE e
    BY Zenon DEF MoreSent, Carrying, one
<1> HIDE DEF e, d, more
<1>4. Sender(e) /\ DOMAIN e = Fields
    BY <1>2 DEF Fills, Sends, Sender
<1> DEFINE o == Owes(e, "NO_SENDING")
<1>5. /\ SameSender(e, o) /\ SameReceiver(e, o) /\ o.state = e.state /\ o.sent = e.sent
      /\ o.timers = e.timers /\ o.flags = e.flags
    BY <1>4, SMT DEF Fields, Owes, SameSender, SameReceiver
<1> HIDE DEF o
<1>6. Sends(e, o) /\ Flight(o) = Flight(e)
    BY <1>4, <1>5, SameSends, SameIsSender
<1>7. Sends(c, o) /\ o.sndwnd = e.sndwnd /\ o.sndbuf = e.sndbuf
    BY <1>2, <1>5, <1>6, SendsOn DEF Fills, SameSender
<1>8. Goal
    BY <1>2, <1>3, <1>5, <1>6, <1>7, SMT DEF Fills, SameFlags, o
<1> QED BY <1>8 DEF d

(* What a step does to the bytes of the send buffer: ack acknowledges the  *)
(* first of them, and what is sent is of the others.                       *)
Passes(c, d, ack) ==
    /\ Sender(d) /\ d.rcvack = ack /\ d.sndbuf = Drop(c.sndbuf, getsize(c.rcvack, ack))
    /\ Reach(c) <= getsize(c.rcvack, ack) + Reach(d)
    /\ \A s \in d.sent : s \in c.sent \/ Piece(s, d)

(* It acknowledges none of them. *)
Goes(c, d) ==
    /\ Sender(d) /\ d.rcvack = c.rcvack /\ d.sndbuf = c.sndbuf /\ d.sndwnd = c.sndwnd
    /\ Reach(c) <= Reach(d)
    /\ \A s \in d.sent : s \in c.sent \/ Piece(s, d)

LEMMA SendsGoes == ASSUME NEW c, NEW d, Sends(c, d) PROVE Goes(c, d)
BY DEF Sends, Goes

(* So it is when the sender is left alone, *)
LEMMA SameGoes ==
    ASSUME NEW c, NEW d, Sender(c), SameSender(c, d), d.sent = c.sent
    PROVE  Goes(c, d) /\ Flight(d) = Flight(c)
<1>1. Sender(d) /\ Reach(d) = Reach(c) /\ Reach(c) \in Int /\ Flight(d) = Flight(c)
    BY SameIsSender, SizesAreNumbers, SMT
<1> QED BY <1>1, SMT DEF SameSender, Goes

(* as it is by receiving. *)
LEMMA ReceivesGoes ==
    ASSUME NEW c, NEW d, Sender(c), Receives(c, d)
    PROVE  Goes(c, d) /\ Flight(d) = Flight(c)
BY SameGoes DEF Receives

(* These steps compose. *)
LEMMA PassesOn ==
    ASSUME NEW c, NEW d, NEW e, NEW ack, Sender(c), ack \in Seqs, Passes(c, d, ack), Goes(d, e)
    PROVE  Passes(c, e, ack)
<1>1. Reach(c) \in Nat /\ Reach(d) \in Nat /\ Reach(e) \in Nat
    BY SizesAreNumbers, Small, SMT DEF Passes, Goes
<1>2. getsize(c.rcvack, ack) \in Nat
    <2>1. getsize(c.rcvack, ack) \in Seqs
        BY SizeIsDistance DEF Sender
    <2> QED BY <2>1, Small, SMT DEF Seqs
<1>3. Reach(c) <= getsize(c.rcvack, ack) + Reach(e)
    BY <1>1, <1>2, SMT DEF Passes, Goes
<1>4. ASSUME NEW s \in e.sent PROVE s \in c.sent \/ Piece(s, e)
    <2>1. s \in d.sent \/ Piece(s, e)
        BY DEF Goes
    <2>2. s \in d.sent => s \in c.sent \/ Piece(s, d)
        BY DEF Passes
    <2>3. ASSUME Piece(s, d) PROVE Piece(s, e)
        <3>1. e.rcvack = d.rcvack /\ e.sndbuf = d.sndbuf /\ Reach(d) <= Reach(e) /\ d.rcvack \in Seqs
            BY DEF Goes, Passes, Sender
        <3>2. getsize(d.rcvack, s.seq) \in Seqs
            BY <2>3, <3>1, SizeIsDistance DEF Piece
        <3>3. getsize(d.rcvack, s.seq) \in Nat
            BY <3>2, Small, SMT DEF Seqs
        <3>4. Len(s.data) \in Nat
            BY <2>3 DEF Piece
        <3> QED BY <2>3, <3>1, <3>3, <3>4, <1>1, SMT DEF Piece
    <2> QED BY <2>1, <2>2, <2>3
<1> QED BY <1>3, <1>4, Zenon DEF Passes, Goes

LEMMA GoesPasses ==
    ASSUME NEW c, NEW d, Sender(c), Goes(c, d)
    PROVE  Passes(c, d, c.rcvack)
<1>1. Reach(c) \in Int /\ Reach(d) \in Int
    BY SizesAreNumbers, SMT DEF Goes
<1> QED BY <1>1, SameAcks, SMT DEF Passes, Goes

LEMMA GoesOn ==
    ASSUME NEW c, NEW d, NEW e, Sender(c), Goes(c, d), Goes(d, e)
    PROVE  Goes(c, e)
<1>1. Passes(c, d, c.rcvack) /\ c.rcvack \in Seqs
    BY GoesPasses DEF Sender
<1>2. Passes(c, e, c.rcvack)
    BY <1>1, PassesOn
<1>3. Reach(c) <= Reach(e)
    <2>1. Reach(c) \in Int /\ Reach(d) \in Int /\ Reach(e) \in Int
        BY SizesAreNumbers, SMT DEF Goes
    <2> QED BY <2>1, SMT DEF Goes
<1>4. e.rcvack = c.rcvack /\ e.sndbuf = c.sndbuf /\ e.sndwnd = c.sndwnd /\ Sender(e)
    BY DEF Goes
<1> QED BY <1>2, <1>3, <1>4, Zenon DEF Passes, Goes

(* A connection: what is under way is in the window and has a timer, what  *)
(* is not has one too, and the window is probed only for data.             *)
Running(c) ==
    /\ Sender(c) /\ Flight(c) <= c.sndwnd
    /\ Flight(c) # 0 => "retransmission" \in c.timers
    /\ c.sndbuf # <<>> => c.timers \cap {"retransmission", "persist"} # {}
    /\ "persist" \in c.timers /\ c.sndwnd = 0 => c.sndbuf # <<>>

(* The timers after a segment *)
LEMMA TimersSet ==
    ASSUME NEW c, Sender(c), Flight(c) <= c.sndwnd,
           Flight(c) = 0 /\ c.sndbuf # <<>> /\ c.sndwnd # 0 => "persist" \in c.timers /\ "SEND_TIMEOUT" \in c.flags,
           "SEND_TIMEOUT" \in c.flags => c.sndwnd # 0
    PROVE  LET d == Retransmitting(Persisting(c))
           IN  Goes(c, d) /\ Running(d) /\ d.state = c.state /\ d.chain = c.chain
<1> DEFINE p == Persisting(c)
           d == Retransmitting(p)
           Same(x, y) == SameSender(x, y) /\ y.sent = x.sent /\ y.state = x.state /\ y.chain = x.chain /\ y.flags = x.flags
<1>1. DOMAIN c = Fields /\ Flight(c) \in Nat /\ c.sndwnd \in Nat
    BY SizesAreNumbers, SMT DEF Sender
<1>2. Same(c, On(c, "persist")) /\ On(c, "persist").timers = c.timers \cup {"persist"}
    BY <1>1, SMT DEF Fields, On, SameSender
<1>3. Same(c, Off(c, "persist")) /\ Off(c, "persist").timers = c.timers \ {"persist"}
    BY <1>1, SMT DEF Fields, Off, SameSender
<1>4. Same(c, c)
    BY <1>1 DEF SameSender
<1>5. p = IF c.sndwnd = 0 /\ c.sndbuf # <<>> THEN On(c, "persist")
          ELSE IF "SEND_TIMEOUT" \in c.flags THEN c ELSE Off(c, "persist")
    BY DEF Persisting
<1>6. Same(c, p)
    <2> HIDE DEF Same, p
    <2> QED BY <1>2, <1>3, <1>4, <1>5
<1>7. /\ Flight(c) = 0 /\ c.sndbuf # <<>> => "persist" \in p.timers
      /\ "persist" \in p.timers /\ c.sndwnd = 0 => c.sndbuf # <<>>
    <2> HIDE DEF p
    <2> QED BY <1>2, <1>3, <1>5
<1> HIDE DEF p
<1>8. Sender(p) /\ Flight(p) = Flight(c) /\ DOMAIN p = Fields /\ p.rcvack \in Seqs /\ p.sndseq \in Seqs
    <2>1. Sender(p) /\ Flight(p) = Flight(c)
        BY <1>6, SameIsSender
    <2> QED BY <2>1 DEF Sender
<1>9. Same(p, On(p, "retransmission")) /\ On(p, "retransmission").timers = p.timers \cup {"retransmission"}
    BY <1>8, SMT DEF Fields, On, SameSender
<1>10. Same(p, Off(p, "retransmission")) /\ Off(p, "retransmission").timers = p.timers \ {"retransmission"}
    BY <1>8, SMT DEF Fields, Off, SameSender
<1>11. d = IF p.rcvack # p.sndseq THEN On(p, "retransmission") ELSE Off(p, "retransmission")
    BY DEF Retransmitting
<1>12. p.rcvack # p.sndseq <=> Flight(p) # 0
    BY <1>8, NoDistance, Zenon DEF Flight
<1> HIDE DEF d
<1>13. /\ Same(p, d)
       /\ Flight(p) # 0 => "retransmission" \in d.timers
       /\ "persist" \in d.timers <=> "persist" \in p.timers
    <2> HIDE DEF Same
    <2>1. CASE p.rcvack # p.sndseq
        BY <2>1, <1>9, <1>11, <1>12
    <2>2. CASE p.rcvack = p.sndseq
        BY <2>2, <1>10, <1>11, <1>12
    <2> QED BY <2>1, <2>2
<1>14. SameSender(c, d) /\ d.sent = c.sent /\ d.state = c.state /\ d.chain = c.chain
    BY <1>6, <1>13, SMT DEF SameSender
<1>15. Goes(c, d) /\ Flight(d) = Flight(c)
    BY <1>14, SameGoes
<1>16. d.sndbuf = c.sndbuf /\ d.sndwnd = c.sndwnd
    BY <1>14 DEF SameSender
<1>17. Running(d)
    <2>1. Sender(d) /\ Flight(d) <= d.sndwnd
        BY <1>15, <1>16 DEF Goes
    <2>2. Flight(d) # 0 => "retransmission" \in d.timers
        BY <1>8, <1>13, <1>15
    <2>3. d.sndbuf # <<>> => d.timers \cap {"retransmission", "persist"} # {}
        BY <2>2, <1>7, <1>13, <1>15, <1>16
    <2> QED BY <2>1, <2>2, <2>3, <1>7, <1>13, <1>16 DEF Running
<1> QED BY <1>14, <1>15, <1>17 DEF d, p

SameSent(c, d) ==
    d.timers \cap {"retransmission", "persist"} = c.timers \cap {"retransmission", "persist"}

(* A step that leaves these timers alone *)
LEMMA RunningOn ==
    ASSUME NEW c, NEW d, Running(c), Goes(c, d), Flight(d) = Flight(c), SameSent(c, d)
    PROVE  Running(d)
<1>1. Sender(d) /\ d.sndbuf = c.sndbuf /\ d.sndwnd = c.sndwnd
    BY DEF Goes
<1>2. /\ "retransmission" \in d.timers <=> "retransmission" \in c.timers
      /\ "persist" \in d.timers <=> "persist" \in c.timers
    BY SMT DEF SameSent
<1> QED BY <1>1, <1>2, SMT DEF Running, SameSent

(* An acknowledgment is such a step, *)
LEMMA SendackRuns ==
    ASSUME NEW c, Running(c)
    PROVE  LET d == sendack(c)
           IN  Goes(c, d) /\ Running(d) /\ d.state = c.state /\ d.chain = c.chain /\ d.flags = c.flags
<1> DEFINE d == sendack(c)
<1>1. Sends(c, d) /\ Flight(d) = Flight(c) /\ d.timers = c.timers \ {"delayed_ack"} /\ d.flags = c.flags
    BY SendackSends DEF Running
<1> HIDE DEF d
<1>2. Goes(c, d) /\ d.state = c.state /\ d.chain = c.chain
    BY <1>1, SendsGoes DEF Sends, SameReceiver
<1>3. SameSent(c, d)
    BY <1>1, SMT DEF SameSent
<1>4. Running(d)
    BY <1>1, <1>2, <1>3, RunningOn
<1> QED BY <1>1, <1>2, <1>4 DEF d

(* and what is sent, or owed, after a segment. *)
LEMMA AnsweredRuns ==
    ASSUME NEW c, Running(c)
    PROVE  LET d == Answered(c)
           IN  Goes(c, d) /\ Running(d) /\ d.state = c.state /\ d.chain = c.chain
<1> DEFINE a == sendack(c)
           o == On(c, "delayed_ack")
           Good(d) == Goes(c, d) /\ Running(d) /\ d.state = c.state /\ d.chain = c.chain
<1>1. Answered(c) = IF c.owes \cap {"NO_SENDING", "FIN_ACK"} # {} THEN c
                    ELSE IF "IMMEDIATELY" \in c.owes THEN a ELSE IF "DELAY" \in c.owes THEN o ELSE c
    BY DEF Answered
<1>2. Good(a)
    BY SendackRuns
<1>3. Sender(c) /\ DOMAIN c = Fields
    BY DEF Running, Sender
<1>4. Good(c)
    <2>1. SameSender(c, c)
        BY <1>3 DEF SameSender
    <2> QED BY <1>3, <2>1, SameGoes
<1>5. Good(o)
    <2>1. SameSender(c, o) /\ o.sent = c.sent /\ o.state = c.state /\ o.chain = c.chain /\ SameSent(c, o)
        BY <1>3, SMT DEF Fields, On, SameSender, SameSent
    <2> HIDE DEF o
    <2>2. Goes(c, o) /\ Flight(o) = Flight(c)
        BY <1>3, <2>1, SameGoes
    <2> QED BY <2>1, <2>2, RunningOn
<1> HIDE DEF Good, a, o
<1> QED BY <1>1, <1>2, <1>4, <1>5 DEF Good

(* A segment with an acceptable acknowledgment *)
LEMMA DataprocessRuns ==
    ASSUME NEW c, Sender(c), Connected(c), Chained(c),
           NEW s, s.ack \in Seqs, hit(c.rcvack, c.maxrcvack, s.ack), NEW push \in BOOLEAN
    PROVE  LET d == dataprocess(c, s, push)
           IN  Passes(c, d, s.ack) /\ Running(d) /\ Connected(d) /\ Chained(d)
<1> DEFINE c0 == Off(On(c, "keepalive"), "abort")
           c1 == Acked(c0, s)
           c2 == Received(c1, s)
           c3 == AckedAtOnce(c2, push)
           c4 == MoreSent(c3)
           c5 == Retransmitting(Persisting(c4))
           c6 == Answered(c5)
<1>1. dataprocess(c, s, push) = c6
    BY DEF dataprocess
<1>2. DOMAIN c = Fields
    BY DEF Sender
<1>3. /\ SameSender(c, c0) /\ c0.sent = c.sent /\ c0.state = c.state /\ c0.chain = c.chain
    BY <1>2, SMT DEF Fields, On, Off, SameSender
<1> HIDE DEF c0
<1>4. Sender(c0) /\ Reach(c0) = Reach(c) /\ hit(c0.rcvack, c0.maxrcvack, s.ack)
    BY <1>3, SameIsSender DEF SameSender
<1>5. Acks(c0, c1, s.ack)
    BY <1>4, AckedAcks
<1> HIDE DEF c1
<1>6. Passes(c, c1, s.ack) /\ c1.state = c.state /\ c1.chain = c.chain /\ DOMAIN c1 = Fields
    <2>1. Passes(c0, c1, s.ack)
        BY <1>5 DEF Acks, Passes
    <2>2. Passes(c, c1, s.ack)
        BY <2>1, <1>3, <1>4, SMT DEF Passes, SameSender
    <2> QED BY <2>2, <1>3, <1>5 DEF Acks, SameReceiver, Sender
<1>7. Sender(c1) /\ Connected(c1) /\ Chained(c1)
    BY <1>6 DEF Passes, Connected, Chained
<1>8. Receives(c1, c2)
    BY <1>6, <1>7, ReceivedReceives
<1> HIDE DEF c2
<1>9. Goes(c1, c2) /\ Sender(c2) /\ Connected(c2) /\ Chained(c2)
    <2>1. Goes(c1, c2)
        BY <1>7, <1>8, ReceivesGoes
    <2> QED BY <2>1, <1>7, <1>8 DEF Receives, Goes
<1>10. Goes(c2, c3) /\ c3.state = c2.state /\ c3.chain = c2.chain
    <2>1. c3 = IF "FIN_ACK" \in c2.owes \/ push THEN sendack(c2) ELSE c2
        BY DEF AckedAtOnce
    <2>2. Sends(c2, sendack(c2)) /\ Sends(c2, c2)
        BY <1>9, SendackSends, SendsNothing
    <2>3. Sends(c2, c3)
        BY <2>1, <2>2
    <2> QED BY <2>3, SendsGoes DEF Sends, SameReceiver
<1> HIDE DEF c3
<1>11. Sender(c3)
    BY <1>10 DEF Goes
<1>12. /\ Sends(c3, c4) /\ Flight(c4) <= c4.sndwnd
       /\ Flight(c4) = 0 /\ c4.sndbuf # <<>> /\ c4.sndwnd # 0 => "persist" \in c4.timers /\ "SEND_TIMEOUT" \in c4.flags
       /\ "SEND_TIMEOUT" \in c4.flags => c4.sndwnd # 0
    BY <1>11, MoreSentFills
<1> HIDE DEF c4
<1>13. Goes(c3, c4) /\ c4.state = c3.state /\ c4.chain = c3.chain /\ Sender(c4)
    BY <1>12, SendsGoes DEF Sends, SameReceiver
<1>14. Goes(c4, c5) /\ Running(c5) /\ c5.state = c4.state /\ c5.chain = c4.chain
    BY <1>12, <1>13, TimersSet
<1> HIDE DEF c5
<1>15. Goes(c5, c6) /\ Running(c6) /\ c6.state = c5.state /\ c6.chain = c5.chain
    BY <1>14, AnsweredRuns
<1> HIDE DEF c6
<1>16. Passes(c, c6, s.ack)
    BY <1>6, <1>9, <1>10, <1>13, <1>14, <1>15, PassesOn
<1>17. Connected(c6) /\ Chained(c6)
    BY <1>9, <1>10, <1>13, <1>14, <1>15 DEF Connected, Chained
<1> QED BY <1>1, <1>15, <1>16, <1>17

(* A connection that was given up: what it sends carries nothing. *)
Closed(c, d) ==
    /\ DOMAIN d = Fields /\ d.state = "CLOSED"
    /\ \A s \in d.sent : s \in c.sent \/ (s.seq \in Seqs /\ s.data = <<>>)

(* closesk() and abortsk() give a connection up. *)
LEMMA CloseskCloses ==
    ASSUME NEW c, DOMAIN c = Fields
    PROVE  Closed(c, closesk(c)) /\ \A seq \in Seqs : Closed(c, closesk(sendrst(c, seq)))
<1>1. ASSUME NEW x, DOMAIN x = Fields
      PROVE  DOMAIN closesk(x) = Fields /\ closesk(x).state = "CLOSED" /\ closesk(x).sent = x.sent
    <2>1. DOMAIN Fresh = Fields
        BY SMT DEF Fresh, Fields
    <2>2. closesk(x) = [Fresh EXCEPT !.state = "CLOSED", !.rcvbuf = x.rcvbuf, !.sent = x.sent]
        BY DEF closesk
    <2> QED BY <2>1, <2>2, SMT DEF Fields
<1>2. ASSUME NEW seq \in Seqs
      PROVE  /\ DOMAIN sendrst(c, seq) = Fields
             /\ \A s \in sendrst(c, seq).sent : s \in c.sent \/ (s.seq \in Seqs /\ s.data = <<>>)
    BY SMT DEF sendrst, Fields
<1>3. Closed(c, closesk(c))
    BY <1>1 DEF Closed
<1>4. ASSUME NEW seq \in Seqs PROVE Closed(c, closesk(sendrst(c, seq)))
    BY <1>1, <1>2 DEF Closed
<1> QED BY <1>3, <1>4

(* A segment to the board *)
SegmentFields == {"seq", "ack", "wnd", "data", "flags"}
Sane(s) == DOMAIN s = SegmentFields /\ s.ack \in Seqs /\ s.wnd \in Nat

(* What becomes of a connection, if a is acknowledged or nothing is *)
Outcome(c, d, a) ==
    \/ Closed(c, d)
    \/ /\ Running(d) /\ Connected(d) /\ Chained(d)
       /\ \E ack \in {a, c.rcvack} :
              ack \in Seqs /\ getsize(c.rcvack, ack) <= Reach(c) /\ Passes(c, d, ack)

LEMMA GoesOutcome ==
    ASSUME NEW c, NEW d, Sender(c), Goes(c, d), Running(d), Connected(d), Chained(d), NEW a
    PROVE  Outcome(c, d, a)
<1>1. Passes(c, d, c.rcvack) /\ c.rcvack \in Seqs
    BY GoesPasses DEF Sender
<1>2. getsize(c.rcvack, c.rcvack) <= Reach(c)
    BY SameAcks, SizesAreNumbers, SMT
<1> QED BY <1>1, <1>2 DEF Outcome

(* The outcome of a segment that is answered, or dropped *)
LEMMA SendackOutcome ==
    ASSUME NEW c, Running(c), Connected(c), Chained(c), NEW a
    PROVE  Outcome(c, sendack(c), a) /\ Outcome(c, c, a)
<1>1. Outcome(c, sendack(c), a)
    <2> DEFINE d == sendack(c)
    <2>1. Goes(c, d) /\ Running(d) /\ d.state = c.state /\ d.chain = c.chain
        BY SendackRuns
    <2> HIDE DEF d
    <2>2. Connected(d) /\ Chained(d)
        BY <2>1 DEF Connected, Chained
    <2>3. Outcome(c, d, a)
        BY <2>1, <2>2, GoesOutcome DEF Running
    <2> QED BY <2>3 DEF d
<1>2. Goes(c, c)
    BY SendsNothing, SendsGoes DEF Running
<1> QED BY <1>1, <1>2, GoesOutcome DEF Running

(* of one whose sequence number was checked *)
LEMMA CheckedOutcome ==
    ASSUME NEW c, Running(c), Connected(c), Chained(c), NEW s, Sane(s), NEW push \in BOOLEAN
    PROVE  Outcome(c, Checked(c, s, push), s.ack)
<1> DEFINE w == SetWindow(c, s)
           p == dataprocess(w, s, push)
<1>1. Checked(c, s, push) =
          IF "RST" \in s.flags THEN IF "ACK" \in s.flags THEN c ELSE closesk(c)
          ELSE IF "SYN" \in s.flags THEN closesk(sendrst(c, s.ack))
          ELSE IF "ACK" \notin s.flags THEN c
          ELSE IF hit(c.rcvack, c.maxrcvack, s.ack) THEN p
          ELSE IF Above(s.ack, c.maxrcvack) THEN sendack(c) ELSE c
    BY DEF Checked
<1>2. Sender(c) /\ DOMAIN c = Fields /\ s.ack \in Seqs /\ s.wnd \in Nat
    BY DEF Running, Sender, Sane
<1>3. Outcome(c, closesk(c), s.ack) /\ Outcome(c, closesk(sendrst(c, s.ack)), s.ack)
    BY <1>2, CloseskCloses DEF Outcome
<1>4. Outcome(c, sendack(c), s.ack) /\ Outcome(c, c, s.ack)
    BY SendackOutcome
<1>5. ASSUME hit(c.rcvack, c.maxrcvack, s.ack) PROVE Outcome(c, p, s.ack)
    <2>1. /\ DOMAIN w = Fields /\ w.state = c.state /\ w.sndseq = c.sndseq /\ w.rcvack = c.rcvack
          /\ w.maxrcvack = c.maxrcvack /\ w.sndbuf = c.sndbuf /\ w.sndwnd = s.wnd /\ w.cwnd = c.cwnd
          /\ w.ssthresh = c.ssthresh /\ w.chain = c.chain /\ w.sent = c.sent
        BY <1>2, SMT DEF Fields, SetWindow
    <2> HIDE DEF w
    <2>2. Sender(w) /\ Reach(w) = Reach(c)
        BY <1>2, <2>1, SMT DEF Sender, Flight, Reach
    <2>3. Connected(w) /\ Chained(w) /\ hit(w.rcvack, w.maxrcvack, s.ack)
        BY <1>5, <2>1 DEF Connected, Chained
    <2>4. Passes(w, p, s.ack) /\ Running(p) /\ Connected(p) /\ Chained(p)
        BY <1>2, <2>2, <2>3, DataprocessRuns
    <2> HIDE DEF p
    <2>5. Passes(c, p, s.ack)
        BY <2>1, <2>2, <2>4, SMT DEF Passes
    <2>6. getsize(c.rcvack, s.ack) <= Reach(c)
        BY <1>2, <1>5, HitIsInterval DEF Sender, Reach
    <2> QED BY <1>2, <2>4, <2>5, <2>6 DEF Outcome
<1> HIDE DEF p
<1> QED BY <1>1, <1>3, <1>4, <1>5

(* Owing an acknowledgment changes nothing else. *)
LEMMA OwesOutcome ==
    ASSUME NEW c, Running(c), Connected(c), Chained(c), NEW how
    PROVE  LET d == Owes(c, how)
           IN  /\ Running(d) /\ Connected(d) /\ Chained(d)
               /\ \A e, a : Outcome(d, e, a) => Outcome(c, e, a)
<1> DEFINE d == Owes(c, how)
<1>1. Sender(c) /\ DOMAIN c = Fields
    BY DEF Running, Sender
<1>2. Receives(c, d) /\ d.state = c.state
    <2>1. Receives(c, d)
        BY <1>1, OwesReceives
    <2>2. d.state = c.state
        BY <1>1, SMT DEF Fields, Owes
    <2> QED BY <2>1, <2>2
<1> HIDE DEF d
<1>3. Goes(c, d) /\ Flight(d) = Flight(c) /\ Sender(d) /\ Reach(d) = Reach(c)
    BY <1>1, <1>2, ReceivesGoes, SameIsSender DEF Receives
<1>4. SameSent(c, d)
    BY <1>2 DEF Receives, SameSent
<1>5. Running(d) /\ Connected(d) /\ Chained(d)
    BY <1>2, <1>3, <1>4, RunningOn DEF Receives
<1>6. ASSUME NEW e, NEW a, Outcome(d, e, a) PROVE Outcome(c, e, a)
    <2>1. d.rcvack = c.rcvack /\ d.sndbuf = c.sndbuf /\ d.sent = c.sent
        BY <1>2 DEF Receives, SameSender
    <2>2. CASE Closed(d, e)
        BY <2>1, <2>2, Zenon DEF Closed, Outcome
    <2>3. ASSUME NEW ack, getsize(d.rcvack, ack) <= Reach(d), Passes(d, e, ack) PROVE
              getsize(c.rcvack, ack) <= Reach(c) /\ Passes(c, e, ack)
        BY <2>1, <2>3, <1>3, Zenon DEF Passes
    <2> QED BY <1>6, <2>1, <2>2, <2>3, Zenon DEF Outcome
<1> QED BY <1>5, <1>6 DEF d

(* of one in the window, or beyond it *)
LEMMA InWindowOutcome ==
    ASSUME NEW c, Running(c), Connected(c), Chained(c), NEW s, Sane(s), NEW push \in BOOLEAN
    PROVE  Outcome(c, InWindow(c, s, push), s.ack)
<1> DEFINE beyond == Above(End(s), RightEdge(c))
           o == Owes(c, "IMMEDIATELY")
           t == CutRight(c, s)
<1>1. InWindow(c, s, push) = IF Above(s.seq, RightEdge(c)) THEN sendack(c)
                             ELSE Checked(IF beyond THEN o ELSE c, IF beyond THEN t ELSE s, push)
    BY DEF InWindow
<1>2. Sane(t) /\ t.ack = s.ack
    BY SMT DEF Sane, SegmentFields, CutRight
<1>3. Running(o) /\ Connected(o) /\ Chained(o) /\ \A e, a : Outcome(o, e, a) => Outcome(c, e, a)
    BY OwesOutcome
<1> HIDE DEF o, t, beyond
<1>4. Outcome(c, Checked(o, t, push), s.ack) /\ Outcome(c, Checked(c, s, push), s.ack)
    BY <1>2, <1>3, CheckedOutcome
<1> QED BY <1>1, <1>4, SendackOutcome

(* and of any that the server sends *)
LEMMA InputskOutcome ==
    ASSUME NEW c, Running(c), Connected(c), Chained(c), NEW s, Sane(s), NEW push \in BOOLEAN
    PROVE  Outcome(c, inputsk(c, s, push), s.ack)
<1> DEFINE old == Above(c.sndack, s.seq)
           o == Owes(c, "IMMEDIATELY")
           t == CutLeft(c, s)
<1>1. c.state # "SYN_SENT"
    BY DEF Connected
<1>2. inputsk(c, s, push) = IF old /\ ~Above(End(s), c.sndack) THEN sendack(c)
                            ELSE InWindow(IF old THEN o ELSE c, IF old THEN t ELSE s, push)
    BY <1>1 DEF inputsk
<1>3. Sane(t) /\ t.ack = s.ack
    BY SMT DEF Sane, SegmentFields, CutLeft
<1>4. Running(o) /\ Connected(o) /\ Chained(o) /\ \A e, a : Outcome(o, e, a) => Outcome(c, e, a)
    BY OwesOutcome
<1> HIDE DEF o, t, old
<1>5. Outcome(c, InWindow(o, t, push), s.ack) /\ Outcome(c, InWindow(c, s, push), s.ack)
    BY <1>3, <1>4, InWindowOutcome
<1> QED BY <1>2, <1>5, SendackOutcome
-----------------------------------------------------------------------------
(* Both ends.  What is under way stays under way for ever in this model,   *)
(* so that the bytes of a connection have numbers that do not wrap around: *)
(* a byte is known by its distance from the first sequence number.         *)
Rank(x) == getsize(BoardISN, x)

(* Numbers of bytes and sequence numbers *)
LEMMA Ranks ==
    /\ \A n \in 0 .. OutLen + 1 : Wrap(BoardISN + n) \in Seqs /\ Rank(Wrap(BoardISN + n)) = n
    /\ \A x \in Seqs : Rank(x) \in Seqs
<1>1. BoardISN \in Seqs /\ OutLen \in Nat /\ OutLen + 1 < SeqSpace
    BY TcpAssumption DEF Seqs
<1>2. getsize(BoardISN, BoardISN) = 0
    BY <1>1, Small, SMT DEF Seqs, getsize
<1>3. ASSUME NEW n \in 0 .. OutLen + 1 PROVE Wrap(BoardISN + n) \in Seqs /\ Rank(Wrap(BoardISN + n)) = n
    <2>1. n \in Nat /\ getsize(BoardISN, BoardISN) + n < SeqSpace
        BY <1>1, <1>2, Small, SMT
    <2>2. /\ Wrap(BoardISN + n) \in Seqs
          /\ getsize(BoardISN, Wrap(BoardISN + n)) = getsize(BoardISN, BoardISN) + n
        BY <1>1, <2>1, Ahead
    <2> QED BY <2>1, <2>2, <1>2, SMT DEF Rank
<1>4. ASSUME NEW x \in Seqs PROVE Rank(x) \in Seqs
    BY <1>1, SizeIsDistance DEF Rank
<1> QED BY <1>3, <1>4

(* The board, acc bytes of which send() has accepted, and a server that    *)
(* has n of them: the send buffer holds those that were not acknowledged,  *)
(* each at its place, and the server has those and perhaps more.           *)
Side(c, acc, n) ==
    /\ Sender(c)
    /\ Rank(c.rcvack) >= 1 /\ Rank(c.rcvack) <= n + 1 /\ n + 1 <= Rank(c.rcvack) + Reach(c)
    /\ Rank(c.rcvack) + Len(c.sndbuf) = acc + 1
    /\ \A i \in 1 .. Len(c.sndbuf) : c.sndbuf[i] = Rank(c.rcvack) - 1 + i

(* A segment that carries what the server has, or bytes at their places *)
Old(s, n)      == Rank(s.seq) + Len(s.data) <= n + 1
Right(s, acc)  ==
    /\ Rank(s.seq) >= 1 /\ Rank(s.seq) + Len(s.data) <= acc + 1
    /\ \A i \in 1 .. Len(s.data) : s.data[i] = Rank(s.seq) - 1 + i
Carries(s, acc, n) ==
    s.seq \in Seqs /\ s.data \in Seq(Nat) /\ (s.data # <<>> => Old(s, n) \/ Right(s, acc))

(* None of its bytes is beyond the last one that the board has sent. *)
WasSent(s, c) == s.data # <<>> => Rank(s.seq) + Len(s.data) <= Rank(c.rcvack) + Reach(c)

(* The rank of what the send buffer holds *)
LEMMA PlaceOf ==
    ASSUME NEW c, NEW acc \in 0 .. OutLen, NEW n, Side(c, acc, n),
           NEW x \in Seqs, getsize(c.rcvack, x) <= Len(c.sndbuf)
    PROVE  Rank(x) = Rank(c.rcvack) + getsize(c.rcvack, x)
<1>1. c.rcvack \in Seqs /\ Len(c.sndbuf) \in Nat
    BY SizesAreNumbers, SMT DEF Side, Sender
<1>2. Rank(c.rcvack) \in Seqs /\ getsize(c.rcvack, x) \in Seqs
    BY <1>1, Ranks, SizeIsDistance
<1>3. getsize(c.rcvack, x) \in Nat /\ Rank(c.rcvack) + getsize(c.rcvack, x) < SeqSpace
    <2>1. OutLen + 1 < SeqSpace /\ OutLen \in Nat /\ SeqSpace \in Nat
        BY TcpAssumption
    <2>2. Rank(c.rcvack) + Len(c.sndbuf) = acc + 1
        BY DEF Side
    <2> QED BY <1>1, <1>2, <2>1, <2>2, SMT DEF Seqs
<1>4. BoardISN \in Seqs
    BY TcpAssumption DEF Seqs
<1>5. Rank(Wrap(c.rcvack + getsize(c.rcvack, x))) = Rank(c.rcvack) + getsize(c.rcvack, x)
    BY <1>1, <1>3, <1>4, Ahead DEF Rank
<1> QED BY <1>1, <1>5, SizeIsDistance

(* A piece of the buffer carries bytes at their places. *)
LEMMA PieceCarries ==
    ASSUME NEW c, NEW acc \in 0 .. OutLen, NEW n, Side(c, acc, n), NEW s, Piece(s, c)
    PROVE  Carries(s, acc, n) /\ WasSent(s, c)
<1>1. CASE s.data = <<>>
    BY <1>1 DEF Piece, Carries, WasSent
<1>2. CASE s.data # <<>>
    <2>1. c.rcvack \in Seqs /\ Len(c.sndbuf) \in Nat /\ Reach(c) \in Nat /\ Reach(c) <= Len(c.sndbuf)
        BY SizesAreNumbers, SMT DEF Side, Sender
    <2>2. s.seq \in Seqs /\ s.data \in Seq(Nat) /\ Len(s.data) \in Nat
        BY DEF Piece
    <2> DEFINE g == getsize(c.rcvack, s.seq)
    <2>3. g \in Nat
        <3>1. g \in Seqs
            BY <2>1, <2>2, SizeIsDistance
        <3> QED BY <3>1, Small, SMT DEF Seqs
    <2>4. g + Len(s.data) <= Reach(c) /\ \A i \in 1 .. Len(s.data) : s.data[i] = c.sndbuf[g + i]
        BY <1>2 DEF Piece
    <2>5. Rank(s.seq) = Rank(c.rcvack) + g
        <3>1. g <= Len(c.sndbuf)
            BY <2>1, <2>2, <2>3, <2>4, SMT
        <3> QED BY <2>2, <3>1, PlaceOf
    <2> HIDE DEF g
    <2>6. Rank(c.rcvack) \in Nat
        <3>1. Rank(c.rcvack) \in Seqs
            BY <2>1, Ranks
        <3> QED BY <3>1, Small, SMT DEF Seqs
    <2>7. /\ Rank(c.rcvack) >= 1 /\ Rank(c.rcvack) + Len(c.sndbuf) = acc + 1
          /\ \A i \in 1 .. Len(c.sndbuf) : c.sndbuf[i] = Rank(c.rcvack) - 1 + i
        BY DEF Side
    <2>8. ASSUME NEW i \in 1 .. Len(s.data) PROVE s.data[i] = Rank(s.seq) - 1 + i
        <3>1. g + i \in 1 .. Len(c.sndbuf)
            BY <2>1, <2>2, <2>3, <2>4, SMT
        <3>2. s.data[i] = Rank(c.rcvack) - 1 + (g + i)
            BY <2>4, <2>7, <3>1
        <3> QED BY <3>2, <2>2, <2>3, <2>5, <2>6, SMT
    <2>9. /\ Rank(s.seq) >= 1 /\ Rank(s.seq) + Len(s.data) <= acc + 1
          /\ Rank(s.seq) + Len(s.data) <= Rank(c.rcvack) + Reach(c)
        BY <2>1, <2>2, <2>3, <2>4, <2>5, <2>6, <2>7, SMT
    <2>10. Right(s, acc)
        BY <2>8, <2>9 DEF Right
    <2> QED BY <2>2, <2>9, <2>10 DEF Carries, WasSent
<1> QED BY <1>1, <1>2

(* An acknowledgment of what the server has, or none: all that the board   *)
(* ever sent stays sent, and what it sends now is at its place.            *)
LEMMA PassesKeepsSide ==
    ASSUME NEW c, NEW d, NEW acc \in 0 .. OutLen, NEW n \in Nat, Side(c, acc, n), NEW ack \in Seqs,
           Rank(ack) <= n + 1, getsize(c.rcvack, ack) <= Reach(c), Passes(c, d, ack)
    PROVE  /\ Side(d, acc, n)
           /\ Rank(c.rcvack) + Reach(c) <= Rank(d.rcvack) + Reach(d)
           /\ \A s \in d.sent : s \in c.sent \/ (Carries(s, acc, n) /\ WasSent(s, d))
<1> DEFINE g == getsize(c.rcvack, ack)
           A == Rank(c.rcvack)
           B == Rank(d.rcvack)
<1>1. /\ c.rcvack \in Seqs /\ c.sndbuf \in Seq(Nat) /\ Len(c.sndbuf) \in Nat
      /\ Reach(c) \in Nat /\ Reach(c) <= Len(c.sndbuf)
    BY SizesAreNumbers, SMT DEF Side, Sender
<1>2. Sender(d) /\ Reach(d) \in Nat /\ d.rcvack = ack /\ d.sndbuf = Drop(c.sndbuf, g) /\ Reach(c) <= g + Reach(d)
    BY SizesAreNumbers, SMT DEF Passes
<1>3. g \in Nat /\ g <= Len(c.sndbuf) /\ g <= Reach(c)
    <2>1. g \in Seqs
        BY <1>1, SizeIsDistance
    <2>2. g \in Nat
        BY <2>1, Small, SMT DEF Seqs
    <2> QED BY <2>2, <1>1, SMT
<1>4. B = A + g
    BY <1>2, <1>3, PlaceOf
<1>5. A \in Nat
    <2>1. A \in Seqs
        BY <1>1, Ranks
    <2> QED BY <2>1, Small, SMT DEF Seqs
<1>6. /\ A >= 1 /\ n + 1 <= A + Reach(c) /\ A + Len(c.sndbuf) = acc + 1
      /\ \A i \in 1 .. Len(c.sndbuf) : c.sndbuf[i] = A - 1 + i
    BY DEF Side
<1>7. B <= n + 1
    BY <1>2
<1>8. /\ Len(d.sndbuf) = Len(c.sndbuf) - g
      /\ \A i \in 1 .. Len(c.sndbuf) - g : d.sndbuf[i] = c.sndbuf[g + i]
    <2>1. /\ Len(Drop(c.sndbuf, g)) = Len(c.sndbuf) - g
          /\ \A i \in 1 .. Len(c.sndbuf) - g : Drop(c.sndbuf, g)[i] = c.sndbuf[g + i]
        <3> HIDE DEF g
        <3> QED BY <1>1, <1>3, DropSome
    <2> QED BY <2>1, <1>2
<1> HIDE DEF A, B, g
<1>9. ASSUME NEW i \in 1 .. Len(d.sndbuf) PROVE d.sndbuf[i] = B - 1 + i
    <2>1. g + i \in 1 .. Len(c.sndbuf) /\ i \in 1 .. Len(c.sndbuf) - g
        BY <1>1, <1>3, <1>8, SMT
    <2>2. d.sndbuf[i] = A - 1 + (g + i)
        BY <2>1, <1>6, <1>8
    <2> QED BY <2>2, <1>3, <1>4, <1>5, SMT
<1>10. B >= 1 /\ n + 1 <= B + Reach(d) /\ B + Len(d.sndbuf) = acc + 1 /\ A + Reach(c) <= B + Reach(d)
    <2>1. Reach(c) <= g + Reach(d) /\ Reach(d) \in Nat /\ acc \in Int
        BY <1>2
    <2>2. A >= 1 /\ n + 1 <= A + Reach(c) /\ A + Len(c.sndbuf) = acc + 1 /\ Len(d.sndbuf) = Len(c.sndbuf) - g
        BY <1>6, <1>8
    <2>3. Reach(c) \in Nat /\ Len(c.sndbuf) \in Nat /\ g \in Nat /\ A \in Nat /\ B = A + g
        BY <1>1, <1>3, <1>4, <1>5
    <2>4. B >= 1 /\ n + 1 <= B + Reach(d) /\ A + Reach(c) <= B + Reach(d)
        <3> DEFINE x == Reach(c)
                   y == Reach(d)
        <3>1. x \in Nat /\ y \in Nat /\ x <= g + y /\ n + 1 <= A + x
            BY <2>1, <2>2, <2>3
        <3> HIDE DEF x, y
        <3>2. B >= 1
            BY <2>2, <2>3, SMT
        <3>3. A + x <= B + y
            BY <3>1, <2>3, SMT
        <3>4. n + 1 <= B + y
            BY <3>1, <2>3, SMT
        <3> QED BY <3>2, <3>3, <3>4 DEF x, y
    <2>5. B + Len(d.sndbuf) = acc + 1
        <3> DEFINE x == Len(c.sndbuf)
                   y == Len(d.sndbuf)
        <3>1. x \in Nat /\ y = x - g /\ A + x = acc + 1 /\ acc \in Int
            BY <2>1, <2>2, <2>3
        <3> HIDE DEF x, y
        <3>2. B + y = acc + 1
            BY <3>1, <2>3, SMT
        <3> QED BY <3>2 DEF x, y
    <2> QED BY <2>4, <2>5
<1>11. Side(d, acc, n)
    BY <1>2, <1>7, <1>9, <1>10 DEF Side, B
<1>12. ASSUME NEW s \in d.sent, s \notin c.sent PROVE Carries(s, acc, n) /\ WasSent(s, d)
    BY <1>11, <1>12, PieceCarries DEF Passes
<1> QED BY <1>10, <1>11, <1>12 DEF A, B
-----------------------------------------------------------------------------
(* The inductive invariant *)

Numbers ==
    /\ accepted \in 0 .. OutLen /\ delivered \in Seq(Nat) /\ Len(delivered) <= accepted
    /\ \A i \in 1 .. Len(delivered) : delivered[i] = i

(* Segments for the board acknowledge what the server has, or had. *)
Network ==
    /\ \A s \in toServer : Carries(s, accepted, Len(delivered))
    /\ \A s \in toBoard : Sane(s) /\ Rank(s.ack) \in 1 .. Len(delivered) + 1

(* connect() waits for an answer. *)
Waiting(c) ==
    /\ c.state = "SYN_SENT" /\ c.sndbuf = <<>> /\ c.chain = <<>> /\ c.ssthresh \in Nat
    /\ c.sndseq = Wrap(BoardISN + 1) /\ c.maxrcvack = c.sndseq
    /\ c.timers \subseteq {"retransmission", "connection"}

Nothing == accepted = 0 /\ delivered = <<>> /\ \A s \in toServer : s.data = <<>>

Working ==
    /\ Connected(b) /\ Running(b) /\ Chained(b) /\ Side(b, accepted, Len(delivered))
    /\ \A s \in toServer : WasSent(s, b)

Board ==
    /\ DOMAIN b = Fields /\ b.sent = {}
    /\ (b = Fresh /\ Nothing) \/ (Waiting(b) /\ Nothing) \/ Working \/ b.state = "CLOSED"

IInv == Numbers /\ Network /\ Board

(* What a call leaves behind *)
LEMMA LeavesEffect ==
    ASSUME NEW d, DOMAIN d = Fields, Leaves(d)
    PROVE  /\ SameSender(d, b') /\ b'.sent = {} /\ b'.state = d.state /\ b'.timers = d.timers /\ b'.chain = d.chain
           /\ \A s \in toServer' : s \in toServer \/ s \in d.sent
<1>1. b' = [d EXCEPT !.sent = {}, !.owes = {}, !.memory = TRUE] /\ toServer' \in Carried(toServer, d.sent)
    BY DEF Leaves
<1>2. \A s \in toServer' : s \in toServer \/ s \in d.sent
    BY <1>1 DEF Carried
<1>3. /\ SameSender(d, b') /\ b'.sent = {} /\ b'.state = d.state /\ b'.timers = d.timers /\ b'.chain = d.chain
    BY <1>1, SMT DEF Fields, SameSender
<1> QED BY <1>2, <1>3

(* What was right stays right as more is accepted, *)
LEMMA CarriesOn ==
    ASSUME NEW s, NEW acc \in Nat, NEW more \in Nat, acc <= more, NEW n, Carries(s, acc, n)
    PROVE  Carries(s, more, n)
<1>1. s.seq \in Seqs /\ s.data \in Seq(Nat)
    BY DEF Carries
<1>2. Rank(s.seq) \in Nat /\ Len(s.data) \in Nat
    <2>1. Rank(s.seq) \in Seqs
        BY <1>1, Ranks
    <2> QED BY <2>1, <1>1, Small, SMT DEF Seqs
<1>3. Right(s, acc) => Right(s, more)
    BY <1>2, SMT DEF Right
<1> QED BY <1>3 DEF Carries

(* and what was sent stays sent. *)
LEMMA WasSentOn ==
    ASSUME NEW s, NEW c, NEW d, s.seq \in Seqs, s.data \in Seq(Nat), Sender(c), Sender(d),
           Rank(c.rcvack) + Reach(c) <= Rank(d.rcvack) + Reach(d), WasSent(s, c)
    PROVE  WasSent(s, d)
<1>1. Reach(c) \in Nat /\ Reach(d) \in Nat /\ Len(s.data) \in Nat
    BY SizesAreNumbers, SMT
<1>2. Rank(s.seq) \in Seqs /\ Rank(c.rcvack) \in Seqs /\ Rank(d.rcvack) \in Seqs
    BY Ranks DEF Sender
<1>3. Rank(s.seq) \in Nat /\ Rank(c.rcvack) \in Nat /\ Rank(d.rcvack) \in Nat
    BY <1>2, Small, SMT DEF Seqs
<1>4. CASE s.data = <<>>
    BY <1>4 DEF WasSent
<1>5. CASE s.data # <<>>
    <2>1. Rank(s.seq) + Len(s.data) <= Rank(c.rcvack) + Reach(c)
        BY <1>5 DEF WasSent
    <2> QED BY <2>1, <1>1, <1>3, SMT DEF WasSent
<1> QED BY <1>4, <1>5

(* A call after which the control block is d, and its segments under way *)
LEMMA CallKeepsInv ==
    ASSUME IInv, NEW d, DOMAIN d = Fields, Leaves(d),
           accepted' \in accepted .. OutLen, UNCHANGED <<toBoard, delivered>>,
           \A s \in d.sent : Carries(s, accepted', Len(delivered)),
           \/ d.state = "CLOSED"
           \/ Waiting(d) /\ Nothing /\ accepted' = 0 /\ \A s \in d.sent : s.data = <<>>
           \/ /\ Connected(d) /\ Running(d) /\ Chained(d) /\ Side(d, accepted', Len(delivered))
              /\ \A s \in toServer \cup d.sent : WasSent(s, d)
    PROVE  IInv'
<1>1. /\ SameSender(d, b') /\ b'.sent = {} /\ b'.state = d.state /\ b'.timers = d.timers /\ b'.chain = d.chain
      /\ \A s \in toServer' : s \in toServer \/ s \in d.sent
    BY LeavesEffect
<1>2. accepted \in Nat /\ accepted' \in Nat /\ accepted <= accepted' /\ accepted' <= OutLen /\ OutLen \in Nat
    <2>1. accepted \in 0 .. OutLen /\ OutLen \in Nat
        BY TcpAssumption DEF IInv, Numbers
    <2> QED BY <2>1, SMT
<1>3. Numbers'
    <2>1. Len(delivered) \in Nat /\ Len(delivered) <= accepted
        BY DEF IInv, Numbers
    <2>2. Len(delivered) <= accepted'
        BY <2>1, <1>2, SMT
    <2> QED BY <1>2, <2>2 DEF IInv, Numbers
<1>4. Network'
    <2>1. ASSUME NEW s \in toServer' PROVE Carries(s, accepted', Len(delivered))
        <3>1. CASE s \in toServer
            BY <3>1, <1>2, CarriesOn DEF IInv, Network
        <3> QED BY <1>1, <3>1
    <2> QED BY <2>1 DEF IInv, Network
<1>5. DOMAIN b' = Fields
    BY <1>1 DEF SameSender
<1>6. CASE d.state = "CLOSED"
    BY <1>1, <1>3, <1>4, <1>5, <1>6 DEF IInv, Board
<1>7. CASE Waiting(d) /\ Nothing /\ accepted' = 0 /\ \A s \in d.sent : s.data = <<>>
    <2>1. Waiting(b')
        BY <1>1, <1>7 DEF Waiting, SameSender
    <2>2. Nothing'
        BY <1>1, <1>7 DEF Nothing
    <2> QED BY <1>1, <1>3, <1>4, <1>5, <2>1, <2>2 DEF IInv, Board
<1>8. CASE /\ Connected(d) /\ Running(d) /\ Chained(d) /\ Side(d, accepted', Len(delivered))
           /\ \A s \in toServer \cup d.sent : WasSent(s, d)
    <2>1. Sender(d) /\ Sender(b') /\ Flight(b') = Flight(d) /\ Reach(b') = Reach(d)
        BY <1>1, <1>8, SameIsSender DEF Running
    <2>2. b'.rcvack = d.rcvack /\ b'.sndbuf = d.sndbuf /\ b'.sndwnd = d.sndwnd
        BY <1>1 DEF SameSender
    <2>3. Side(b', accepted', Len(delivered))
        BY <1>8, <2>1, <2>2, Zenon DEF Side
    <2>4. Connected(b') /\ Chained(b')
        BY <1>1, <1>8 DEF Connected, Chained
    <2>5. Running(b')
        BY <1>1, <1>8, <2>1, <2>2, Zenon DEF Running
    <2>6. \A s \in toServer' : WasSent(s, b')
        BY <1>1, <1>8, <2>1, <2>2, Zenon DEF WasSent
    <2>7. Working'
        BY <2>3, <2>4, <2>5, <2>6 DEF Working
    <2> QED BY <1>1, <1>3, <1>4, <1>5, <2>7 DEF IInv, Board
<1> QED BY <1>6, <1>7, <1>8

(* A connection that goes on: c is what it was when the call began, with   *)
(* what send() has put into the buffer.                                    *)
LEMMA PassesKeepsInv ==
    ASSUME IInv, Working, NEW c, NEW d, Leaves(d),
           accepted' \in accepted .. OutLen, UNCHANGED <<toBoard, delivered>>,
           Side(c, accepted', Len(delivered)), c.sent = {},
           Rank(c.rcvack) = Rank(b.rcvack), Reach(c) = Reach(b),
           NEW ack \in Seqs, Rank(ack) <= Len(delivered) + 1, getsize(c.rcvack, ack) <= Reach(c), Passes(c, d, ack),
           Connected(d), Running(d), Chained(d)
    PROVE  IInv'
<1>1. accepted' \in 0 .. OutLen /\ Len(delivered) \in Nat
    <2>1. accepted \in 0 .. OutLen /\ delivered \in Seq(Nat)
        BY DEF IInv, Numbers
    <2> QED BY <2>1, SMT
<1>2. /\ Side(d, accepted', Len(delivered))
      /\ Rank(c.rcvack) + Reach(c) <= Rank(d.rcvack) + Reach(d)
      /\ \A s \in d.sent : s \in c.sent \/ (Carries(s, accepted', Len(delivered)) /\ WasSent(s, d))
    BY <1>1, PassesKeepsSide
<1>3. Rank(b.rcvack) + Reach(b) <= Rank(d.rcvack) + Reach(d)
    BY <1>2
<1>4. ASSUME NEW s \in toServer PROVE WasSent(s, d)
    <2>1. WasSent(s, b) /\ s.seq \in Seqs /\ s.data \in Seq(Nat)
        BY DEF Working, IInv, Network, Carries
    <2>2. Sender(b) /\ Sender(d)
        BY <1>2 DEF Working, Side
    <2> QED BY <2>1, <2>2, <1>3, WasSentOn
<1>5. DOMAIN d = Fields
    BY <1>2 DEF Side, Sender
<1>6. \A s \in d.sent : Carries(s, accepted', Len(delivered)) /\ WasSent(s, d)
    BY <1>2
<1>7. \A s \in toServer \cup d.sent : WasSent(s, d)
    BY <1>4, <1>6
<1> QED BY <1>2, <1>5, <1>6, <1>7, CallKeepsInv

(* No acknowledgment is taken. *)
LEMMA GoesKeepsInv ==
    ASSUME IInv, Working, NEW d, Leaves(d), UNCHANGED <<accepted, toBoard, delivered>>,
           Goes(b, d), Connected(d), Running(d), Chained(d)
    PROVE  IInv'
<1>1. Sender(b) /\ b.rcvack \in Seqs /\ b.sent = {} /\ Side(b, accepted, Len(delivered))
    BY DEF Working, Running, Sender, IInv, Board
<1>2. Passes(b, d, b.rcvack) /\ getsize(b.rcvack, b.rcvack) <= Reach(b)
    BY <1>1, GoesPasses, SameAcks, SizesAreNumbers, SMT
<1>3. accepted' \in accepted .. OutLen
    <2>1. accepted \in 0 .. OutLen
        BY DEF IInv, Numbers
    <2> QED BY <2>1, SMT
<1>4. Rank(b.rcvack) <= Len(delivered) + 1
    BY <1>1 DEF Side
<1> QED BY <1>1, <1>2, <1>3, <1>4, PassesKeepsInv

(* A connection that is given up *)
LEMMA ClosedKeepsInv ==
    ASSUME IInv, NEW d, Leaves(d), UNCHANGED <<accepted, toBoard, delivered>>, Closed(b, d)
    PROVE  IInv'
<1>1. accepted' \in accepted .. OutLen
    <2>1. accepted \in 0 .. OutLen
        BY DEF IInv, Numbers
    <2> QED BY <2>1, SMT
<1>2. ASSUME NEW s \in d.sent PROVE Carries(s, accepted', Len(delivered))
    <2>1. s.seq \in Seqs /\ s.data = <<>>
        BY DEF Closed, IInv, Board
    <2> QED BY <2>1 DEF Carries
<1> QED BY <1>1, <1>2, CallKeepsInv DEF Closed
-----------------------------------------------------------------------------
(* One lemma per action *)

(* The first byte follows the SYN. *)
LEMMA RankOfFirst ==
    Wrap(BoardISN + 1) \in Seqs /\ Rank(Wrap(BoardISN + 1)) = 1 /\ getsize(Wrap(BoardISN + 1), Wrap(BoardISN + 1)) = 0
<1>1. 1 \in 0 .. OutLen + 1
    BY TcpAssumption, SMT
<1>2. Wrap(BoardISN + 1) \in Seqs /\ Rank(Wrap(BoardISN + 1)) = 1
    BY <1>1, Ranks
<1> QED BY <1>2, Small, SMT DEF getsize, Seqs

(* What a call of connect(), or of its timer, sends *)
LEMMA SynWaits ==
    ASSUME NEW c, DOMAIN c = Fields, c.sndbuf = <<>>, c.chain = <<>>, c.ssthresh \in Nat, c.sent = {},
           c.sndseq = BoardISN, c.maxrcvack = Wrap(BoardISN + 1), c.timers \subseteq {"retransmission", "connection"}
    PROVE  LET d == [sendsyn(c) EXCEPT !.state = "SYN_SENT"]
           IN  /\ Waiting(d) /\ DOMAIN d = Fields /\ d.state = "SYN_SENT" /\ sendsyn(c).state = c.state
               /\ DOMAIN sendsyn(c) = Fields
               /\ \A s \in d.sent : s.seq \in Seqs /\ s.data = <<>>
<1> DEFINE e == sendsyn(c)
           d == [e EXCEPT !.state = "SYN_SENT"]
           first == Wrap(BoardISN + 1)
<1>1. /\ DOMAIN e = Fields /\ SameReceiver(c, e)
      /\ e.state = c.state /\ e.sndbuf = c.sndbuf /\ e.ssthresh = c.ssthresh
      /\ e.timers = c.timers \ {"delayed_ack"}
      /\ e.sndseq = first /\ e.maxrcvack = Farthest(c, e.sndseq)
      /\ \A s \in e.sent : s \in c.sent \/ (s.seq = BoardISN /\ s.data = <<>>)
    BY SendsegEffect, SMT DEF sendsyn
<1>2. Farthest(c, first) = first
    BY DEF Farthest
<1>3. BoardISN \in Seqs
    BY TcpAssumption DEF Seqs
<1> HIDE DEF e, first
<1>4. /\ DOMAIN d = Fields /\ d.state = "SYN_SENT" /\ d.sndbuf = e.sndbuf /\ d.chain = e.chain
      /\ d.ssthresh = e.ssthresh /\ d.timers = e.timers /\ d.sndseq = e.sndseq /\ d.maxrcvack = e.maxrcvack
      /\ d.sent = e.sent
    BY <1>1, SMT DEF Fields
<1> HIDE DEF d
<1>5. Waiting(d)
    <2>1. d.timers \subseteq {"retransmission", "connection"}
        BY <1>1, <1>4
    <2>2. d.chain = <<>> /\ d.sndbuf = <<>> /\ d.ssthresh \in Nat
        BY <1>1, <1>4 DEF SameReceiver
    <2> QED BY <2>1, <2>2, <1>1, <1>2, <1>4 DEF Waiting, first
<1>6. \A s \in d.sent : s.seq \in Seqs /\ s.data = <<>>
    BY <1>1, <1>3, <1>4
<1> QED BY <1>1, <1>4, <1>5, <1>6 DEF d, e

(* It keeps the invariant while nothing was accepted. *)
LEMMA WaitingKeepsInv ==
    ASSUME IInv, Nothing, NEW d, Leaves(d), UNCHANGED <<accepted, toBoard, delivered>>,
           DOMAIN d = Fields, Waiting(d), \A s \in d.sent : s.seq \in Seqs /\ s.data = <<>>
    PROVE  IInv'
<1>1. accepted' \in accepted .. OutLen /\ accepted' = 0
    <2>1. OutLen \in Nat /\ accepted = 0
        BY TcpAssumption DEF Nothing
    <2> QED BY <2>1, SMT
<1>2. ASSUME NEW s \in d.sent PROVE Carries(s, accepted', Len(delivered))
    <2>1. s.seq \in Seqs /\ s.data = <<>>
        OBVIOUS
    <2> QED BY <2>1 DEF Carries
<1> QED BY <1>1, <1>2, CallKeepsInv

(* connect() sends a SYN. *)
LEMMA ConnectKeepsInv == ASSUME IInv, connect PROVE IInv'
<1> DEFINE c == [b EXCEPT !.sndseq = BoardISN, !.maxrcvack = Wrap(BoardISN + 1),
                          !.timers = {"retransmission", "connection"}]
           d == [sendsyn(c) EXCEPT !.state = "SYN_SENT"]
<1>1. b.state = "IDLE" /\ Leaves(d) /\ UNCHANGED <<accepted, toBoard, delivered>>
    BY DEF connect, server
<1>2. b = Fresh /\ Nothing
    BY <1>1 DEF IInv, Board, Waiting, Working, Connected
<1>3. /\ DOMAIN c = Fields /\ c.sndbuf = <<>> /\ c.chain = <<>> /\ c.ssthresh = SeqSpace /\ c.sent = {}
      /\ c.sndseq = BoardISN /\ c.maxrcvack = Wrap(BoardISN + 1) /\ c.timers = {"retransmission", "connection"}
    BY <1>2, SMT DEF Fresh, Fields
<1> HIDE DEF c
<1>4. DOMAIN d = Fields /\ Waiting(d) /\ \A s \in d.sent : s.seq \in Seqs /\ s.data = <<>>
    <2>1. c.ssthresh \in Nat /\ c.timers \subseteq {"retransmission", "connection"}
        BY <1>3, Small
    <2> QED BY <2>1, <1>3, SynWaits
<1> HIDE DEF d
<1> QED BY <1>1, <1>2, <1>4, WaitingKeepsInv

(* The timers that are on tell the state. *)
LEMMA RunsOutWhen ==
    ASSUME IInv, NEW t, RunsOut(t)
    PROVE  /\ UNCHANGED <<accepted, toBoard, delivered>> /\ DOMAIN b = Fields /\ b.sent = {}
           /\ Working \/ (Waiting(b) /\ Nothing /\ b.state = "SYN_SENT" /\ t \in {"retransmission", "connection"})
<1>1. b # Fresh
    BY SMT DEF RunsOut, Fresh
<1> QED BY <1>1 DEF RunsOut, IInv, Board, Waiting, server

(* A timer that gives up, and the application that does *)
LEMMA AbortKeepsInv == ASSUME IInv, abort PROVE IInv'
<1>1. PICK t : RunsOut(t)
    BY DEF abort
<1>2. UNCHANGED <<accepted, toBoard, delivered>> /\ DOMAIN b = Fields
    BY <1>1, RunsOutWhen
<1>3. Leaves(closesk(b)) /\ Closed(b, closesk(b))
    BY <1>2, CloseskCloses DEF abort
<1> QED BY <1>2, <1>3, ClosedKeepsInv

LEMMA CloseKeepsInv == ASSUME IInv, close PROVE IInv'
<1> DEFINE a == abortsk(b)
           d == [a EXCEPT !.rcvbuf = <<>>]
<1>1. Leaves(d) /\ UNCHANGED <<accepted, toBoard, delivered>> /\ DOMAIN b = Fields
    BY DEF close, server, IInv, Board
<1>2. Closed(b, a)
    <2>1. CASE Connected(b)
        <3>1. b.rcvack \in Seqs
            <4>1. b # Fresh /\ ~Waiting(b) /\ b.state # "CLOSED"
                BY <2>1, SMT DEF Connected, Fresh, Waiting
            <4> QED BY <4>1 DEF IInv, Board, Working, Side, Sender
        <3> QED BY <2>1, <3>1, <1>1, CloseskCloses DEF abortsk
    <2>2. CASE ~Connected(b)
        BY <2>2, <1>1, CloseskCloses DEF abortsk
    <2> QED BY <2>1, <2>2
<1> HIDE DEF a
<1>3. Closed(b, d)
    <2>1. DOMAIN d = Fields /\ d.state = a.state /\ d.sent = a.sent
        BY <1>2, SMT DEF Closed, Fields
    <2> QED BY <2>1, <1>2 DEF Closed
<1> QED BY <1>1, <1>3, ClosedKeepsInv

(* The timer of a delayed acknowledgment *)
LEMMA DelayedAckKeepsInv == ASSUME IInv, delayed_ack PROVE IInv'
<1>1. UNCHANGED <<accepted, toBoard, delivered>> /\ Working /\ Leaves(sendack(b))
    BY RunsOutWhen DEF delayed_ack
<1> DEFINE d == sendack(b)
<1>2. Goes(b, d) /\ Running(d) /\ d.state = b.state /\ d.chain = b.chain
    BY <1>1, SendackRuns DEF Working
<1>3. Connected(d) /\ Chained(d)
    BY <1>1, <1>2 DEF Working, Connected, Chained
<1> HIDE DEF d
<1> QED BY <1>1, <1>2, <1>3, GoesKeepsInv DEF d

(* recv() takes bytes from the receiver's buffer, and may send. *)
LEMMA RcvKeepsInv == ASSUME IInv, rcv PROVE IInv'
<1> DEFINE n == Least(ReadMax, Len(b.rcvbuf))
           c == [b EXCEPT !.rcvbuf = Drop(@, n), !.newfree = @ + n]
           d == IF Connected(b) /\ Announces(c) THEN sendack(c) ELSE c
<1>1. /\ Leaves(d) /\ UNCHANGED <<accepted, toBoard, delivered>>
      /\ DOMAIN b = Fields /\ b.state # "IDLE" /\ b.state # "SYN_SENT"
    BY Zenon DEF rcv, server, IInv, Board
<1>2. Working \/ b.state = "CLOSED"
    <2>1. b # Fresh
        BY <1>1, SMT DEF Fresh
    <2> QED BY <1>1, <2>1 DEF IInv, Board, Waiting
<1>3. /\ SameSender(b, c) /\ c.sent = b.sent /\ c.state = b.state /\ c.chain = b.chain /\ c.timers = b.timers
    BY <1>1, SMT DEF Fields, SameSender
<1> HIDE DEF c
<1>4. CASE b.state = "CLOSED"
    <2>1. d = c
        BY <1>4 DEF Connected
    <2>2. Closed(b, c)
        BY <1>3, <1>4 DEF Closed, SameSender
    <2> HIDE DEF d
    <2> QED BY <1>1, <2>1, <2>2, ClosedKeepsInv
<1>5. CASE Working
    <2>1. Sender(b) /\ Running(b) /\ Connected(b) /\ Chained(b)
        BY <1>5 DEF Working, Running
    <2>2. Goes(b, c) /\ Flight(c) = Flight(b) /\ SameSent(b, c)
        BY <1>3, <2>1, SameGoes DEF SameSent
    <2>3. Running(c) /\ Connected(c) /\ Chained(c)
        BY <1>3, <2>1, <2>2, RunningOn DEF Connected, Chained
    <2>4. /\ Goes(c, sendack(c)) /\ Running(sendack(c))
          /\ sendack(c).state = c.state /\ sendack(c).chain = c.chain
        BY <2>3, SendackRuns
    <2>5. Goes(b, d) /\ Running(d) /\ Connected(d) /\ Chained(d)
        <3>1. CASE d = c
            BY <3>1, <2>2, <2>3
        <3>2. CASE d = sendack(c)
            <4>1. Goes(b, sendack(c))
                BY <2>1, <2>2, <2>4, GoesOn
            <4>2. Connected(sendack(c)) /\ Chained(sendack(c))
                BY <2>3, <2>4 DEF Connected, Chained
            <4> QED BY <3>2, <4>1, <4>2, <2>4
        <3> QED BY <3>1, <3>2
    <2> HIDE DEF d
    <2> QED BY <1>1, <1>5, <2>5, GoesKeepsInv
<1> QED BY <1>2, <1>4, <1>5

(* The retransmission timer goes back to the first byte not acknowledged. *)
LEMMA RtimeoKeepsInv == ASSUME IInv, rtimeo PROVE IInv'
<1>1. UNCHANGED <<accepted, toBoard, delivered>> /\ DOMAIN b = Fields /\ b.sent = {}
    BY RunsOutWhen DEF rtimeo
<1>2. Working \/ (Waiting(b) /\ Nothing /\ b.state = "SYN_SENT")
    BY RunsOutWhen DEF rtimeo
<1>3. CASE Waiting(b) /\ Nothing /\ b.state = "SYN_SENT"
    <2> DEFINE c == [b EXCEPT !.sndseq = Wrap(@ - 1)]
               d == sendsyn(c)
               e == [d EXCEPT !.state = "SYN_SENT"]
    <2>1. Leaves(d)
        BY <1>3, Zenon DEF rtimeo
    <2>2. Wrap(b.sndseq - 1) = BoardISN
        <3>1. BoardISN \in Seqs /\ b.sndseq = Wrap(BoardISN + 1)
            BY <1>3, TcpAssumption DEF Waiting, Seqs
        <3>2. b.sndseq \in Seqs /\ getsize(BoardISN, b.sndseq) = 1
            BY <3>1, RankOfFirst DEF Rank
        <3>3. Wrap(b.sndseq - 1) \in Seqs /\ getsize(BoardISN, Wrap(b.sndseq - 1)) = 0
            BY <3>1, <3>2, Behind, SMT
        <3>4. Wrap(BoardISN + 0) = Wrap(b.sndseq - 1)
            BY <3>1, <3>3, SizeIsDistance
        <3>5. Wrap(BoardISN + 0) = BoardISN
            BY <3>1, WrapsOnce, Small, SMT DEF Seqs
        <3> QED BY <3>4, <3>5
    <2>3. /\ DOMAIN c = Fields /\ c.sndbuf = <<>> /\ c.chain = <<>> /\ c.ssthresh \in Nat /\ c.sent = {}
          /\ c.sndseq = BoardISN /\ c.maxrcvack = Wrap(BoardISN + 1)
          /\ c.timers \subseteq {"retransmission", "connection"} /\ c.state = "SYN_SENT"
        <3>1. /\ DOMAIN c = Fields /\ c.sndbuf = b.sndbuf /\ c.chain = b.chain /\ c.ssthresh = b.ssthresh
              /\ c.sent = b.sent /\ c.sndseq = Wrap(b.sndseq - 1) /\ c.maxrcvack = b.maxrcvack
              /\ c.timers = b.timers /\ c.state = b.state
            BY <1>1, SMT DEF Fields
        <3> HIDE DEF c
        <3> QED BY <3>1, <2>2, <1>1, <1>3 DEF Waiting
    <2> HIDE DEF c
    <2>4. /\ Waiting(e) /\ DOMAIN e = Fields /\ e.state = "SYN_SENT" /\ d.state = c.state /\ DOMAIN d = Fields
          /\ \A s \in e.sent : s.seq \in Seqs /\ s.data = <<>>
        BY <2>3, SynWaits
    <2> HIDE DEF d
    <2>5. d.state = "SYN_SENT"
        BY <2>3, <2>4
    <2>6. /\ e.sndbuf = d.sndbuf /\ e.chain = d.chain /\ e.ssthresh = d.ssthresh /\ e.sndseq = d.sndseq
          /\ e.maxrcvack = d.maxrcvack /\ e.timers = d.timers /\ e.sent = d.sent
        BY <2>4, SMT DEF Fields
    <2> HIDE DEF e
    <2>7. Waiting(d) /\ \A s \in d.sent : s.seq \in Seqs /\ s.data = <<>>
        BY <2>4, <2>5, <2>6 DEF Waiting
    <2> QED BY <1>1, <1>3, <2>1, <2>4, <2>7, WaitingKeepsInv
<1>4. CASE Working
    <2>1. b.state # "SYN_SENT" /\ Sender(b) /\ Running(b) /\ Chained(b) /\ Connected(b)
        BY <1>4 DEF Working, Connected, Running
    <2> DEFINE C(m) == [On(Off(b, "retransmission"), "abort") EXCEPT
                           !.sndseq = b.rcvack, !.ssthresh = Halved(b), !.cwnd = SndMss, !.memory = m]
               E(m) == sendanydata(C(m), FALSE, TRUE)
    <2>2. PICK m : Leaves(On(E(m), "retransmission"))
        <3>1. \E m \in Memory : IF b.state = "SYN_SENT" THEN Leaves(sendsyn([b EXCEPT !.sndseq = Wrap(@ - 1)]))
                                ELSE Leaves(On(E(m), "retransmission"))
            BY Zenon DEF rtimeo
        <3> QED BY <3>1, <2>1
    <2> DEFINE c == C(m)
               e == E(m)
               d == On(e, "retransmission")
    <2>3. /\ DOMAIN c = Fields /\ c.state = b.state /\ c.sndseq = b.rcvack /\ c.rcvack = b.rcvack
          /\ c.maxrcvack = b.maxrcvack /\ c.sndbuf = b.sndbuf /\ c.sndwnd = b.sndwnd /\ c.cwnd = SndMss
          /\ c.ssthresh = Halved(b) /\ c.chain = b.chain /\ c.sent = b.sent
          /\ c.timers = (b.timers \ {"retransmission"}) \cup {"abort"}
        BY <1>1, SMT DEF Fields, On, Off
    <2> HIDE DEF C
    <2>4. Sender(c) /\ Reach(c) = Reach(b)
        <3>1. Halved(b) \in Nat
            <4>1. Least(b.cwnd, b.sndwnd) \in Nat
                BY <2>1 DEF Least, Sender
            <4>2. Least(b.cwnd, b.sndwnd) \div 2 \in Nat /\ 2 * SndMss \in Nat
                BY <4>1, Small, SMT
            <4> QED BY <4>2, Zenon DEF Halved, Most
        <3>2. Flight(c) = 0
            BY <2>1, <2>3, SameAcks DEF Flight
        <3>3. Reach(c) = Reach(b)
            BY <2>3 DEF Reach
        <3>4. Len(c.sndbuf) \in Nat
            BY <2>1, <2>3 DEF Sender
        <3>5. SndMss \in Nat /\ SndMss >= SndMss /\ 0 <= Len(c.sndbuf)
            BY <3>4, Small, SMT
        <3> QED BY <2>1, <2>3, <3>1, <3>2, <3>3, <3>5, Zenon DEF Sender
    <2>5. Fills(c, e, TRUE)
        BY <2>4, SendanydataFills
    <2> HIDE DEF c, E
    <2>6. Sends(c, e) /\ Flight(e) <= e.sndwnd /\ ("persist" \in e.timers => "persist" \in c.timers \/ e.sndwnd # 0)
        BY <2>5 DEF Fills
    <2>7. SameSender(e, d) /\ d.sent = e.sent /\ d.state = e.state /\ d.chain = e.chain
          /\ d.timers = e.timers \cup {"retransmission"}
        <3>1. DOMAIN e = Fields
            BY <2>6 DEF Sends, Sender
        <3> QED BY <3>1, SMT DEF Fields, On, SameSender
    <2> HIDE DEF d, e
    <2>8. Goes(c, e) /\ Goes(e, d) /\ Flight(d) = Flight(e) /\ Sender(e)
        <3>1. Sender(e)
            BY <2>6 DEF Sends
        <3> QED BY <3>1, <2>6, <2>7, SendsGoes, SameGoes
    <2>9. Goes(b, d)
        <3>1. Goes(b, c)
            BY <2>1, <2>3, <2>4, SizesAreNumbers, SMT DEF Goes
        <3> QED BY <3>1, <2>1, <2>8, GoesOn
    <2>10. d.state = b.state /\ d.chain = b.chain /\ d.sndbuf = b.sndbuf /\ d.sndwnd = e.sndwnd /\ d.sndwnd = b.sndwnd
        BY <2>3, <2>6, <2>7 DEF Sends, SameReceiver, SameSender
    <2>11. Connected(d) /\ Chained(d)
        BY <2>1, <2>10 DEF Connected, Chained
    <2>12. Running(d)
        <3>1. Flight(d) <= d.sndwnd
            BY <2>6, <2>8, <2>10
        <3>2. "retransmission" \in d.timers
            BY <2>7
        <3>3. "persist" \in d.timers /\ d.sndwnd = 0 => "persist" \in b.timers
            BY <2>3, <2>6, <2>7, <2>10
        <3>4. "persist" \in d.timers /\ d.sndwnd = 0 => d.sndbuf # <<>>
            BY <3>3, <2>1, <2>10 DEF Running
        <3>5. Sender(d)
            BY <2>9 DEF Goes
        <3> QED BY <3>1, <3>2, <3>4, <3>5 DEF Running
    <2> QED BY <1>1, <1>4, <2>2, <2>9, <2>11, <2>12, GoesKeepsInv DEF d, e, E
<1> QED BY <1>2, <1>3, <1>4

(* A keep-alive probe repeats a byte that the server has. *)
LEMMA KtimeoKeepsInv == ASSUME IInv, ktimeo PROVE IInv'
<1> DEFINE k == [seq |-> Wrap(b.rcvack - 1), data |-> <<0>>, flags |-> {"ACK"}, wnd |-> getrcvwnd(b), ack |-> b.sndack]
           c == On(b, "abort")
           d == [c EXCEPT !.sent = {k}]
           f == Off(b, "keepalive")
<1>1. UNCHANGED <<accepted, toBoard, delivered>> /\ DOMAIN b = Fields /\ b.sent = {} /\ Working
    BY RunsOutWhen DEF ktimeo
<1>2. Leaves(d) \/ Leaves(f)
    BY Zenon DEF ktimeo
<1>3. /\ Sender(b) /\ Running(b) /\ Connected(b) /\ Chained(b) /\ Side(b, accepted, Len(delivered))
      /\ \A s \in toServer : WasSent(s, b)
    BY <1>1 DEF Working, Running
<1>4. /\ SameSender(b, c) /\ c.sent = b.sent /\ c.state = b.state /\ c.chain = b.chain
      /\ c.timers = b.timers \cup {"abort"}
    BY <1>1, SMT DEF Fields, On, SameSender
<1>5. /\ SameSender(b, f) /\ f.sent = b.sent /\ f.state = b.state /\ f.chain = b.chain
      /\ f.timers = b.timers \ {"keepalive"}
    BY <1>1, SMT DEF Fields, Off, SameSender
<1>6. CASE Leaves(f)
    <2> HIDE DEF f
    <2>1. Goes(b, f) /\ Flight(f) = Flight(b) /\ SameSent(b, f)
        BY <1>3, <1>5, SameGoes DEF SameSent
    <2>2. Running(f) /\ Connected(f) /\ Chained(f)
        BY <1>3, <1>5, <2>1, RunningOn DEF Connected, Chained
    <2> QED BY <1>1, <1>6, <2>1, <2>2, GoesKeepsInv
<1>7. CASE Leaves(d)
    <2> HIDE DEF c
    <2>1. /\ SameSender(b, d) /\ d.sent = {k} /\ d.state = b.state /\ d.chain = b.chain
          /\ d.timers = b.timers \cup {"abort"}
        BY <1>4, SMT DEF Fields, SameSender
    <2> HIDE DEF d
    <2>2. Sender(d) /\ Flight(d) = Flight(b) /\ Reach(d) = Reach(b)
        BY <1>3, <2>1, SameIsSender
    <2>3. d.rcvack = b.rcvack /\ d.sndbuf = b.sndbuf /\ d.sndwnd = b.sndwnd /\ DOMAIN d = Fields
        BY <2>1 DEF SameSender
    <2>4. Side(d, accepted, Len(delivered))
        BY <1>3, <2>2, <2>3, Zenon DEF Side
    <2>5. /\ "retransmission" \in d.timers <=> "retransmission" \in b.timers
          /\ "persist" \in d.timers <=> "persist" \in b.timers
          /\ d.timers \cap {"retransmission", "persist"} = b.timers \cap {"retransmission", "persist"}
        BY <2>1, SMT
    <2>6. Running(d)
        BY <1>3, <2>2, <2>3, <2>5, Zenon DEF Running
    <2>7. Connected(d) /\ Chained(d)
        BY <1>3, <2>1 DEF Connected, Chained
    <2>8. \A s \in toServer : WasSent(s, d)
        BY <1>3, <2>2, <2>3, Zenon DEF WasSent
    <2>9. /\ k.seq \in Seqs /\ k.data \in Seq(Nat) /\ Len(k.data) = 1 /\ Rank(k.seq) = Rank(b.rcvack) - 1
          /\ Rank(b.rcvack) \in Nat /\ Reach(b) \in Nat
        <3>1. b.rcvack \in Seqs /\ BoardISN \in Seqs /\ Reach(b) \in Nat
            <4>1. b.rcvack \in Seqs /\ Reach(b) \in 0 .. SndMax
                BY <1>3, SizesAreNumbers DEF Sender
            <4> QED BY <4>1, TcpAssumption DEF Seqs
        <3>2. Rank(b.rcvack) >= 1
            BY <1>3 DEF Side
        <3>3. Wrap(b.rcvack - 1) \in Seqs /\ Rank(Wrap(b.rcvack - 1)) = Rank(b.rcvack) - 1
            BY <3>1, <3>2, Behind DEF Rank
        <3>4. Rank(b.rcvack) \in Nat
            <4>1. Rank(b.rcvack) \in Seqs
                BY <3>1, Ranks
            <4> QED BY <4>1, Small, SMT DEF Seqs
        <3>5. k.seq = Wrap(b.rcvack - 1) /\ k.data = <<0>>
            OBVIOUS
        <3>6. <<0>> \in Seq(Nat) /\ Len(<<0>>) = 1
            OBVIOUS
        <3> QED BY <3>1, <3>3, <3>4, <3>5, <3>6
    <2> HIDE DEF k
    <2>10. Old(k, Len(delivered)) /\ WasSent(k, d)
        <3>1. Rank(b.rcvack) <= Len(delivered) + 1
            BY <1>3 DEF Side
        <3>2. Rank(k.seq) + Len(k.data) = Rank(b.rcvack)
            BY <2>9, SMT
        <3>3. Rank(b.rcvack) <= Rank(b.rcvack) + Reach(b)
            BY <2>9, SMT
        <3> QED BY <3>1, <3>2, <3>3, <2>2, <2>3, Zenon DEF Old, WasSent
    <2>11. \A s \in d.sent : Carries(s, accepted', Len(delivered))
        BY <2>1, <2>9, <2>10 DEF Carries
    <2>12. \A s \in toServer \cup d.sent : WasSent(s, d)
        BY <2>1, <2>8, <2>10
    <2>13. accepted' \in accepted .. OutLen /\ accepted' = accepted
        <3>1. accepted \in 0 .. OutLen /\ accepted' = accepted
            BY <1>1 DEF IInv, Numbers
        <3> QED BY <3>1, SMT
    <2>14. Side(d, accepted', Len(delivered))
        BY <2>4, <2>13
    <2> QED BY <1>1, <1>7, <2>3, <2>6, <2>7, <2>11, <2>12, <2>13, <2>14, CallKeepsInv
<1> QED BY <1>2, <1>6, <1>7

(* The persist timer probes a closed window, or sends what was held back. *)
LEMMA PtimeoKeepsInv == ASSUME IInv, ptimeo PROVE IInv'
<1>1. UNCHANGED <<accepted, toBoard, delivered>> /\ DOMAIN b = Fields /\ b.sent = {} /\ Working /\ "persist" \in b.timers
    BY RunsOutWhen DEF ptimeo, RunsOut
<1>2. Sender(b) /\ Running(b) /\ Connected(b) /\ Chained(b)
    BY <1>1 DEF Working, Running
<1> DEFINE C(m) == [Off(b, "persist") EXCEPT !.memory = m]
           P(m) == senddataseg(C(m), 1)
           Q(m) == [P(m) EXCEPT !.sndseq = Wrap(@ - 1)]
           D(m) == On(On(Q(m), "persist"), "abort")
           F(m) == sendanydata(C(m), FALSE, TRUE)
<1>3. PICK m : Leaves(IF b.sndwnd = 0 THEN D(m) ELSE F(m))
    BY Zenon DEF ptimeo
<1> DEFINE c == C(m)
<1>4. /\ SameSender(b, c) /\ c.sent = b.sent /\ c.state = b.state /\ c.chain = b.chain
      /\ c.timers = b.timers \ {"persist"}
    BY <1>1, SMT DEF Fields, Off, SameSender
<1> HIDE DEF C
<1>5. Goes(b, c) /\ Flight(c) = Flight(b) /\ Sender(c) /\ Left(c) = Left(b)
    BY <1>2, <1>4, SameGoes, SameIsSender
<1>6. CASE b.sndwnd = 0
    <2> DEFINE p == P(m)
               q == Q(m)
               d == D(m)
    <2>1. Flight(c) = 0 /\ b.sndbuf # <<>> /\ Left(c) \in Nat /\ Left(c) >= 1
        <3>1. b.sndbuf # <<>> /\ Flight(b) <= 0
            BY <1>1, <1>2, <1>6 DEF Running
        <3>2. Flight(b) = 0 /\ Len(b.sndbuf) \in Nat
            BY <1>2, <3>1, SizesAreNumbers, SMT
        <3>3. b.sndbuf \in Seq(Nat)
            BY <1>2 DEF Sender
        <3>4. Len(b.sndbuf) >= 1
            BY <3>1, <3>2, <3>3
        <3> QED BY <1>5, <3>1, <3>2, <3>4, SMT DEF Left
    <2>2. Sends(c, p) /\ Flight(p) = 1
        <3>1. Least(1, Left(c)) = 1
            BY <2>1, SMT DEF Least
        <3>2. Sends(c, p) /\ Flight(p) = Flight(c) + Least(1, Left(c))
            BY <1>5, DatasegSends
        <3> QED BY <2>1, <3>1, <3>2, SMT
    <2> HIDE DEF P
    <2>3. Sender(p) /\ DOMAIN p = Fields /\ p.rcvack \in Seqs /\ p.sndseq \in Seqs
        BY <2>2 DEF Sends, Sender
    <2>4. /\ DOMAIN q = Fields /\ q.sndseq = Wrap(p.sndseq - 1) /\ q.rcvack = p.rcvack /\ q.maxrcvack = p.maxrcvack
          /\ q.sndbuf = p.sndbuf /\ q.sndwnd = p.sndwnd /\ q.cwnd = p.cwnd /\ q.ssthresh = p.ssthresh
          /\ q.state = p.state /\ q.chain = p.chain /\ q.sent = p.sent
        BY <2>3, SMT DEF Fields
    <2> HIDE DEF p, Q
    <2>5. q.sndseq \in Seqs /\ Flight(q) = 0 /\ Reach(q) = Reach(p)
        <3>1. getsize(p.rcvack, p.sndseq) = 1
            BY <2>2 DEF Flight
        <3>2. Wrap(p.sndseq - 1) \in Seqs /\ getsize(p.rcvack, Wrap(p.sndseq - 1)) = 0
            BY <3>1, <2>3, Behind, SMT
        <3> QED BY <3>2, <2>4 DEF Flight, Reach
    <2>6. Sender(q)
        <3>1. 0 <= Len(q.sndbuf)
            BY <2>3, <2>4, SizesAreNumbers, SMT
        <3> QED BY <3>1, <2>3, <2>4, <2>5, Zenon DEF Sender
    <2>7. Goes(c, q) /\ q.state = c.state /\ q.chain = c.chain
        <3>1. /\ p.rcvack = c.rcvack /\ p.sndbuf = c.sndbuf /\ p.sndwnd = c.sndwnd /\ p.state = c.state
              /\ p.chain = c.chain /\ Reach(c) <= Reach(p) /\ \A s \in p.sent : s \in c.sent \/ Piece(s, p)
            BY <2>2 DEF Sends, SameReceiver
        <3>2. ASSUME NEW s, Piece(s, p) PROVE Piece(s, q)
            BY <3>2, <2>4, <2>5, Zenon DEF Piece
        <3>3. \A s \in q.sent : s \in c.sent \/ Piece(s, q)
            BY <3>1, <3>2, <2>4
        <3> QED BY <3>1, <3>3, <2>4, <2>5, <2>6 DEF Goes
    <2>8. /\ SameSender(q, d) /\ d.sent = q.sent /\ d.state = q.state /\ d.chain = q.chain
          /\ "persist" \in d.timers
        BY <2>4, SMT DEF Fields, On, SameSender
    <2> HIDE DEF q, D
    <2>9. Goes(q, d) /\ Flight(d) = 0
        BY <2>5, <2>6, <2>8, SameGoes
    <2>10. Goes(b, d)
        BY <1>2, <1>5, <2>7, <2>9, GoesOn
    <2>11. d.sndwnd = 0 /\ d.sndbuf = b.sndbuf /\ Sender(d)
        BY <2>10, <1>6 DEF Goes
    <2>12. Running(d)
        BY <2>1, <2>8, <2>9, <2>11, SMT DEF Running
    <2>13. Connected(d) /\ Chained(d)
        BY <1>2, <1>4, <2>7, <2>8 DEF Connected, Chained
    <2>14. Leaves(d)
        BY <1>3, <1>6
    <2> QED BY <1>1, <2>10, <2>12, <2>13, <2>14, GoesKeepsInv
<1>7. CASE b.sndwnd # 0
    <2> DEFINE d == F(m)
    <2>1. Fills(c, d, TRUE)
        BY <1>5, SendanydataFills
    <2>2. Leaves(d)
        BY <1>3, <1>7
    <2> HIDE DEF F
    <2>3. /\ Sends(c, d) /\ Flight(d) <= d.sndwnd
          /\ (Flight(c) # 0 => "retransmission" \in c.timers) => (Flight(d) # 0 => "retransmission" \in d.timers)
          /\ ~(Flight(d) = 0 /\ d.sndbuf # <<>> /\ d.sndwnd # 0)
        BY <2>1, Zenon DEF Fills
    <2>4. Flight(c) # 0 => "retransmission" \in c.timers
        BY <1>2, <1>4, <1>5 DEF Running
    <2>5. Goes(b, d) /\ d.state = b.state /\ d.chain = b.chain
        <3>1. Goes(c, d) /\ d.state = c.state /\ d.chain = c.chain
            BY <2>3, SendsGoes DEF Sends, SameReceiver
        <3> QED BY <3>1, <1>2, <1>4, <1>5, GoesOn
    <2>6. d.sndwnd # 0 /\ Sender(d)
        BY <2>5, <1>7 DEF Goes
    <2>7. Running(d)
        BY <2>3, <2>4, <2>6 DEF Running
    <2>8. Connected(d) /\ Chained(d)
        BY <1>2, <2>5 DEF Connected, Chained
    <2> QED BY <1>1, <2>2, <2>5, <2>7, <2>8, GoesKeepsInv
<1> QED BY <1>6, <1>7

(* The bytes of two sequences, one behind the other *)
LEMMA Joined ==
    ASSUME NEW s \in Seq(Nat), NEW t \in Seq(Nat)
    PROVE  /\ s \o t \in Seq(Nat) /\ Len(s \o t) = Len(s) + Len(t)
           /\ \A i \in 1 .. Len(s) + Len(t) : (s \o t)[i] = IF i <= Len(s) THEN s[i] ELSE t[i - Len(s)]
OBVIOUS

(* send() puts m bytes behind those that wait. *)
Bytes(acc, m) == [i \in 1 .. m |-> acc + i]

LEMMA BytesAre ==
    ASSUME NEW acc \in Nat, NEW m \in Nat
    PROVE  /\ Bytes(acc, m) \in Seq(Nat) /\ Len(Bytes(acc, m)) = m
           /\ \A i \in 1 .. m : Bytes(acc, m)[i] = acc + i
<1>1. Bytes(acc, m) \in Seq(Nat) /\ Len(Bytes(acc, m)) = m
    BY DEF Bytes
<1>2. \A i \in 1 .. m : Bytes(acc, m)[i] = acc + i
    BY DEF Bytes
<1> QED BY <1>1, <1>2

(* Put behind what the buffer holds, they are at their places. *)
LEMMA Accepts ==
    ASSUME NEW c, NEW acc \in Nat, NEW n, Side(c, acc, n), NEW m \in Nat, Len(c.sndbuf) + m <= SndMax,
           NEW d, DOMAIN d = Fields,
           d.sndseq = c.sndseq, d.rcvack = c.rcvack, d.maxrcvack = c.maxrcvack, d.sndwnd = c.sndwnd,
           d.cwnd = c.cwnd, d.ssthresh = c.ssthresh, d.sndbuf = c.sndbuf \o Bytes(acc, m)
    PROVE  /\ Side(d, acc + m, n) /\ Flight(d) = Flight(c) /\ Reach(d) = Reach(c)
           /\ Len(d.sndbuf) = Len(c.sndbuf) + m
<1> DEFINE more == Bytes(acc, m)
<1>1. Sender(c) /\ c.sndbuf \in Seq(Nat) /\ Len(c.sndbuf) \in Nat /\ c.rcvack \in Seqs
    BY DEF Side, Sender
<1>2. more \in Seq(Nat) /\ Len(more) = m /\ \A i \in 1 .. m : more[i] = acc + i
    BY BytesAre
<1>3. d.sndbuf = c.sndbuf \o more
    OBVIOUS
<1> HIDE DEF more
<1>4. /\ d.sndbuf \in Seq(Nat) /\ Len(d.sndbuf) = Len(c.sndbuf) + m
      /\ \A i \in 1 .. Len(c.sndbuf) + m :
             d.sndbuf[i] = IF i <= Len(c.sndbuf) THEN c.sndbuf[i] ELSE more[i - Len(c.sndbuf)]
    <2> DEFINE s == c.sndbuf
    <2>1. s \in Seq(Nat) /\ more \in Seq(Nat)
        BY <1>1, <1>2
    <2> HIDE DEF s
    <2>2. /\ s \o more \in Seq(Nat) /\ Len(s \o more) = Len(s) + Len(more)
          /\ \A i \in 1 .. Len(s) + Len(more) : (s \o more)[i] = IF i <= Len(s) THEN s[i] ELSE more[i - Len(s)]
        BY <2>1, Joined, Zenon
    <2> QED BY <1>2, <1>3, <2>2, Zenon DEF s
<1>5. Flight(d) = Flight(c) /\ Reach(d) = Reach(c) /\ Flight(c) \in Nat /\ Reach(c) \in Nat
      /\ Flight(c) <= Len(c.sndbuf) /\ Reach(c) <= Len(c.sndbuf)
    <2>1. Flight(d) = Flight(c) /\ Reach(d) = Reach(c)
        BY DEF Flight, Reach
    <2>2. Flight(c) \in Nat /\ Reach(c) \in Nat
        BY <1>1, SizesAreNumbers, SMT
    <2> QED BY <2>1, <2>2, <1>1 DEF Sender
<1>6. Sender(d)
    <2>1. Flight(d) <= Len(d.sndbuf) /\ Reach(d) <= Len(d.sndbuf) /\ Len(d.sndbuf) <= SndMax
        BY <1>1, <1>4, <1>5, SMT
    <2> QED BY <2>1, <1>1, <1>4, Zenon DEF Sender
<1> DEFINE A == Rank(c.rcvack)
<1>7. /\ A \in Nat /\ A >= 1 /\ A <= n + 1 /\ n + 1 <= A + Reach(c) /\ A + Len(c.sndbuf) = acc + 1
      /\ \A i \in 1 .. Len(c.sndbuf) : c.sndbuf[i] = A - 1 + i
    <2>1. A \in Nat
        <3>1. A \in Seqs
            BY <1>1, Ranks
        <3> QED BY <3>1, Small, SMT DEF Seqs
    <2> QED BY <2>1 DEF Side
<1>8. Rank(d.rcvack) = A
    OBVIOUS
<1> HIDE DEF A
<1>9. A + Len(d.sndbuf) = (acc + m) + 1
    <2> DEFINE x == Len(c.sndbuf)
               y == Len(d.sndbuf)
    <2>1. A \in Nat /\ A + x = acc + 1 /\ x \in Nat /\ y = x + m
        BY <1>1, <1>4, <1>7
    <2> HIDE DEF x, y
    <2>2. A + y = (acc + m) + 1
        BY <2>1, SMT
    <2> QED BY <2>2 DEF y
<1>10. ASSUME NEW i \in 1 .. Len(d.sndbuf) PROVE d.sndbuf[i] = A - 1 + i
    <2>1. i \in 1 .. Len(c.sndbuf) + m
        BY <1>4
    <2>2. CASE i <= Len(c.sndbuf)
        <3>1. i \in 1 .. Len(c.sndbuf)
            BY <2>1, <2>2, <1>1, SMT
        <3> QED BY <3>1, <2>1, <2>2, <1>4, <1>7
    <2>3. CASE ~(i <= Len(c.sndbuf))
        <3>1. i - Len(c.sndbuf) \in 1 .. m
            BY <2>1, <2>3, <1>1, SMT
        <3>2. d.sndbuf[i] = acc + (i - Len(c.sndbuf))
            BY <3>1, <2>1, <2>3, <1>2, <1>4
        <3> DEFINE x == Len(c.sndbuf)
        <3>3. A + x = acc + 1 /\ A \in Nat /\ x \in Nat /\ i \in Int
            BY <1>1, <1>7, <2>1
        <3> HIDE DEF x
        <3>4. acc + (i - x) = A - 1 + i
            BY <3>3, SMT
        <3> QED BY <3>2, <3>4 DEF x
    <2> QED BY <2>2, <2>3
<1>11. Side(d, acc + m, n)
    BY <1>5, <1>6, <1>7, <1>8, <1>9, <1>10, Zenon DEF Side
<1> QED BY <1>4, <1>5, <1>11

(* send() puts bytes in the buffer and sends what may go. *)
LEMMA SndKeepsInv == ASSUME IInv, snd PROVE IInv'
<1>1. Connected(b) /\ UNCHANGED <<toBoard, delivered>> /\ DOMAIN b = Fields /\ b.sent = {}
    BY DEF snd, server, IInv, Board
<1>2. Working
    <2>1. b # Fresh /\ ~Waiting(b) /\ b.state # "CLOSED"
        BY <1>1, SMT DEF Connected, Fresh, Waiting
    <2> QED BY <2>1 DEF IInv, Board
<1>3. Sender(b) /\ Running(b) /\ Chained(b) /\ Side(b, accepted, Len(delivered)) /\ Len(b.sndbuf) \in 0 .. SndMax
    BY <1>2, SizesAreNumbers DEF Working, Running
<1>4. accepted \in Nat /\ accepted <= OutLen /\ OutLen \in Nat /\ Len(delivered) \in Nat
    <2>1. accepted \in 0 .. OutLen /\ OutLen \in Nat /\ delivered \in Seq(Nat)
        BY TcpAssumption DEF IInv, Numbers
    <2> QED BY <2>1, SMT
<1> DEFINE C(m) == [b EXCEPT !.sndbuf = @ \o Bytes(accepted, m), !.flags = @ \cup {"INSND"}]
           M(n, memory) == IF memory THEN Least(n, SndMax - Len(b.sndbuf)) ELSE 0
           Push(c, sends) == [Pushed([c EXCEPT !.memory = sends])[SndMax] EXCEPT !.flags = @ \ {"INSND"}]
           Sending(c, m) == /\ accepted' = accepted + m
                            /\ \/ SndMax = Len(b.sndbuf) /\ UNCHANGED <<b, toServer>>
                               \/ SndMax # Len(b.sndbuf) /\ m = 0 /\ b' = c /\ UNCHANGED toServer
                               \/ m > 0 /\ c.sndwnd = 0 /\ Leaves(On(c, "persist"))
                               \/ m > 0 /\ c.sndwnd > 0 /\ \E sends \in Memory : Leaves(Push(c, sends))
<1>5. PICK n \in 1 .. OutLen - accepted, memory \in Memory : Sending(C(M(n, memory)), M(n, memory))
    BY <1>1, Zenon DEF snd, Bytes
<1> DEFINE m == M(n, memory)
           c == C(m)
           more == Bytes(accepted, m)
<1>6. m \in Nat /\ accepted + m <= OutLen /\ Len(b.sndbuf) + m <= SndMax /\ (SndMax = Len(b.sndbuf) => m = 0)
    <2>1. n \in Nat /\ accepted + n <= OutLen /\ n >= 1
        BY <1>4, SMT
    <2>2. SndMax \in Nat
        BY Small
    <2>3. m = 0 \/ m = Least(n, SndMax - Len(b.sndbuf))
        OBVIOUS
    <2> HIDE DEF M
    <2> QED BY <2>1, <2>2, <2>3, <1>3, <1>4, SMT DEF Least
<1>7. Sending(c, m)
    BY <1>5
<1>8. /\ DOMAIN c = Fields /\ c.sndseq = b.sndseq /\ c.rcvack = b.rcvack /\ c.maxrcvack = b.maxrcvack
      /\ c.sndwnd = b.sndwnd /\ c.cwnd = b.cwnd /\ c.ssthresh = b.ssthresh
      /\ c.sndbuf = b.sndbuf \o more
      /\ c.state = b.state /\ c.chain = b.chain /\ c.sent = b.sent /\ c.timers = b.timers
    <2> HIDE DEF M
    <2> QED BY <1>1, SMT DEF Fields
<1> HIDE DEF M, C
<1>9. accepted' = accepted + m /\ accepted' \in accepted .. OutLen
    <2>1. accepted' = accepted + m
        BY <1>7
    <2> QED BY <2>1, <1>4, <1>6, SMT
<1>10. /\ Side(c, accepted', Len(delivered)) /\ Flight(c) = Flight(b) /\ Reach(c) = Reach(b)
       /\ Len(c.sndbuf) = Len(b.sndbuf) + m
    <2> HIDE DEF c, m
    <2>1. /\ Side(c, accepted + m, Len(delivered)) /\ Flight(c) = Flight(b) /\ Reach(c) = Reach(b)
          /\ Len(c.sndbuf) = Len(b.sndbuf) + m
        <3>1. Side(b, accepted, Len(delivered)) /\ accepted \in Nat /\ m \in Nat /\ Len(b.sndbuf) + m <= SndMax
            BY <1>3, <1>4, <1>6
        <3>2. /\ DOMAIN c = Fields /\ c.sndseq = b.sndseq /\ c.rcvack = b.rcvack /\ c.maxrcvack = b.maxrcvack
              /\ c.sndwnd = b.sndwnd /\ c.cwnd = b.cwnd /\ c.ssthresh = b.ssthresh
              /\ c.sndbuf = b.sndbuf \o Bytes(accepted, m)
            BY <1>8
        <3> QED BY <3>1, <3>2, Accepts, ZenonT(40)
    <2> QED BY <2>1, <1>9
<1> HIDE DEF c, m
<1>11. Sender(c) /\ c.rcvack \in Seqs /\ Flight(c) <= c.sndwnd /\ (Flight(c) # 0 => "retransmission" \in c.timers)
    <2>1. Flight(b) <= b.sndwnd /\ (Flight(b) # 0 => "retransmission" \in b.timers)
        BY <1>3 DEF Running
    <2> QED BY <2>1, <1>8, <1>10 DEF Side, Sender
<1>12. ASSUME NEW d, Leaves(d), Goes(c, d), Connected(d), Running(d), Chained(d) PROVE IInv'
    <2>1. Passes(c, d, c.rcvack) /\ getsize(c.rcvack, c.rcvack) <= Reach(c)
        BY <1>11, <1>12, GoesPasses, SameAcks, SizesAreNumbers, SMT
    <2>2. Rank(c.rcvack) <= Len(delivered) + 1
        BY <1>10 DEF Side
    <2>3. c.sent = {} /\ Rank(c.rcvack) = Rank(b.rcvack)
        BY <1>1, <1>8
    <2> QED BY <1>1, <1>2, <1>9, <1>10, <1>11, <1>12, <2>1, <2>2, <2>3, PassesKeepsInv
<1>13. ASSUME m = 0, b' = b \/ b' = c, UNCHANGED toServer PROVE IInv'
    <2>1. accepted' = accepted /\ SameSender(b, c)
        <3>1. more = <<>>
            BY <1>13 DEF Bytes
        <3> HIDE DEF more
        <3>2. b.sndbuf \o <<>> = b.sndbuf
            BY <1>3 DEF Sender
        <3> QED BY <3>1, <3>2, <1>4, <1>8, <1>9, <1>13, SMT DEF SameSender
    <2>2. Running(c)
        <3>1. Goes(b, c) /\ Flight(c) = Flight(b) /\ SameSent(b, c)
            BY <2>1, <1>3, <1>8, SameGoes DEF SameSent
        <3> QED BY <3>1, <1>3, RunningOn
    <2>3. Connected(c) /\ Chained(c)
        BY <1>1, <1>3, <1>8 DEF Connected, Chained
    <2>4. Side(c, accepted, Len(delivered))
        BY <2>1, <1>10
    <2>5. \A s \in toServer : WasSent(s, c)
        BY <1>2, <1>8, <1>10, Zenon DEF Working, WasSent
    <2>6. /\ Connected(b') /\ Running(b') /\ Chained(b') /\ Side(b', accepted, Len(delivered))
          /\ \A s \in toServer : WasSent(s, b')
        <3>1. CASE b' = b
            BY <3>1, <1>2 DEF Working
        <3>2. CASE b' = c
            BY <3>2, <2>2, <2>3, <2>4, <2>5
        <3> QED BY <3>1, <3>2, <1>13
    <2>7. Working'
        BY <2>1, <2>6, <1>1, <1>13 DEF Working
    <2>8. DOMAIN b' = Fields /\ b'.sent = {}
        BY <1>1, <1>8, <1>13
    <2> QED BY <2>1, <2>7, <2>8, <1>1, <1>13 DEF IInv, Board, Numbers, Network
<1>14. ASSUME m > 0, c.sndwnd = 0, Leaves(On(c, "persist")) PROVE IInv'
    <2> DEFINE d == On(c, "persist")
    <2>1. /\ SameSender(c, d) /\ d.sent = c.sent /\ d.state = c.state /\ d.chain = c.chain
          /\ d.timers = c.timers \cup {"persist"}
        <3>1. DOMAIN c = Fields
            BY <1>8
        <3> QED BY <3>1, SMT DEF Fields, On, SameSender
    <2> HIDE DEF d
    <2>2. Goes(c, d) /\ Flight(d) = Flight(c) /\ d.sndbuf = c.sndbuf /\ d.sndwnd = c.sndwnd
        BY <2>1, <1>11, SameGoes DEF SameSender
    <2>3. c.sndbuf # <<>>
        <3>1. Len(c.sndbuf) # 0
            BY <1>3, <1>6, <1>10, <1>14, SMT
        <3> QED BY <3>1
    <2>4. Running(d)
        BY <2>1, <2>2, <2>3, <1>11 DEF Running, Goes
    <2>5. Connected(d) /\ Chained(d)
        BY <1>1, <1>3, <1>8, <2>1 DEF Connected, Chained
    <2> QED BY <2>2, <2>4, <2>5, <1>12, <1>14 DEF d
<1>15. ASSUME m > 0, c.sndwnd > 0, NEW sends \in Memory, Leaves(Push(c, sends)) PROVE IInv'
    <2> DEFINE e == [c EXCEPT !.memory = sends]
               p == Pushed(e)[SndMax]
               d == Push(c, sends)
    <2>1. /\ Sender(e) /\ Flight(e) = Flight(c) /\ Goes(c, e) /\ Fills(e, p, FALSE)
          /\ e.sndwnd = c.sndwnd /\ e.rcvack = c.rcvack /\ e.timers = c.timers /\ e.state = c.state /\ e.chain = c.chain
        <3>1. /\ SameSender(c, e) /\ e.sent = c.sent /\ e.timers = c.timers /\ e.state = c.state /\ e.chain = c.chain
            BY <1>8, SMT DEF Fields, SameSender
        <3> HIDE DEF e
        <3>2. Sender(e) /\ Flight(e) = Flight(c) /\ Goes(c, e)
            BY <3>1, <1>11, SameGoes DEF Goes
        <3>3. e.rcvack \in Seqs /\ e.sndwnd = c.sndwnd /\ e.rcvack = c.rcvack
            BY <3>1, <1>11 DEF SameSender
        <3>4. Flight(e) <= e.sndwnd /\ (Flight(e) # 0 => "retransmission" \in e.timers)
            BY <3>1, <3>2, <3>3, <1>11
        <3> QED BY <3>1, <3>2, <3>3, <3>4, PushedFills
    <2> HIDE DEF e
    <2>2. /\ Sends(e, p) /\ Flight(p) <= p.sndwnd
          /\ (Flight(e) # 0 => "retransmission" \in e.timers) => (Flight(p) # 0 => "retransmission" \in p.timers)
          /\ Flight(p) = 0 /\ p.sndbuf # <<>> /\ p.sndwnd # 0 => "persist" \in p.timers
        BY <2>1, Zenon DEF Fills
    <2>3. /\ SameSender(p, d) /\ d.sent = p.sent /\ d.state = p.state /\ d.chain = p.chain /\ d.timers = p.timers
        <3>1. DOMAIN p = Fields
            BY <2>2 DEF Sends, Sender
        <3> HIDE DEF p
        <3>2. d = [p EXCEPT !.flags = @ \ {"INSND"}]
            BY DEF p, e
        <3> QED BY <3>1, <3>2, SMT DEF Fields, SameSender
    <2> HIDE DEF p, d, Push
    <2>4. Goes(c, p) /\ Sender(p) /\ p.state = c.state /\ p.chain = c.chain
        <3>1. Goes(e, p) /\ Sender(p) /\ p.state = e.state /\ p.chain = e.chain
            BY <2>2, SendsGoes DEF Sends, SameReceiver
        <3> QED BY <3>1, <2>1, <1>11, GoesOn
    <2>5. Goes(p, d) /\ Flight(d) = Flight(p) /\ Goes(c, d)
        <3>1. Goes(p, d) /\ Flight(d) = Flight(p)
            BY <2>3, <2>4, SameGoes
        <3> QED BY <3>1, <2>4, <1>11, GoesOn
    <2>6. d.sndbuf = p.sndbuf /\ d.sndwnd = p.sndwnd /\ d.sndwnd # 0
        <3>1. d.sndwnd = c.sndwnd
            BY <2>5 DEF Goes
        <3>2. c.sndwnd # 0
            BY <1>15, SMT
        <3> QED BY <3>1, <3>2, <2>3 DEF SameSender
    <2>7. Running(d)
        BY <2>1, <2>2, <2>3, <2>5, <2>6, <1>11 DEF Running, Goes
    <2>8. Connected(d) /\ Chained(d)
        BY <1>1, <1>3, <1>8, <2>3, <2>4 DEF Connected, Chained
    <2>9. Leaves(d)
        BY <1>15 DEF d
    <2> QED BY <2>5, <2>7, <2>8, <2>9, <1>12
<1>16. \/ SndMax = Len(b.sndbuf) /\ UNCHANGED <<b, toServer>>
       \/ SndMax # Len(b.sndbuf) /\ m = 0 /\ b' = c /\ UNCHANGED toServer
       \/ m > 0 /\ c.sndwnd = 0 /\ Leaves(On(c, "persist"))
       \/ m > 0 /\ c.sndwnd > 0 /\ \E sends \in Memory : Leaves(Push(c, sends))
    BY <1>7
<1> HIDE DEF Push
<1>17. CASE SndMax = Len(b.sndbuf) /\ UNCHANGED <<b, toServer>>
    BY <1>6, <1>13, <1>17
<1>18. CASE m = 0 /\ b' = c /\ UNCHANGED toServer
    BY <1>13, <1>18
<1> QED BY <1>14, <1>15, <1>16, <1>17, <1>18, Zenon

(* send() takes what there is room for, and only that. *)
LEMMA SndAccepts == ASSUME IInv, snd PROVE accepted' \in Nat /\ accepted' >= accepted
<1>1. PICK n \in 1 .. OutLen - accepted, memory \in Memory :
          accepted' = accepted + IF memory THEN Least(n, SndMax - Len(b.sndbuf)) ELSE 0
    BY Zenon DEF snd
<1>2. accepted \in Nat /\ n \in Nat
    <2>1. accepted \in 0 .. OutLen /\ OutLen \in Nat
        BY TcpAssumption DEF IInv, Numbers
    <2> QED BY <2>1, SMT
<1>3. SndMax - Len(b.sndbuf) \in Nat
    <2>1. Working
        <3>1. Connected(b)
            BY Zenon DEF snd
        <3>2. b # Fresh /\ ~Waiting(b) /\ b.state # "CLOSED"
            BY <3>1, SMT DEF Connected, Fresh, Waiting
        <3> QED BY <3>2, Zenon DEF IInv, Board
    <2>2. Len(b.sndbuf) \in 0 .. SndMax
        BY <2>1, SizesAreNumbers DEF Working, Running
    <2>3. SndMax \in Nat
        BY Small
    <2> QED BY <2>2, <2>3, SMT
<1>4. Least(n, SndMax - Len(b.sndbuf)) \in Nat
    BY <1>2, <1>3 DEF Least
<1> QED BY <1>1, <1>2, <1>4, SMT

(* The answer to the SYN acknowledges it: the first byte comes next. *)
LEMMA OpeningKeepsInv ==
    ASSUME IInv, Nothing, NEW c, DOMAIN c = Fields, Waiting(c), c.sent = {}, NEW s, Sane(s),
           s.ack = c.sndseq, UNCHANGED <<accepted, toBoard, delivered>>,
           Leaves([sendack(Answering(c, s)) EXCEPT !.state = "ESTABLISHED"])
    PROVE  IInv'
<1> DEFINE a == Answering(c, s)
           e == sendack(a)
           d == [e EXCEPT !.state = "ESTABLISHED"]
           first == Wrap(BoardISN + 1)
<1>1. /\ DOMAIN a = Fields /\ a.sndseq = c.sndseq /\ a.rcvack = s.ack /\ a.maxrcvack = c.maxrcvack
      /\ a.sndbuf = c.sndbuf /\ a.sndwnd = s.wnd /\ a.cwnd = SndMss /\ a.ssthresh = c.ssthresh
      /\ a.chain = c.chain /\ a.sent = c.sent
      /\ a.timers = (c.timers \ {"retransmission", "connection"}) \cup {"keepalive"}
    BY SMT DEF Fields, Answering, SetWindow
<1>2. /\ c.sndseq = first /\ c.maxrcvack = first /\ s.ack = first /\ c.sndbuf = <<>> /\ c.chain = <<>>
      /\ c.ssthresh \in Nat /\ "persist" \notin a.timers /\ s.wnd \in Nat
    BY <1>1 DEF Waiting, Sane
<1>3. first \in Seqs /\ Rank(first) = 1 /\ getsize(first, first) = 0
    BY RankOfFirst
<1> HIDE DEF a, first
<1>4. Running(a)
    <2>1. Flight(a) = 0 /\ Reach(a) = 0 /\ a.sndbuf = <<>> /\ Len(<<>>) = 0
        BY <1>1, <1>2, <1>3 DEF Flight, Reach
    <2>2. Sender(a)
        <3>1. SndMss \in Nat /\ SndMss >= SndMss /\ 0 <= SndMax /\ 0 <= Len(<<>>) /\ Len(<<>>) <= SndMax /\ <<>> \in Seq(Nat)
            BY Small, SMT
        <3> QED BY <3>1, <2>1, <1>1, <1>2, <1>3, Zenon DEF Sender
    <2>3. 0 <= a.sndwnd
        BY <1>1, <1>2
    <2> QED BY <1>2, <2>1, <2>2, <2>3, Zenon DEF Running
<1>5. Goes(a, e) /\ Running(e) /\ e.chain = <<>>
    BY <1>1, <1>2, <1>4, SendackRuns
<1>6. Sender(a) /\ Sender(e) /\ DOMAIN e = Fields
    BY <1>4, <1>5 DEF Running, Sender
<1> HIDE DEF e
<1>7. SameSender(e, d) /\ d.sent = e.sent /\ d.chain = e.chain /\ d.timers = e.timers /\ d.state = "ESTABLISHED"
    BY <1>6, SMT DEF Fields, SameSender
<1> HIDE DEF d
<1>8. Goes(e, d) /\ Flight(d) = Flight(e)
    BY <1>6, <1>7, SameGoes
<1>9. Goes(a, d)
    BY <1>5, <1>6, <1>8, GoesOn
<1>10. Running(d) /\ Connected(d) /\ Chained(d)
    <2>1. SameSent(e, d)
        BY <1>7 DEF SameSent
    <2>2. d.chain \in Seq({})
        BY <1>5, <1>7
    <2> QED BY <2>1, <2>2, <1>5, <1>7, <1>8, RunningOn DEF Connected, Chained
<1>11. accepted = 0 /\ delivered = <<>> /\ Len(delivered) = 0 /\ \A x \in toServer : x.data = <<>>
    BY DEF Nothing
<1>12. Side(d, 0, 0)
    <2>1. Sender(d) /\ d.rcvack = first /\ d.sndbuf = <<>>
        BY <1>1, <1>2, <1>9 DEF Goes
    <2>2. Rank(d.rcvack) = 1 /\ Reach(d) \in Nat /\ Len(d.sndbuf) = 0
        BY <2>1, <1>3, SizesAreNumbers, SMT
    <2>3. 0 + 1 <= 1 + Reach(d)
        BY <2>2, SMT
    <2> QED BY <2>1, <2>2, <2>3 DEF Side
<1>13. ASSUME NEW x \in d.sent PROVE Carries(x, 0, 0) /\ WasSent(x, d)
    <2>1. Piece(x, d)
        BY <1>1, <1>9 DEF Goes
    <2>2. 0 \in 0 .. OutLen
        BY TcpAssumption, SMT
    <2> QED BY <2>1, <2>2, <1>12, PieceCarries
<1>14. \A x \in toServer \cup d.sent : WasSent(x, d)
    BY <1>11, <1>13 DEF WasSent
<1>15. accepted' \in accepted .. OutLen /\ accepted' = 0
    <2>1. accepted' = 0 /\ OutLen \in Nat
        BY <1>11, TcpAssumption
    <2> QED BY <2>1, <1>11, SMT
<1>16. Leaves(d) /\ DOMAIN d = Fields
    <2>1. DOMAIN d = Fields
        BY <1>7 DEF SameSender
    <2> QED BY <2>1 DEF d, e, a
<1> QED BY <1>10, <1>11, <1>12, <1>13, <1>14, <1>15, <1>16, CallKeepsInv

(* A segment that arrives, to open the connection or on it *)
LEMMA InputKeepsInv == ASSUME IInv, NEW s \in toBoard, input(s) PROVE IInv'
<1> DEFINE C(m) == [b EXCEPT !.memory = m]
<1>1. PICK memory \in Memory, push \in BOOLEAN : Leaves(inputsk(C(memory), s, push))
    BY Zenon DEF input
<1> DEFINE c == C(memory)
           d == inputsk(c, s, push)
<1>2. /\ UNCHANGED <<accepted, toBoard, delivered>> /\ b.state # "IDLE" /\ b.state # "CLOSED"
      /\ DOMAIN b = Fields /\ b.sent = {}
    BY DEF input, server, IInv, Board
<1>3. Working \/ (Waiting(b) /\ Nothing)
    <2>1. b # Fresh
        BY <1>2, SMT DEF Fresh
    <2> QED BY <1>2, <2>1 DEF IInv, Board
<1>4. Sane(s) /\ s.ack \in Seqs /\ Rank(s.ack) <= Len(delivered) + 1
    BY DEF IInv, Network, Sane
<1>5. /\ SameSender(b, c) /\ c.sent = b.sent /\ c.state = b.state /\ c.chain = b.chain /\ c.timers = b.timers
    BY <1>2, SMT DEF Fields, SameSender
<1>6. Leaves(d)
    BY <1>1
<1> HIDE DEF C, c
<1>7. DOMAIN c = Fields /\ c.sent = {}
    BY <1>2, <1>5 DEF SameSender
<1>8. CASE Waiting(b) /\ Nothing
    <2> DEFINE o == [sendack(Answering(c, s)) EXCEPT !.state = "ESTABLISHED"]
    <2>1. Waiting(c) /\ c.state = "SYN_SENT"
        BY <1>5, <1>8 DEF Waiting, SameSender
    <2>2. d = IF {"RST", "ACK"} \subseteq s.flags THEN closesk(c)
              ELSE IF {"SYN", "ACK"} \subseteq s.flags /\ s.ack = c.sndseq THEN o ELSE c
        BY <2>1, Zenon DEF inputsk, Opening
    <2> HIDE DEF d
    <2>3. CASE d = closesk(c)
        <3>1. Closed(c, d)
            BY <2>3, <1>7, CloseskCloses
        <3>2. Closed(b, d)
            BY <3>1, <1>5 DEF Closed
        <3> QED BY <3>2, <1>2, <1>6, ClosedKeepsInv
    <2>4. CASE d = o /\ s.ack = c.sndseq
        <3>1. Leaves(o)
            BY <2>4, <1>6
        <3> HIDE DEF o
        <3> QED BY <3>1, <2>1, <2>4, <1>2, <1>4, <1>7, <1>8, OpeningKeepsInv DEF o
    <2>5. CASE d = c
        BY <2>1, <2>5, <1>2, <1>6, <1>7, <1>8, WaitingKeepsInv
    <2> QED BY <2>2, <2>3, <2>4, <2>5
<1>9. CASE Working
    <2>1. Sender(b) /\ Running(b) /\ Connected(b) /\ Chained(b) /\ Side(b, accepted, Len(delivered))
        BY <1>9 DEF Working, Running
    <2>2. Goes(b, c) /\ Flight(c) = Flight(b) /\ Sender(c) /\ Reach(c) = Reach(b) /\ SameSent(b, c)
        BY <2>1, <1>5, SameGoes, SameIsSender DEF SameSent
    <2>3. Running(c) /\ Connected(c) /\ Chained(c)
        BY <2>1, <2>2, <1>5, RunningOn DEF Connected, Chained
    <2>4. c.rcvack = b.rcvack /\ c.sndbuf = b.sndbuf /\ c.rcvack \in Seqs
        BY <1>5, <2>2 DEF SameSender, Sender
    <2>5. Side(c, accepted, Len(delivered))
        BY <2>1, <2>2, <2>4, Zenon DEF Side
    <2>6. Outcome(c, d, s.ack)
        BY <2>3, <1>4, InputskOutcome
    <2> HIDE DEF d
    <2>7. CASE Closed(c, d)
        <3>1. Closed(b, d)
            BY <2>7, <1>5 DEF Closed
        <3> QED BY <3>1, <1>2, <1>6, ClosedKeepsInv
    <2>8. CASE ~Closed(c, d)
        <3>1. /\ Running(d) /\ Connected(d) /\ Chained(d)
              /\ \E ack \in {s.ack, c.rcvack} :
                     ack \in Seqs /\ getsize(c.rcvack, ack) <= Reach(c) /\ Passes(c, d, ack)
            BY <2>6, <2>8 DEF Outcome
        <3>2. PICK ack \in {s.ack, c.rcvack} :
                     ack \in Seqs /\ getsize(c.rcvack, ack) <= Reach(c) /\ Passes(c, d, ack)
            BY <3>1
        <3>3. Rank(ack) <= Len(delivered) + 1
            BY <3>2, <1>4, <2>5 DEF Side
        <3>4. accepted' \in accepted .. OutLen /\ accepted' = accepted
            <4>1. accepted \in 0 .. OutLen /\ accepted' = accepted
                BY <1>2 DEF IInv, Numbers
            <4> QED BY <4>1, SMT
        <3>5. Side(c, accepted', Len(delivered)) /\ Rank(c.rcvack) = Rank(b.rcvack)
            BY <2>4, <2>5, <3>4
        <3> QED BY <3>1, <3>2, <3>3, <3>4, <3>5, <2>2, <1>2, <1>6, <1>7, <1>9, PassesKeepsInv
    <2> QED BY <2>7, <2>8
<1> QED BY <1>3, <1>8, <1>9

(* Every segment of the server acknowledges what it has. *)
LEMMA ServerSendsKeepsInv == ASSUME IInv, ServerSends PROVE IInv'
<1>1. PICK s, seq, data, flags, wnd : wnd \in Nat /\ ToBoard(s) /\ s = Reply(seq, data, flags, wnd)
    <2>1. Windows \subseteq Nat /\ 0 \in Nat
        BY TcpAssumption
    <2>2. \E seq, data, flags : \E wnd \in Windows \cup {0} : ToBoard(Reply(seq, data, flags, wnd))
        BY Zenon DEF ServerSends
    <2> QED BY <2>1, <2>2
<1>2. /\ UNCHANGED <<b, toServer, accepted, delivered>> /\ toBoard' \in Carried(toBoard, {s})
    BY <1>1 DEF ToBoard, server
<1>3. \A x \in toBoard' : x \in toBoard \/ x = s
    BY <1>2 DEF Carried
<1>4. Sane(s) /\ Rank(s.ack) \in 1 .. Len(delivered) + 1
    <2> DEFINE n == 1 + Len(delivered)
    <2>1. n \in Nat /\ n \in 0 .. OutLen + 1 /\ Len(delivered) \in Nat /\ BoardISN + 1 + Len(delivered) = BoardISN + n
        <3>1. /\ Len(delivered) \in Nat /\ Len(delivered) <= accepted /\ accepted \in 0 .. OutLen /\ OutLen \in Nat
              /\ BoardISN \in Seqs
            BY TcpAssumption DEF IInv, Numbers, Seqs
        <3> QED BY <3>1, SMT DEF Seqs
    <2>2. DOMAIN s = SegmentFields /\ s.wnd = wnd /\ s.ack = Wrap(BoardISN + 1 + Len(delivered))
        BY <1>1, SMT DEF Reply, SegmentFields
    <2>3. s.ack \in Seqs /\ Rank(s.ack) = n
        <3> HIDE DEF n
        <3> QED BY <2>1, <2>2, Ranks
    <2>4. n \in 1 .. Len(delivered) + 1
        BY <2>1, SMT
    <2> QED BY <1>1, <2>2, <2>3, <2>4 DEF Sane
<1>5. Network'
    BY <1>2, <1>3, <1>4 DEF IInv, Network
<1>6. Numbers' /\ Board'
    BY <1>2 DEF IInv, Numbers, Board, Nothing, Working
<1> QED BY <1>5, <1>6 DEF IInv

(* A distance is the difference of two others. *)
LEMMA Apart ==
    ASSUME NEW x \in Seqs, NEW y \in Seqs, NEW z \in Seqs
    PROVE  getsize(y, z) = IF getsize(x, y) <= getsize(x, z) THEN getsize(x, z) - getsize(x, y)
                           ELSE SeqSpace - getsize(x, y) + getsize(x, z)
BY Small, SMT DEF Seqs, getsize

(* The server takes of a segment what continues what it has, at its place. *)
LEMMA ExtendedContinues ==
    ASSUME Numbers, NEW s, Carries(s, accepted, Len(delivered))
    PROVE  \E n \in Nat :
               /\ Extended(s) = delivered \o Bytes(Len(delivered), n)
               /\ Len(delivered) + n <= accepted
               /\ n # 0 => s.data # <<>> /\ Rank(s.seq) + Len(s.data) = Len(delivered) + n + 1
<1> DEFINE L == Len(delivered)
           next == Wrap(BoardISN + 1 + Len(delivered))
           have == getsize(s.seq, next)
           r == Rank(s.seq)
           z == Len(s.data)
<1>1. /\ L \in Nat /\ accepted \in Nat /\ L <= accepted /\ accepted <= OutLen /\ OutLen \in Nat
      /\ OutLen + 1 < SeqSpace /\ SeqSpace \in Nat /\ BoardISN \in Seqs
    <2>1. accepted \in 0 .. OutLen /\ L \in Nat /\ L <= accepted
        BY DEF Numbers
    <2>2. OutLen \in Nat /\ OutLen + 1 < SeqSpace /\ SeqSpace \in Nat /\ BoardISN \in Seqs
        BY TcpAssumption DEF Seqs
    <2> HIDE DEF L
    <2> QED BY <2>1, <2>2, SMT
<1>2. s.seq \in Seqs /\ s.data \in Seq(Nat) /\ z \in Nat /\ delivered \in Seq(Nat)
    BY DEF Carries, Numbers
<1>3. r \in Seqs /\ r \in Nat /\ r < SeqSpace
    <2>1. r \in Seqs
        BY <1>2, Ranks
    <2> HIDE DEF r
    <2> QED BY <2>1, Small, SMT DEF Seqs
<1>4. next \in Seqs /\ Rank(next) = L + 1
    <2>1. L + 1 \in 0 .. OutLen + 1 /\ BoardISN + 1 + L = BoardISN + (L + 1)
        <3> HIDE DEF L
        <3> QED BY <1>1, SMT DEF Seqs
    <2> QED BY <2>1, Ranks
<1>5. have = IF r <= L + 1 THEN L + 1 - r ELSE SeqSpace - r + (L + 1)
    <2>1. getsize(BoardISN, s.seq) = r /\ getsize(BoardISN, next) = L + 1
        BY <1>4 DEF Rank
    <2>2. BoardISN \in Seqs /\ s.seq \in Seqs /\ next \in Seqs /\ SeqSpace \in Nat
        BY <1>1, <1>2, <1>4
    <2> HIDE DEF next, r, L
    <2>3. have = IF getsize(BoardISN, s.seq) <= getsize(BoardISN, next)
                 THEN getsize(BoardISN, next) - getsize(BoardISN, s.seq)
                 ELSE SeqSpace - getsize(BoardISN, s.seq) + getsize(BoardISN, next)
        BY <2>2, Apart, Zenon
    <2> DEFINE p == getsize(BoardISN, s.seq)
               q == getsize(BoardISN, next)
    <2>4. p = r /\ q = L + 1 /\ have = IF p <= q THEN q - p ELSE SeqSpace - p + q
        BY <2>1, <2>3
    <2> HIDE DEF p, q, have
    <2> QED BY <2>4, <1>1, <1>3, SMT
<1>6. Extended(s) = IF have < z THEN delivered \o Drop(s.data, have) ELSE delivered
    BY DEF Extended
<1>7. delivered \o Bytes(L, 0) = delivered
    <2>1. Bytes(L, 0) = <<>>
        BY DEF Bytes
    <2> QED BY <2>1, <1>2
<1> HIDE DEF L, next, have, r, z
<1>8. CASE ~(have < z)
    <2>1. Extended(s) = delivered \o Bytes(L, 0) /\ 0 \in Nat /\ L + 0 <= accepted
        BY <1>1, <1>6, <1>7, <1>8
    <2> QED BY <2>1 DEF L
<1>9. CASE have < z
    <2>1. s.data # <<>>
        <3>1. z > 0
            BY <1>1, <1>2, <1>3, <1>5, <1>9, SMT
        <3> QED BY <3>1 DEF z
    <2>2. ~(r + z <= L + 1)
        BY <1>1, <1>2, <1>3, <1>5, <1>9, SMT
    <2>3. Right(s, accepted)
        BY <2>1, <2>2 DEF Carries, Old, r, z, L
    <2>4. r >= 1 /\ r + z <= accepted + 1 /\ \A i \in 1 .. z : s.data[i] = r - 1 + i
        BY <2>3 DEF Right, r, z
    <2>5. r <= L + 1 /\ have = L + 1 - r
        BY <1>1, <1>2, <1>3, <1>5, <1>9, <2>4, SMT
    <2> DEFINE n == z - have
    <2>6. n \in Nat /\ L + n <= accepted /\ r + z = L + n + 1 /\ have \in Nat /\ have <= z
        BY <1>1, <1>2, <1>3, <1>9, <2>4, <2>5, SMT
    <2>7. Drop(s.data, have) = Bytes(L, n)
        <3>1. /\ Drop(s.data, have) \in Seq(Nat) /\ Len(Drop(s.data, have)) = n
              /\ \A i \in 1 .. n : Drop(s.data, have)[i] = s.data[have + i]
            <4>1. have <= Len(s.data)
                BY <2>6 DEF z
            <4> QED BY <1>2, <2>6, <4>1, DropSome DEF z
        <3>2. Bytes(L, n) \in Seq(Nat) /\ Len(Bytes(L, n)) = n /\ \A i \in 1 .. n : Bytes(L, n)[i] = L + i
            BY <1>1, <2>6, BytesAre
        <3>3. ASSUME NEW i \in 1 .. n PROVE Drop(s.data, have)[i] = Bytes(L, n)[i]
            <4>1. have + i \in 1 .. z
                BY <1>2, <2>6, SMT
            <4>2. s.data[have + i] = r - 1 + (have + i)
                BY <4>1, <2>4
            <4>3. r - 1 + (have + i) = L + i
                BY <1>1, <1>3, <2>5, <2>6, SMT
            <4> QED BY <3>1, <3>2, <4>2, <4>3
        <3> HIDE DEF n
        <3> QED BY <3>1, <3>2, <3>3, SeqEqual
    <2>8. Extended(s) = delivered \o Bytes(L, n)
        BY <1>6, <1>9, <2>7
    <2> HIDE DEF n
    <2> QED BY <2>1, <2>6, <2>8 DEF L, r, z
<1> QED BY <1>8, <1>9

(* The server has more, and had it from what was sent. *)
LEMMA DeliveredKeepsInv ==
    ASSUME IInv, NEW s \in toServer, delivered' = Extended(s), UNCHANGED <<b, toServer, toBoard, accepted>>
    PROVE  IInv'
<1> DEFINE L == Len(delivered)
<1>1. PICK n \in Nat :
          /\ Extended(s) = delivered \o Bytes(L, n)
          /\ L + n <= accepted
          /\ n # 0 => s.data # <<>> /\ Rank(s.seq) + Len(s.data) = L + n + 1
    BY ExtendedContinues DEF IInv, Network
<1>2. L \in Nat /\ delivered \in Seq(Nat) /\ \A i \in 1 .. L : delivered[i] = i
    BY DEF IInv, Numbers
<1>3. Bytes(L, n) \in Seq(Nat) /\ Len(Bytes(L, n)) = n /\ \A i \in 1 .. n : Bytes(L, n)[i] = L + i
    <2> HIDE DEF L
    <2> QED BY <1>1, <1>2, BytesAre
<1>4. /\ delivered' \in Seq(Nat) /\ Len(delivered') = L + n
      /\ \A i \in 1 .. L + n : delivered'[i] = IF i <= L THEN delivered[i] ELSE Bytes(L, n)[i - L]
    <2> DEFINE t == Bytes(L, n)
    <2>1. t \in Seq(Nat) /\ Len(t) = n /\ delivered' = delivered \o t
        BY <1>1, <1>3
    <2> HIDE DEF t
    <2>2. /\ delivered \o t \in Seq(Nat) /\ Len(delivered \o t) = L + Len(t)
          /\ \A i \in 1 .. L + Len(t) : (delivered \o t)[i] = IF i <= L THEN delivered[i] ELSE t[i - L]
        BY <1>2, <2>1, Joined, Zenon
    <2> QED BY <2>1, <2>2, Zenon DEF t
<1> HIDE DEF L
<1>5. ASSUME NEW i \in 1 .. Len(delivered') PROVE delivered'[i] = i
    <2>1. i \in 1 .. L + n
        BY <1>4
    <2>2. CASE i <= L
        <3>1. i \in 1 .. L
            BY <1>2, <2>1, <2>2, SMT
        <3> QED BY <3>1, <2>1, <2>2, <1>2, <1>4
    <2>3. CASE ~(i <= L)
        <3>1. i - L \in 1 .. n /\ L + (i - L) = i
            BY <1>1, <1>2, <2>1, <2>3, SMT
        <3> QED BY <3>1, <2>1, <2>3, <1>3, <1>4
    <2> QED BY <2>2, <2>3
<1>6. Numbers'
    BY <1>1, <1>4, <1>5 DEF IInv, Numbers
<1>7. Network'
    <2>1. ASSUME NEW x \in toServer PROVE Carries(x, accepted, L + n)
        <3>1. Carries(x, accepted, L)
            BY DEF IInv, Network, L
        <3>2. Old(x, L) => Old(x, L + n)
            <4>1. x.seq \in Seqs /\ x.data \in Seq(Nat) /\ Len(x.data) \in Nat
                BY <3>1 DEF Carries
            <4>2. Rank(x.seq) \in Nat
                <5>1. Rank(x.seq) \in Seqs
                    BY <4>1, Ranks
                <5> QED BY <5>1, Small, SMT DEF Seqs
            <4> QED BY <1>2, <4>1, <4>2, SMT DEF Old
        <3> QED BY <3>1, <3>2 DEF Carries
    <2>2. ASSUME NEW x \in toBoard PROVE Rank(x.ack) \in 1 .. (L + n) + 1
        <3>1. Rank(x.ack) \in 1 .. L + 1
            BY DEF IInv, Network, L
        <3> QED BY <3>1, <1>2, SMT
    <2> QED BY <2>1, <2>2, <1>4 DEF IInv, Network
<1>8. Nothing => Nothing'
    <2>1. Nothing => delivered' = delivered
        <3>1. Nothing => n = 0
            BY <1>1 DEF Nothing
        <3>2. Bytes(L, 0) = <<>>
            BY DEF Bytes
        <3> QED BY <3>1, <3>2, <1>1, <1>2
    <2> QED BY <2>1 DEF Nothing
<1>9. Working => Working'
    <2> SUFFICES ASSUME Working PROVE Working'
        OBVIOUS
    <2> DEFINE A == Rank(b.rcvack)
               R == Reach(b)
    <2>1. Side(b, accepted, L) /\ WasSent(s, b) /\ Sender(b)
        BY DEF Working, Side, L
    <2>2. A <= L + 1 /\ L + 1 <= A + R /\ A >= 1
        BY <2>1 DEF Side
    <2>3. n # 0 => L + n + 1 <= A + R
        BY <2>1, <1>1 DEF WasSent
    <2>4. A \in Nat /\ R \in Nat
        <3>1. A \in Seqs /\ R \in 0 .. SndMax
            BY <2>1, Ranks, SizesAreNumbers DEF Sender
        <3> HIDE DEF A, R
        <3> QED BY <3>1, Small, SMT DEF Seqs
    <2>5. A <= (L + n) + 1 /\ (L + n) + 1 <= A + R
        <3> HIDE DEF A, R
        <3> QED BY <2>2, <2>3, <2>4, <1>2, SMT
    <2>6. Side(b, accepted, L + n)
        BY <2>1, <2>5, Zenon DEF Side
    <2> QED BY <2>6, <1>4 DEF Working
<1> QED BY <1>6, <1>7, <1>8, <1>9 DEF IInv, Board

LEMMA ServerReceivesKeepsInv == ASSUME IInv, NEW s \in toServer, ServerReceives(s) PROVE IInv'
<1>1. UNCHANGED <<b, toServer, toBoard, accepted>> /\ (delivered' = delivered \/ delivered' = Extended(s))
    BY DEF ServerReceives, server
<1>2. CASE delivered' = Extended(s)
    BY <1>1, <1>2, DeliveredKeepsInv
<1>3. CASE delivered' = delivered
    BY <1>1, <1>3 DEF IInv, Numbers, Network, Board, Nothing, Working
<1> QED BY <1>1, <1>2, <1>3
-----------------------------------------------------------------------------
(* It holds at the start. *)
LEMMA TcpInitInv == Init => IInv
<1> SUFFICES ASSUME Init PROVE IInv
    OBVIOUS
<1>1. /\ b = Fresh /\ toServer = {} /\ toBoard = {} /\ accepted = 0 /\ delivered = <<>>
    BY DEF Init
<1>2. DOMAIN Fresh = Fields /\ Fresh.sent = {}
    BY SMT DEF Fresh, Fields
<1>3. Len(delivered) = 0 /\ OutLen \in Nat
    BY <1>1, TcpAssumption
<1>4. Numbers
    <2>1. accepted \in 0 .. OutLen /\ Len(delivered) <= accepted
        BY <1>1, <1>3, SMT
    <2>2. \A i \in 1 .. Len(delivered) : delivered[i] = i
        BY <1>3, SMT
    <2> QED BY <1>1, <2>1, <2>2 DEF Numbers
<1>5. Network
    BY <1>1 DEF Network
<1>6. Board
    BY <1>1, <1>2 DEF Board, Nothing
<1> QED BY <1>4, <1>5, <1>6 DEF IInv

(* Every step keeps the invariant, *)
LEMMA TcpNextInv == IInv /\ [Next]_vars => IInv'
<1> SUFFICES ASSUME IInv, [Next]_vars PROVE IInv'
    OBVIOUS
<1>1. CASE connect \/ snd \/ rcv \/ close
    BY <1>1, ConnectKeepsInv, SndKeepsInv, RcvKeepsInv, CloseKeepsInv
<1>2. CASE rtimeo \/ ktimeo \/ ptimeo \/ delayed_ack \/ abort
    BY <1>2, RtimeoKeepsInv, KtimeoKeepsInv, PtimeoKeepsInv, DelayedAckKeepsInv, AbortKeepsInv
<1>3. CASE \E s \in toBoard : input(s)
    BY <1>3, InputKeepsInv
<1>4. CASE ServerSends
    BY <1>4, ServerSendsKeepsInv
<1>5. CASE \E s \in toServer : ServerReceives(s)
    BY <1>5, ServerReceivesKeepsInv
<1>6. CASE UNCHANGED vars
    BY <1>6 DEF vars, server, IInv, Numbers, Network, Board, Nothing, Working
<1> QED BY <1>1, <1>2, <1>3, <1>4, <1>5, <1>6 DEF Next

(* so that it always holds. *)
LEMMA TcpInv == Spec => []IInv
<1>1. Init => IInv
    BY TcpInitInv
<1>2. IInv /\ [Next]_vars => IInv'
    BY TcpNextInv
<1> QED BY <1>1, <1>2, PTL DEF Spec

(* A socket that is connected is one that works. *)
LEMMA ConnectedWorks == ASSUME IInv, Connected(b) PROVE Working
<1>1. b # Fresh /\ ~Waiting(b) /\ b.state # "CLOSED"
    BY SMT DEF Connected, Fresh, Waiting
<1> QED BY <1>1 DEF IInv, Board

(* Never more is under way than the window that the server offered last,   *)
(* nor than the send buffer holds (fnet_tcp_sendanydata, fnet_tcp.c).      *)
THEOREM TcpWindowRespected == Spec => []WindowRespected
<1>1. IInv => WindowRespected
    <2> SUFFICES ASSUME IInv, Connected(b) PROVE Flight(b) <= b.sndwnd /\ Flight(b) <= Len(b.sndbuf)
        BY DEF WindowRespected
    <2> QED BY ConnectedWorks DEF Working, Running, Sender
<1> QED BY <1>1, TcpInv, PTL

(* Data that was not acknowledged has a timer that sends it again, or that *)
(* sends it at all: the connection does not come to rest with it.          *)
THEOREM TcpNeverStuck == Spec => []NeverStuck
<1>1. IInv => NeverStuck
    <2> SUFFICES ASSUME IInv, Connected(b), b.sndbuf # <<>>
                 PROVE  b.timers \cap {"retransmission", "persist"} # {}
        BY DEF NeverStuck
    <2> QED BY ConnectedWorks DEF Working, Running
<1> QED BY <1>1, TcpInv, PTL

(* What the server acknowledges next is something the board has sent and   *)
(* still waits for: fnet_tcp_inputsk takes it as an acknowledgment.        *)
THEOREM TcpAcksAreAcceptable == Spec => []AcksAreAcceptable
<1>1. IInv => AcksAreAcceptable
    <2> SUFFICES ASSUME IInv, Connected(b) PROVE hit(b.rcvack, b.maxrcvack, ServerAck)
        BY DEF AcksAreAcceptable
    <2> DEFINE L == Len(delivered)
               A == Rank(b.rcvack)
               R == Reach(b)
               g == getsize(b.rcvack, ServerAck)
    <2>1. Side(b, accepted, L) /\ Sender(b) /\ b.rcvack \in Seqs /\ b.maxrcvack \in Seqs
        BY ConnectedWorks DEF Working, Side, Sender
    <2>2. A <= L + 1 /\ L + 1 <= A + R
        BY <2>1 DEF Side
    <2>3. ServerAck \in Seqs /\ Rank(ServerAck) = L + 1
        <3>1. L + 1 \in 0 .. OutLen + 1 /\ BoardISN + 1 + L = BoardISN + (L + 1)
            <4>1. L \in Nat /\ L <= accepted /\ accepted \in 0 .. OutLen /\ OutLen \in Nat /\ BoardISN \in Seqs
                BY TcpAssumption DEF IInv, Numbers, Seqs
            <4> HIDE DEF L
            <4> QED BY <4>1, SMT DEF Seqs
        <3> QED BY <3>1, Ranks DEF ServerAck
    <2>4. A \in Nat /\ R \in Nat /\ BoardISN \in Seqs /\ L \in Nat
        <3>1. A \in Seqs /\ R \in 0 .. SndMax /\ L \in Nat
            BY <2>1, Ranks, SizesAreNumbers DEF IInv, Numbers
        <3> HIDE DEF A, R, L
        <3> QED BY <3>1, TcpAssumption, Small, SMT DEF Seqs
    <2>5. g = (L + 1) - A
        <3>1. getsize(BoardISN, b.rcvack) <= getsize(BoardISN, ServerAck)
            BY <2>2, <2>3 DEF Rank
        <3>2. g = getsize(BoardISN, ServerAck) - getsize(BoardISN, b.rcvack)
            BY <3>1, <2>1, <2>3, <2>4, Between
        <3> HIDE DEF g, A, L
        <3> QED BY <3>2, <2>3 DEF Rank, A
    <2>6. g <= R
        <3> HIDE DEF g, A, R, L
        <3> QED BY <2>2, <2>4, <2>5, SMT
    <2> QED BY <2>1, <2>3, <2>6, HitIsInterval DEF Reach
<1> QED BY <1>1, TcpInv, PTL

(* What send() accepts is a stream to the server: its bytes arrive in      *)
(* order, each once, whatever is lost, doubled, overtaken or sent again.   *)
THEOREM TcpOutgoingIsStream == Spec => OutgoingIsStream
<1> DEFINE ovars == <<accepted, delivered, FALSE>>
<1>1. Init => Outgoing!Init
    BY DEF Init, Outgoing!Init
<1>2. IInv /\ [Next]_vars => [Outgoing!Next]_ovars
    <2> SUFFICES ASSUME IInv, [Next]_vars PROVE [Outgoing!Next]_ovars
        OBVIOUS
    <2>1. CASE snd
        <3>1. accepted \in 0 .. OutLen /\ OutLen \in Nat /\ UNCHANGED delivered
            BY <2>1, TcpAssumption, Zenon DEF IInv, Numbers, snd, server
        <3>2. accepted' \in Nat /\ accepted' >= accepted
            BY <2>1, <3>1, SndAccepts
        <3>3. [Outgoing!Write]_ovars
            BY <3>1, <3>2 DEF Outgoing!Write
        <3> QED BY <3>3 DEF Outgoing!Next
    <2>2. ASSUME NEW s \in toServer, ServerReceives(s) PROVE [Outgoing!Next]_ovars
        <3>1. accepted' = accepted /\ (delivered' = delivered \/ delivered' = Extended(s))
            BY <2>2 DEF ServerReceives, server
        <3>2. CASE delivered' = delivered
            BY <3>1, <3>2
        <3>3. CASE delivered' = Extended(s)
            <4>1. PICK n \in Nat :
                      Extended(s) = delivered \o Bytes(Len(delivered), n) /\ Len(delivered) + n <= accepted
                BY ExtendedContinues DEF IInv, Network
            <4>2. CASE n = 0
                <5>1. Bytes(Len(delivered), 0) = <<>> /\ delivered \in Seq(Nat)
                    BY DEF Bytes, IInv, Numbers
                <5>2. delivered' = delivered
                    BY <3>3, <4>1, <4>2, <5>1
                <5> QED BY <3>1, <5>2
            <4>3. CASE n # 0
                <5>1. n \in 1 .. accepted - Len(delivered)
                    <6>1. Len(delivered) \in Nat /\ accepted \in 0 .. OutLen
                        BY DEF IInv, Numbers
                    <6> QED BY <6>1, <4>1, <4>3, SMT
                <5>2. delivered' = delivered \o [i \in 1 .. n |-> Len(delivered) + i]
                    BY <3>3, <4>1 DEF Bytes
                <5> QED BY <3>1, <5>1, <5>2, Zenon DEF Outgoing!Next, Outgoing!Read
            <4> QED BY <4>2, <4>3
        <3> QED BY <3>1, <3>2, <3>3
    <2>3. CASE connect \/ rcv \/ close \/ rtimeo \/ ktimeo \/ ptimeo \/ delayed_ack \/ abort
        <3>1. UNCHANGED <<accepted, delivered>>
            BY <2>3 DEF connect, rcv, close, rtimeo, ktimeo, ptimeo, delayed_ack, abort, RunsOut, server
        <3> QED BY <3>1
    <2>4. CASE (\E s \in toBoard : input(s)) \/ ServerSends
        <3>1. UNCHANGED <<accepted, delivered>>
            BY <2>4 DEF input, ServerSends, ToBoard, server
        <3> QED BY <3>1
    <2>5. CASE UNCHANGED vars
        BY <2>5 DEF vars, server
    <2> QED BY <2>1, <2>2, <2>3, <2>4, <2>5 DEF Next
<1> QED BY <1>1, <1>2, TcpInv, PTL DEF Spec, OutgoingIsStream, Outgoing!Spec

-----------------------------------------------------------------------------
(* What a stream is to its reader *)

LEMMA ReadKeepsOrder ==
    ASSUME NEW r \in Seq(Nat), \A i \in 1 .. Len(r) : r[i] = i, NEW n \in Nat
    PROVE  LET s == r \o [i \in 1 .. n |-> Len(r) + i]
           IN  s \in Seq(Nat) /\ Len(s) = Len(r) + n /\ \A i \in 1 .. Len(s) : s[i] = i
<1> DEFINE more == [i \in 1 .. n |-> Len(r) + i]
           s == r \o more
<1>1. Len(r) \in Nat
    OBVIOUS
<1>2. more \in Seq(Nat) /\ Len(more) = n /\ \A i \in 1 .. n : more[i] = Len(r) + i
    BY <1>1
<1> HIDE DEF more
<1>3. /\ s \in Seq(Nat) /\ Len(s) = Len(r) + n
      /\ \A i \in 1 .. Len(r) + n : s[i] = IF i <= Len(r) THEN r[i] ELSE more[i - Len(r)]
    BY <1>2, ConcatProperties
<1> HIDE DEF s
<1>4. ASSUME NEW i \in 1 .. Len(s) PROVE s[i] = i
    <2>1. i \in 1 .. Len(r) + n
        BY <1>3
    <2>2. CASE i <= Len(r)
        <3>1. i \in 1 .. Len(r)
            BY <1>1, <2>1, <2>2
        <3> QED BY <1>3, <2>1, <2>2, <3>1
    <2>3. CASE ~(i <= Len(r))
        <3>1. i - Len(r) \in 1 .. n /\ Len(r) + (i - Len(r)) = i
            BY <1>1, <2>1, <2>3
        <3> QED BY <1>2, <1>3, <2>1, <2>3, <3>1
    <2> QED BY <2>2, <2>3
<1> QED BY <1>3, <1>4 DEF s, more

(* Whoever reads from a stream has its first bytes, each once and in       *)
(* order, and all of them when told that no more will come.                *)
LEMMA IncomingInOrder == IncomingIsStream => []Incoming!InOrder
<1> DEFINE J == InLen \in Nat /\ got \in Seq(Nat) /\ told \in BOOLEAN /\ Incoming!InOrder
<1>1. Incoming!Init => J
    <2> SUFFICES ASSUME Incoming!Init PROVE J
        OBVIOUS
    <2>1. InLen \in Nat /\ told = FALSE /\ got = <<>>
        BY Zenon DEF Incoming!Init
    <2>2. got \in Seq(Nat) /\ Len(got) = 0
        BY <2>1, EmptySeq
    <2>3. Len(got) <= InLen /\ \A i \in 1 .. Len(got) : got[i] = i
        BY <2>1, <2>2
    <2>4. told \in BOOLEAN /\ ~told
        BY <2>1, Zenon
    <2> QED BY <2>1, <2>2, <2>3, <2>4, Zenon DEF Incoming!InOrder
<1>2. J /\ [Incoming!Next]_<<InLen, got, told>> => J'
    <2> SUFFICES ASSUME J, [Incoming!Next]_<<InLen, got, told>> PROVE J'
        OBVIOUS
    <2>0. /\ InLen \in Nat /\ got \in Seq(Nat) /\ told \in BOOLEAN
          /\ Len(got) <= InLen /\ (\A i \in 1 .. Len(got) : got[i] = i) /\ (told => Len(got) = InLen)
        BY DEF Incoming!InOrder
    <2>1. CASE UNCHANGED <<InLen, got, told>>
        BY <2>0, <2>1 DEF Incoming!InOrder
    <2>2. CASE ~told /\ Incoming!Write
        BY <2>0, <2>2 DEF Incoming!Write, Incoming!InOrder
    <2>3. CASE ~told /\ Incoming!Read
        <3>1. PICK n \in 1 .. InLen - Len(got) : got' = got \o [i \in 1 .. n |-> Len(got) + i]
            BY <2>3 DEF Incoming!Read
        <3>2. n \in Nat /\ n <= InLen - Len(got)
            BY <2>0
        <3>3. got' \in Seq(Nat) /\ Len(got') = Len(got) + n /\ \A i \in 1 .. Len(got') : got'[i] = i
            BY <2>0, <3>1, <3>2, ReadKeepsOrder
        <3>4. InLen' = InLen /\ told' = told
            BY <2>3 DEF Incoming!Read
        <3> QED BY <2>0, <2>3, <3>2, <3>3, <3>4 DEF Incoming!InOrder
    <2>4. CASE ~told /\ Incoming!End
        BY <2>0, <2>4 DEF Incoming!End, Incoming!InOrder
    <2>5. CASE ~told /\ Incoming!ReadAndEnd
        <3>1. InLen - Len(got) \in Nat
            BY <2>0
        <3>2. /\ got' = got \o [i \in 1 .. InLen - Len(got) |-> Len(got) + i]
              /\ told' = TRUE /\ InLen' = InLen
            BY <2>5 DEF Incoming!ReadAndEnd
        <3>3. /\ got' \in Seq(Nat) /\ Len(got') = Len(got) + (InLen - Len(got))
              /\ \A i \in 1 .. Len(got') : got'[i] = i
            BY <2>0, <3>1, <3>2, ReadKeepsOrder
        <3> QED BY <2>0, <3>1, <3>2, <3>3 DEF Incoming!InOrder
    <2> QED BY <2>1, <2>2, <2>3, <2>4, <2>5 DEF Incoming!Next
<1> QED BY <1>1, <1>2, PTL DEF IncomingIsStream, Incoming!Spec

(* What the server has at any time is the beginning of what send() took.   *)
THEOREM TcpOutgoingInOrder == Spec => []Outgoing!InOrder
<1> DEFINE ovars == <<accepted, delivered, FALSE>>
           J == accepted \in Nat /\ delivered \in Seq(Nat) /\ Outgoing!InOrder
<1>1. Outgoing!Init => J
    <2> SUFFICES ASSUME Outgoing!Init PROVE J
        OBVIOUS
    <2>1. accepted \in Nat /\ delivered = <<>>
        BY DEF Outgoing!Init
    <2>2. delivered \in Seq(Nat) /\ Len(delivered) = 0
        BY <2>1, EmptySeq
    <2> QED BY <2>1, <2>2 DEF Outgoing!InOrder
<1>2. J /\ [Outgoing!Next]_ovars => J'
    <2> SUFFICES ASSUME J, [Outgoing!Next]_ovars PROVE J'
        OBVIOUS
    <2>0. /\ accepted \in Nat /\ delivered \in Seq(Nat)
          /\ Len(delivered) <= accepted /\ (\A i \in 1 .. Len(delivered) : delivered[i] = i)
        BY DEF Outgoing!InOrder
    <2>1. CASE UNCHANGED ovars
        BY <2>0, <2>1 DEF Outgoing!InOrder
    <2>2. CASE Outgoing!Write
        BY <2>0, <2>2 DEF Outgoing!Write, Outgoing!InOrder
    <2>3. CASE Outgoing!Read
        <3>1. PICK n \in 1 .. accepted - Len(delivered) :
                  delivered' = delivered \o [i \in 1 .. n |-> Len(delivered) + i]
            BY <2>3 DEF Outgoing!Read
        <3>2. n \in Nat /\ n <= accepted - Len(delivered)
            BY <2>0
        <3>3. /\ delivered' \in Seq(Nat) /\ Len(delivered') = Len(delivered) + n
              /\ \A i \in 1 .. Len(delivered') : delivered'[i] = i
            BY <2>0, <3>1, <3>2, ReadKeepsOrder
        <3>4. accepted' = accepted
            BY <2>3 DEF Outgoing!Read
        <3> QED BY <2>0, <3>2, <3>3, <3>4 DEF Outgoing!InOrder
    <2>4. ~Outgoing!End /\ ~Outgoing!ReadAndEnd
        BY DEF Outgoing!End, Outgoing!ReadAndEnd
    <2> QED BY <2>1, <2>2, <2>3, <2>4 DEF Outgoing!Next
<1> QED BY <1>1, <1>2, TcpOutgoingIsStream, PTL DEF OutgoingIsStream, Outgoing!Spec
-----------------------------------------------------------------------------
(* Receiving.  Two things are kept by every function: the types, and what  *)
(* makes the stream right.  The second needs that the server sends less    *)
(* than what FNET_TCP_COMP_G tells apart: in this model an old segment may *)
(* arrive at any time.                                                     *)

States == {"IDLE", "SYN_SENT", "ESTABLISHED", "CLOSE_WAIT", "CLOSED"}
Timers == {"abort", "keepalive", "connection", "retransmission", "persist", "delayed_ack"}
Flags  == {"FIN_RCVD", "SEND_TIMEOUT", "INSND"}
Bits   == {"SYN", "ACK", "FIN", "RST"}
Data   == Seq(0 .. Most(OutLen, InLen))

OutSegments == [seq : Seqs, ack : Seqs, wnd : Nat, data : Data, flags : SUBSET Bits]
InSegments  == [seq : Seqs, ack : Seqs, wnd : Nat, data : Seq(1 .. InLen), flags : SUBSET Bits]

Typed(c) ==
    /\ DOMAIN c = Fields /\ c.state \in States
    /\ c.sndseq \in Seqs /\ c.rcvack \in Seqs /\ c.maxrcvack \in Seqs /\ c.sndack \in Seqs
    /\ c.sndwnd \in Nat /\ c.maxwnd \in Nat /\ c.cwnd \in Nat /\ c.ssthresh \in Nat /\ c.pcount \in Nat
    /\ c.rcvwnd \in Nat /\ c.newfree \in Nat /\ c.repeats \in 0 .. 4 /\ c.count \in Int
    /\ c.sndbuf \in Seq(1 .. OutLen) /\ Len(c.sndbuf) <= SndMax /\ c.rcvbuf \in Seq(1 .. InLen)
    /\ c.chain \in Seq(InSegments) /\ c.timers \subseteq Timers /\ c.flags \subseteq Flags /\ c.sent \subseteq OutSegments

(* How far x is from the server's first number.  n bytes were read.        *)
From(x)     == getsize(ServerISN, x)
FinSeen(c)  == IF "FIN_RCVD" \in c.flags THEN 1 ELSE 0
Taken(c, n) == n + Len(c.rcvbuf) + FinSeen(c)

(* s is a piece of the server's bytes, and its FIN, if any, ends them. *)
Sound(s) ==
    /\ From(s.seq) \in 1 .. InLen + 2 /\ s.flags \subseteq {"ACK", "FIN"}
    /\ \A i \in 1 .. Len(s.data) : s.data[i] = From(s.seq) - 1 + i
    /\ s.data # <<>> => From(s.seq) + Len(s.data) <= InLen + 1
    /\ "FIN" \in s.flags => From(s.seq) + Len(s.data) = InLen + 1 /\ InLen <= edge

(* and brings something. *)
Brings(s) == Sound(s) /\ (s.data # <<>> \/ "FIN" \in s.flags)

(* A window up to m is kept open. *)
Opens(c, n, m) == m \in Int /\ m <= Taken(c, n) + c.rcvwnd /\ m <= Taken(c, n) + FreeRoom(c)

(* All that the server sends, its SYN and its FIN lie within the eighth of *)
(* the sequence space that FNET_TCP_COMP_G tells apart.                    *)
Short == InLen + 2 <= SeqSpace \div 8

(* n bytes were read: what is in the buffer continues them, the sequence   *)
(* number awaited is behind both, what waits out of order is the server's, *)
(* and every window announced is still open, the one the server knows too. *)
Receiver(c, n) ==
    /\ Short /\ Connected(c) /\ c.rcvwnd <= RcvMax
    /\ (c.state = "CLOSE_WAIT" <=> "FIN_RCVD" \in c.flags) /\ (told => "FIN_RCVD" \in c.flags)
    /\ n + Len(c.rcvbuf) <= InLen /\ ("FIN_RCVD" \in c.flags => n + Len(c.rcvbuf) = InLen)
    /\ \A i \in 1 .. Len(c.rcvbuf) : c.rcvbuf[i] = n + i
    /\ From(c.sndack) = Taken(c, n) + 1
    /\ \A i \in 1 .. Len(c.chain) : Brings(c.chain[i])
    /\ Opens(c, n, edge)
    /\ \A s \in toServer \cup c.sent : s.flags = {"ACK"} => Opens(c, n, Offered(s))

(* What was read leaves a window. *)
Reopens(c) == c.rcvbuf = <<>> => c.rcvwnd > 0

(* c becomes d, and stays a receiver. *)
Keeps(c, d) ==
    /\ Typed(d) /\ (Reopens(c) => Reopens(d))
    /\ \A n \in Nat : Receiver(c, n) => Receiver(d, n)

(* One function after another                                              *)
LEMMA KeepsOn == ASSUME NEW c, NEW d, NEW e, Keeps(c, d), Keeps(d, e) PROVE Keeps(c, e)
BY DEF Keeps

(* A function that changes nothing                                         *)
LEMMA KeepsNothing == ASSUME NEW c, Typed(c) PROVE Keeps(c, c)
BY DEF Keeps

(* The fields that what is right is about *)
SameStream(c, d) ==
    /\ d.state = c.state /\ d.sndack = c.sndack /\ d.rcvwnd = c.rcvwnd /\ d.rcvbuf = c.rcvbuf /\ d.chain = c.chain
    /\ d.sent = c.sent /\ ("FIN_RCVD" \in d.flags <=> "FIN_RCVD" \in c.flags)

(* Whatever leaves those fields alone keeps the receiver.                  *)
LEMMA SameKeeps ==
    ASSUME NEW c, NEW d, Typed(d), SameStream(c, d)
    PROVE  Keeps(c, d)
<1>1. Reopens(c) => Reopens(d)
    BY DEF SameStream, Reopens
<1>2. ASSUME NEW n \in Nat, Receiver(c, n) PROVE Receiver(d, n)
    <2>1. FinSeen(d) = FinSeen(c) /\ FreeRoom(d) = FreeRoom(c)
        BY DEF SameStream, FinSeen, FreeRoom
    <2>2. Taken(d, n) = Taken(c, n)
        BY <2>1 DEF SameStream, Taken
    <2>3. \A m : Opens(c, n, m) <=> Opens(d, n, m)
        BY <2>1, <2>2 DEF SameStream, Opens
    <2> QED BY <1>2, <2>2, <2>3 DEF SameStream, Receiver, Connected
<1> QED BY <1>1, <1>2 DEF Keeps

(* A wrapped number is a sequence number.                                  *)
LEMMA WrapInRange == \A x \in Int : Wrap(x) \in Seqs
<1>1. SeqSpace \in Nat /\ SeqSpace > 0
    BY TcpAssumption, SMT
<1> QED BY <1>1, SMT DEF Wrap, Seqs

(* Sequence numbers are integers (for the provers, which do not look).     *)
LEMMA NumbersAreInts == \A x \in Seqs : x \in Nat /\ x \in Int /\ \A n \in Int : x + n \in Int /\ x - n \in Int
BY Small, SMT DEF Seqs

(* So is the distance between two of them.                                 *)
LEMMA SizeInRange == ASSUME NEW x \in Seqs, NEW y \in Seqs PROVE getsize(x, y) \in Seqs /\ getsize(x, y) \in Nat
BY SizeIsDistance, Small, SMT DEF Seqs

(* Timers are no concern of the receiver.                                  *)
LEMMA TimersKeep ==
    ASSUME NEW c, Typed(c), NEW t \in Timers
    PROVE  Keeps(c, On(c, t)) /\ Keeps(c, Off(c, t))
<1>1. Typed(On(c, t)) /\ SameStream(c, On(c, t))
    BY SMT DEF On, Typed, Fields, SameStream
<1>2. Typed(Off(c, t)) /\ SameStream(c, Off(c, t))
    BY SMT DEF Off, Typed, Fields, SameStream
<1> QED BY <1>1, <1>2, SameKeeps

(* Receive windows are numbers within the buffer. *)
LEMMA WindowOf ==
    ASSUME NEW c, Typed(c)
    PROVE  /\ getrcvwnd(c) \in Nat /\ FreeRoom(c) \in Nat /\ getrcvwnd(c) <= FreeRoom(c)
           /\ getrcvwnd(c) = FreeRoom(c) \/ getrcvwnd(c) = c.rcvwnd
           /\ FreeRoom(c) <= RcvMax
           /\ c.rcvbuf = <<>> => getrcvwnd(c) > 0
<1>1. c.rcvwnd \in Nat /\ Len(c.rcvbuf) \in Nat /\ RcvMax \in Nat \ {0} /\ RcvMss \in Nat \ {0}
    BY Small, SMT DEF Typed
<1>2. c.rcvbuf = <<>> => Len(c.rcvbuf) = 0
    OBVIOUS
<1> QED BY <1>1, <1>2, SMT DEF getrcvwnd, FreeRoom, Least, Most

(* What is taken are small numbers, *)
LEMMA TakenIsSmall ==
    ASSUME NEW c, Typed(c), NEW n \in Nat
    PROVE  /\ Taken(c, n) \in Nat /\ FinSeen(c) \in {0, 1} /\ Len(c.rcvbuf) \in Nat
           /\ Receiver(c, n) => Taken(c, n) <= InLen + 1 /\ Taken(c, n) + 1 + RcvMax < SeqSpace
<1>1. Len(c.rcvbuf) \in Nat /\ FinSeen(c) \in {0, 1}
    BY DEF Typed, FinSeen
<1>2. Taken(c, n) \in Nat
    BY <1>1, SMT DEF Taken
<1>3. ASSUME Receiver(c, n) PROVE Taken(c, n) <= InLen + 1 /\ Taken(c, n) + 1 + RcvMax < SeqSpace
    <2>1. n + Len(c.rcvbuf) <= InLen /\ InLen + 2 <= SeqSpace \div 8 /\ InLen \in Nat
        BY <1>3, TcpAssumption DEF Receiver, Short
    <2> DEFINE e == SeqSpace \div 8
               k == Len(c.rcvbuf)
               f == FinSeen(c)
    <2>2. e \in Nat /\ 8 * e <= SeqSpace /\ RcvMax < e /\ RcvMax \in Nat /\ SeqSpace \in Nat
        BY Eighth
    <2>3. n + k <= InLen /\ InLen + 2 <= e /\ InLen \in Nat /\ k \in Nat /\ f \in {0, 1} /\ Taken(c, n) = n + k + f
        BY <2>1, <1>1 DEF Taken
    <2> HIDE DEF e, k, f
    <2> QED BY <2>2, <2>3, SMT
<1> QED BY <1>1, <1>2, <1>3

(* so that the window that is announced has a last byte. *)
LEMMA AnnouncedIs ==
    ASSUME NEW c, Typed(c), NEW n \in Nat, Receiver(c, n), NEW s, s.ack = c.sndack, s.wnd \in Nat, s.wnd <= RcvMax
    PROVE  Offered(s) = Taken(c, n) + s.wnd
<1>1. From(c.sndack) = Taken(c, n) + 1 /\ c.sndack \in Seqs /\ ServerISN \in Seqs
    BY TcpAssumption DEF Receiver, Typed, Seqs
<1>2. Taken(c, n) \in Nat /\ Taken(c, n) + 1 + RcvMax < SeqSpace /\ RcvMax \in Nat
    BY TakenIsSmall, Small
<1>3. getsize(ServerISN, c.sndack) + s.wnd < SeqSpace
    <2>1. getsize(ServerISN, c.sndack) = Taken(c, n) + 1
        BY <1>1 DEF From
    <2>2. SeqSpace \in Nat /\ s.wnd \in Nat /\ s.wnd <= RcvMax
        BY Small
    <2> QED BY <2>1, <2>2, <1>2, SMT
<1>4. getsize(ServerISN, Wrap(c.sndack + s.wnd)) = Taken(c, n) + 1 + s.wnd
    BY <1>1, <1>2, <1>3, Ahead, SMT DEF From
<1> QED BY <1>2, <1>4, SMT DEF Offered

(* The window is announced, and remembered, by every segment; without      *)
(* memory it is only remembered.                                           *)
Announced(c, d) ==
    /\ d.state = c.state /\ d.sndack = c.sndack /\ d.rcvbuf = c.rcvbuf /\ d.chain = c.chain /\ d.flags = c.flags
    /\ d.rcvwnd = getrcvwnd(c)
    /\ \A s \in d.sent : s \in c.sent \/ (s.flags = {"ACK"} => s.ack = c.sndack /\ s.wnd = getrcvwnd(c))

(* An announced window is kept open, for FreeRoom() is what it was taken   *)
(* from.                                                                   *)
LEMMA AnnouncingKeeps ==
    ASSUME NEW c, Typed(c), NEW d, Typed(d), Announced(c, d)
    PROVE  Keeps(c, d) /\ Reopens(d)
<1> USE DEF Announced
<1>1. Reopens(d)
    BY WindowOf DEF Reopens
<1>2. ASSUME NEW n \in Nat, Receiver(c, n) PROVE Receiver(d, n)
    <2>1. FinSeen(d) = FinSeen(c) /\ FreeRoom(d) = FreeRoom(c) /\ Taken(d, n) = Taken(c, n)
        BY DEF FinSeen, FreeRoom, Taken
    <2>2. \A m : Opens(c, n, m) => Opens(d, n, m)
        BY <2>1, WindowOf DEF Opens
    <2>3. d.rcvwnd <= RcvMax
        BY WindowOf, Small, SMT
    <2>4. ASSUME NEW s \in toServer \cup d.sent, s.flags = {"ACK"} PROVE Opens(d, n, Offered(s))
        <3>1. CASE s \in toServer \cup c.sent
            BY <1>2, <2>2, <2>4, <3>1 DEF Receiver
        <3>2. CASE s \notin toServer \cup c.sent
            <4>1. s.ack = c.sndack /\ s.wnd = getrcvwnd(c)
                BY <2>4, <3>2
            <4>2. Offered(s) = Taken(c, n) + getrcvwnd(c)
                BY <4>1, <1>2, <2>3, WindowOf, AnnouncedIs
            <4>3. Taken(c, n) \in Nat /\ getrcvwnd(c) \in Nat /\ FreeRoom(c) \in Nat /\ getrcvwnd(c) <= FreeRoom(c)
                BY TakenIsSmall, WindowOf
            <4> QED BY <4>2, <4>3, <2>1, SMT DEF Opens
        <3> QED BY <3>1, <3>2
    <2>5. Opens(d, n, edge)
        BY <1>2, <2>2 DEF Receiver
    <2> QED BY <1>2, <2>1, <2>3, <2>4, <2>5 DEF Receiver, Connected
<1> QED BY <1>1, <1>2 DEF Keeps

(* fnet_tcp_sendseg announces the window with every segment.               *)
LEMMA SendsegKeeps ==
    ASSUME NEW c, Typed(c), NEW data \in Data, NEW flags \in SUBSET Bits, NEW n \in Int
    PROVE  LET d == sendseg(c, data, flags, n)
           IN  /\ Keeps(c, d) /\ Reopens(d) /\ Announced(c, d)
               /\ \A s \in d.sent : s \in c.sent \/ s.flags = flags
<1> DEFINE d == sendseg(c, data, flags, n)
           next == Wrap(c.sndseq + n)
           s == [seq |-> c.sndseq, data |-> data, flags |-> flags, wnd |-> getrcvwnd(c),
                 ack |-> IF "ACK" \in flags THEN c.sndack ELSE 0]
           far == Farthest(c, next)
<1>1. next \in Seqs
    <2>1. c.sndseq + n \in Int
        BY NumbersAreInts DEF Typed
    <2> QED BY <2>1, WrapInRange
<1>2. far \in Seqs
    BY <1>1 DEF Farthest, Typed
<1>3. s \in OutSegments /\ s.flags = flags /\ (flags = {"ACK"} => s.ack = c.sndack /\ s.wnd = getrcvwnd(c))
    <2>1. 0 \in Seqs
        BY Small, SMT DEF Seqs
    <2>2. getrcvwnd(c) \in Nat /\ c.sndseq \in Seqs /\ c.sndack \in Seqs
        BY WindowOf DEF Typed
    <2> QED BY <2>1, <2>2, SMT DEF OutSegments
<1>4. d = [Off(c, "delayed_ack") EXCEPT !.sent = @ \cup {s}, !.rcvwnd = getrcvwnd(c), !.newfree = 0,
                                        !.sndseq = next, !.maxrcvack = far]
    BY DEF sendseg
<1> HIDE DEF next, far, s, d
<1>5. d.sent = c.sent \cup {s} /\ Announced(c, d)
    <2>1. /\ d.state = c.state /\ d.sndack = c.sndack /\ d.rcvbuf = c.rcvbuf /\ d.chain = c.chain /\ d.flags = c.flags
          /\ d.rcvwnd = getrcvwnd(c) /\ d.sent = c.sent \cup {s}
        BY <1>4, SMT DEF Typed, Fields, Off
    <2> QED BY <2>1, <1>3 DEF Announced
<1>6. Typed(d)
    <2>1. getrcvwnd(c) \in Nat
        BY WindowOf
    <2> HIDE DEF d
    <2> QED BY <1>1, <1>2, <1>3, <1>4, <2>1, SMT DEF Typed, Fields, Off
<1>7. Keeps(c, d) /\ Reopens(d)
    BY <1>3, <1>5, <1>6, AnnouncingKeeps
<1> QED BY <1>3, <1>5, <1>7 DEF d

(* Any part of a sequence, an empty one among them *)
LEMMA Part ==
    ASSUME NEW T, NEW s \in Seq(T), NEW m \in Int, m >= 1, NEW n \in Int, n <= Len(s)
    PROVE  /\ SubSeq(s, m, n) \in Seq(T)
           /\ Len(SubSeq(s, m, n)) = IF m <= n THEN 1 + n - m ELSE 0
           /\ \A i \in 1 .. 1 + n - m : SubSeq(s, m, n)[i] = s[m + i - 1]
<1>1. Len(s) \in Nat
    OBVIOUS
<1>2. \A i \in m .. n : s[i] \in T
    BY <1>1
<1> QED BY <1>1, <1>2, SubSeqProperties

(* Drop takes the first n away.                                            *)
LEMMA DropIs ==
    ASSUME NEW T, NEW s \in Seq(T), NEW n \in Nat
    PROVE  /\ Drop(s, n) \in Seq(T)
           /\ Len(Drop(s, n)) = IF n <= Len(s) THEN Len(s) - n ELSE 0
           /\ \A i \in 1 .. Len(s) - n : Drop(s, n)[i] = s[n + i]
<1> DEFINE k == n + 1
           l == Len(s)
<1>1. l \in Nat /\ k \in Int /\ k >= 1 /\ l \in Int /\ l <= Len(s)
    BY SMT
<1>2. Drop(s, n) = SubSeq(s, k, l)
    BY DEF Drop
<1> HIDE DEF k, l
<1>3. /\ SubSeq(s, k, l) \in Seq(T) /\ Len(SubSeq(s, k, l)) = IF k <= l THEN 1 + l - k ELSE 0
      /\ \A i \in 1 .. 1 + l - k : SubSeq(s, k, l)[i] = s[k + i - 1]
    BY <1>1, Part
<1>4. Len(SubSeq(s, k, l)) = IF n <= l THEN l - n ELSE 0
    BY <1>1, <1>3, SMT DEF k
<1>5. \A i \in 1 .. l - n : i \in 1 .. 1 + l - k /\ k + i - 1 = n + i
    BY <1>1, SMT DEF k
<1> QED BY <1>2, <1>3, <1>4, <1>5 DEF l

(* The bytes of both ends, and the byte of a keep-alive probe, are data.   *)
LEMMA DataIsAny ==
    /\ \A s \in Seq(1 .. OutLen) : s \in Data
    /\ \A s \in Seq(1 .. InLen) : s \in Data
    /\ <<>> \in Data /\ <<0>> \in Data
<1> DEFINE m == Most(OutLen, InLen)
<1>1. m \in Nat /\ 1 .. OutLen \subseteq 0 .. m /\ 1 .. InLen \subseteq 0 .. m /\ 0 \in 0 .. m
    BY TcpAssumption, SMT DEF Most
<1> HIDE DEF m
<1>2. ASSUME NEW T, NEW U, T \subseteq U, NEW s \in Seq(T) PROVE s \in Seq(U)
    BY <1>2
<1>3. <<>> \in Seq(0 .. m) /\ <<0>> \in Seq(0 .. m)
    BY <1>1
<1> QED BY <1>1, <1>2, <1>3 DEF Data, m

(* An acknowledgment is such a segment.                                    *)
LEMMA SendackKeeps ==
    ASSUME NEW c, Typed(c)
    PROVE  LET d == sendack(c)
           IN  Keeps(c, d) /\ Reopens(d) /\ Announced(c, d)
<1>1. <<>> \in Data /\ {"ACK"} \in SUBSET Bits /\ 0 \in Int
    BY DataIsAny, SMT DEF Bits
<1> QED BY <1>1, SendsegKeeps DEF sendack

(* So is a segment of data, even one for which there is no memory.         *)
LEMMA DatasegKeeps ==
    ASSUME NEW c, Typed(c), NEW size \in Int
    PROVE  Keeps(c, senddataseg(c, size))
<1> DEFINE n == Least(size, Len(c.sndbuf) - Flight(c))
           d == [c EXCEPT !.rcvwnd = getrcvwnd(c), !.sndseq = Wrap(@ + n)]
<1>1. senddataseg(c, size) = IF n > 0 /\ ~c.memory THEN d ELSE sendseg(c, Unsent(c, n), {"ACK"}, n)
    BY DEF senddataseg
<1>2. Len(c.sndbuf) \in Nat /\ Flight(c) \in Nat
    BY SizeInRange DEF Typed, Flight
<1>3. n \in Int /\ Flight(c) + n <= Len(c.sndbuf)
    BY <1>2, SMT DEF Least
<1> HIDE DEF n
<1>4. Keeps(c, d)
    <2>1. Wrap(c.sndseq + n) \in Seqs
        <3>1. c.sndseq + n \in Int
            BY <1>3, NumbersAreInts DEF Typed
        <3> QED BY <3>1, WrapInRange
    <2>2. getrcvwnd(c) \in Nat
        BY WindowOf
    <2>3. Typed(d) /\ d.state = c.state /\ d.sndack = c.sndack /\ d.rcvbuf = c.rcvbuf /\ d.chain = c.chain
          /\ d.flags = c.flags /\ d.rcvwnd = getrcvwnd(c) /\ d.sent = c.sent
        BY <2>1, <2>2, SMT DEF Typed, Fields
    <2> HIDE DEF d
    <2>4. Announced(c, d)
        BY <2>3 DEF Announced
    <2> QED BY <2>3, <2>4, AnnouncingKeeps
<1>5. Keeps(c, sendseg(c, Unsent(c, n), {"ACK"}, n))
    <2>1. Unsent(c, n) \in Seq(1 .. OutLen)
        <3>1. Flight(c) + 1 \in Int /\ Flight(c) + 1 >= 1 /\ Flight(c) + n \in Int
            BY <1>2, <1>3, SMT
        <3>2. c.sndbuf \in Seq(1 .. OutLen)
            BY DEF Typed
        <3> QED BY <3>1, <3>2, <1>3, Part DEF Unsent
    <2>2. Unsent(c, n) \in Data /\ {"ACK"} \in SUBSET Bits
        BY <2>1, DataIsAny DEF Bits
    <2> QED BY <2>2, <1>3, SendsegKeeps
<1> QED BY <1>1, <1>4, <1>5

(* and a burst of whole segments.                                          *)
LEMMA BurstKeeps ==
    ASSUME NEW c, Typed(c), NEW k \in Nat
    PROVE  Keeps(c, Burst(c)[k])
<1> DEFINE D(i) == Burst(c)[i]
           S == {i \in Nat : Keeps(c, D(i))}
<1>1. D(0) = c /\ \A i \in Nat : D(i + 1) = senddataseg(D(i), SndMss)
    BY BurstDef
<1> HIDE DEF D
<1>2. 0 \in S
    BY <1>1, KeepsNothing
<1>3. ASSUME NEW i \in Nat, i \in S PROVE i + 1 \in S
    <2>1. Typed(D(i)) /\ SndMss \in Int
        BY <1>3, Small, SMT DEF Keeps
    <2>2. Keeps(D(i), D(i + 1))
        BY <1>1, <2>1, DatasegKeeps
    <2> QED BY <1>3, <2>2, KeepsOn
<1> HIDE DEF S
<1>4. k \in S
    BY <1>2, <1>3, Induction
<1> QED BY <1>4 DEF S, D

(* A number that is sent again *)
LEMMA SeqKeeps ==
    ASSUME NEW c, Typed(c), NEW x \in Seqs
    PROVE  Keeps(c, [c EXCEPT !.sndseq = x])
<1> DEFINE d == [c EXCEPT !.sndseq = x]
<1>1. Typed(d) /\ SameStream(c, d)
    BY SMT DEF Typed, Fields, SameStream
<1> QED BY <1>1, SameKeeps

(* Of the flags only FIN_RCVD matters to the receiver.                     *)
LEMMA FlagsKeep ==
    ASSUME NEW c, Typed(c), NEW fs, fs \subseteq Flags, "FIN_RCVD" \in fs <=> "FIN_RCVD" \in c.flags
    PROVE  Keeps(c, [c EXCEPT !.flags = fs])
<1> DEFINE d == [c EXCEPT !.flags = fs]
<1>1. Typed(d) /\ SameStream(c, d)
    BY SMT DEF Typed, Fields, SameStream
<1> QED BY <1>1, SameKeeps

(* A send window that shrank only unsends.                                 *)
LEMMA ShrunkKeeps ==
    ASSUME NEW c, Typed(c)
    PROVE  Keeps(c, Shrunk(c))
<1> DEFINE f == c.flags \ {"SEND_TIMEOUT"}
           x == Wrap(c.sndseq - Most(Flight(c) - c.sndwnd, 0))
           d == [c EXCEPT !.flags = f]
<1>1. f \subseteq Flags /\ ("FIN_RCVD" \in f <=> "FIN_RCVD" \in c.flags) /\ DOMAIN c = Fields
    BY DEF Typed
<1>2. x \in Seqs
    <2>1. Flight(c) \in Nat /\ c.sndwnd \in Nat
        BY SizeInRange DEF Typed, Flight
    <2>2. Most(Flight(c) - c.sndwnd, 0) \in Int
        BY <2>1, SMT DEF Most
    <2>3. c.sndseq - Most(Flight(c) - c.sndwnd, 0) \in Int
        BY <2>2, NumbersAreInts DEF Typed
    <2> QED BY <2>3, WrapInRange
<1>3. Shrunk(c) = [d EXCEPT !.sndseq = x]
    BY <1>1, SMT DEF Shrunk, Fields
<1> HIDE DEF f, x
<1>4. Keeps(c, d) /\ Typed(d)
    BY <1>1, FlagsKeep DEF Keeps
<1> HIDE DEF d
<1>5. Keeps(d, [d EXCEPT !.sndseq = x])
    BY <1>2, <1>4, SeqKeeps
<1> QED BY <1>3, <1>4, <1>5, KeepsOn

(* The last, smaller segment                                               *)
LEMMA RemainderKeeps ==
    ASSUME NEW c, Typed(c), NEW rest \in Int, NEW force
    PROVE  Keeps(c, Remainder(c, rest, force))
<1> DEFINE o == On(c, "persist")
           held == [o EXCEPT !.flags = @ \cup {"SEND_TIMEOUT"}]
<1>1. Remainder(c, rest, force) = senddataseg(c, rest) \/ Remainder(c, rest, force) = held \/ Remainder(c, rest, force) = c
    BY DEF Remainder
<1>2. Keeps(c, o) /\ Typed(o)
    <2>1. "persist" \in Timers
        BY DEF Timers
    <2> QED BY <2>1, TimersKeep DEF Keeps
<1> HIDE DEF o
<1>3. Keeps(o, held)
    <2>1. o.flags \cup {"SEND_TIMEOUT"} \subseteq Flags
        BY <1>2 DEF Typed, Flags
    <2> QED BY <2>1, <1>2, FlagsKeep
<1>4. Keeps(c, held)
    BY <1>2, <1>3, KeepsOn
<1> HIDE DEF held
<1> QED BY <1>1, <1>4, DatasegKeeps, KeepsNothing

(* The timers after sending                                                *)
LEMMA TimedKeeps ==
    ASSUME NEW c, NEW d, Typed(d)
    PROVE  Keeps(d, Timed(c, d))
<1>1. "persist" \in Timers /\ "retransmission" \in Timers
    BY DEF Timers
<1>2. Keeps(d, Off(d, "persist")) /\ Typed(Off(d, "persist"))
    BY <1>1, TimersKeep DEF Keeps
<1>3. Keeps(Off(d, "persist"), On(Off(d, "persist"), "retransmission"))
    BY <1>1, <1>2, TimersKeep
<1>4. Keeps(d, On(Off(d, "persist"), "retransmission"))
    BY <1>2, <1>3, KeepsOn
<1> QED BY <1>4, KeepsNothing DEF Timed

(* What fnet_tcp_sendanydata sends,                                        *)
LEMMA SentKeeps ==
    ASSUME NEW c, Typed(c), NEW n \in Nat, NEW oneexec \in BOOLEAN, NEW force
    PROVE  Keeps(c, Sent(c, n, oneexec, force))
<1> DEFINE d == Burst(c)[Whole(n, oneexec)]
           e == Remainder(d, Rest(n, oneexec), force)
<1>1. SndMss \in Nat /\ SndMss > 0
    BY Small, SMT
<1>2. Whole(n, oneexec) \in Nat /\ Rest(n, oneexec) \in Int
    BY <1>1, SMT DEF Whole, Rest, Least
<1>3. Keeps(c, d)
    BY <1>2, BurstKeeps
<1> HIDE DEF d
<1>4. Keeps(d, e)
    BY <1>2, <1>3, RemainderKeeps DEF Keeps
<1> HIDE DEF e
<1>5. Keeps(e, Timed(c, e))
    BY <1>4, TimedKeeps DEF Keeps
<1>6. Keeps(c, Timed(c, e))
    BY <1>3, <1>4, <1>5, KeepsOn
<1> QED BY <1>6 DEF Sent, d, e

(* and all of it, once                                                     *)
LEMMA SendanydataKeeps ==
    ASSUME NEW c, Typed(c), NEW oneexec \in BOOLEAN, NEW force
    PROVE  Keeps(c, sendanydata(c, oneexec, force))
<1> DEFINE d == Shrunk(c)
<1>1. Keeps(c, d) /\ Typed(d)
    BY ShrunkKeeps DEF Keeps
<1> HIDE DEF d
<1>2. Allowed(d) \in Nat
    <2>1. Flight(d) \in Nat /\ d.sndwnd \in Nat /\ d.cwnd \in Nat /\ Len(d.sndbuf) \in Nat /\ SndMss \in Nat \ {0}
        <3>1. d.rcvack \in Seqs /\ d.sndseq \in Seqs /\ d.sndwnd \in Nat /\ d.cwnd \in Nat /\ Len(d.sndbuf) \in Nat
            BY <1>1 DEF Typed
        <3> QED BY <3>1, SizeInRange, Small DEF Flight
    <2> DEFINE segs == (d.cwnd - Flight(d)) \div SndMss
    <2>2. segs \in Int
        BY <2>1, SMT
    <2>3. segs * SndMss \in Int
        <3> HIDE DEF segs
        <3> QED BY <2>1, <2>2, SMT
    <2>4. Room(d) \in Int
        <3> HIDE DEF segs
        <3>1. Room(d) = IF d.cwnd < Flight(d) THEN d.sndwnd - Flight(d) ELSE Least(d.sndwnd - Flight(d), segs * SndMss)
            BY DEF Room, segs
        <3> QED BY <3>1, <2>1, <2>3, SMT DEF Least
    <2>5. Left(d) \in Int
        BY <2>1, SMT DEF Left
    <2> QED BY <2>4, <2>5, SMT DEF Allowed, Least, Most
<1>3. Keeps(d, Sent(d, Allowed(d), oneexec, force))
    BY <1>1, <1>2, SentKeeps
<1>4. sendanydata(c, oneexec, force) = Sent(d, Allowed(d), oneexec, force)
    BY DEF sendanydata, Filled, d
<1> QED BY <1>1, <1>3, <1>4, KeepsOn

(* and as often as send() calls it.                                        *)
LEMMA PushedKeeps ==
    ASSUME NEW c, Typed(c), NEW k \in Nat
    PROVE  Keeps(c, Pushed(c)[k])
<1> DEFINE D(i) == Pushed(c)[i]
           S == {i \in Nat : Keeps(c, D(i))}
<1>1. D(0) = c /\ \A i \in Nat : D(i + 1) = sendanydata(D(i), TRUE, FALSE)
    BY PushedDef
<1> HIDE DEF D
<1>2. 0 \in S
    BY <1>1, KeepsNothing
<1>3. ASSUME NEW i \in Nat, i \in S PROVE i + 1 \in S
    <2>1. Keeps(D(i), D(i + 1))
        BY <1>1, <1>3, SendanydataKeeps DEF Keeps
    <2> QED BY <1>3, <2>1, KeepsOn
<1> HIDE DEF S
<1>4. k \in S
    BY <1>2, <1>3, Induction
<1> QED BY <1>4 DEF S, D
-----------------------------------------------------------------------------
(* Acknowledgments leave the receiver alone. *)

(* To owe one changes nothing yet.                                         *)
LEMMA OwesKeeps ==
    ASSUME NEW c, Typed(c), NEW how
    PROVE  Keeps(c, Owes(c, how))
<1>1. Typed(Owes(c, how)) /\ SameStream(c, Owes(c, how))
    BY SMT DEF Owes, Typed, Fields, SameStream
<1> QED BY <1>1, SameKeeps

(* The server's window is about sending.                                   *)
LEMMA SetWindowKeeps ==
    ASSUME NEW c, Typed(c), NEW s, s.wnd \in Nat
    PROVE  Keeps(c, SetWindow(c, s))
<1>1. Most(c.maxwnd, s.wnd) \in Nat
    BY SMT DEF Typed, Most
<1> DEFINE m == Most(c.maxwnd, s.wnd)
           w == s.wnd
           d == [c EXCEPT !.sndwnd = w, !.maxwnd = m]
<1>2. SetWindow(c, s) = d
    BY SMT DEF SetWindow, Typed, Fields
<1>3. m \in Nat /\ w \in Nat
    BY <1>1
<1> HIDE DEF m, w
<1>4. Typed(d) /\ SameStream(c, d)
    BY <1>3, SMT DEF Typed, Fields, SameStream
<1> QED BY <1>2, <1>4, SameKeeps

(* Windows of congestion are numbers. *)
Aside == {"cwnd", "ssthresh", "pcount", "sndseq"}

(* A function that changes only these keeps the receiver.                  *)
LEMMA CongestionKeeps ==
    ASSUME NEW c, Typed(c), NEW d, DOMAIN d = Fields, \A f \in Fields \ Aside : d[f] = c[f],
           d.cwnd \in Nat, d.ssthresh \in Nat, d.pcount \in Nat, d.sndseq \in Seqs
    PROVE  Keeps(c, d)
<1>1. /\ d.state = c.state /\ d.rcvack = c.rcvack /\ d.maxrcvack = c.maxrcvack /\ d.sndack = c.sndack
      /\ d.sndwnd = c.sndwnd /\ d.maxwnd = c.maxwnd /\ d.rcvwnd = c.rcvwnd /\ d.newfree = c.newfree
      /\ d.repeats = c.repeats /\ d.count = c.count /\ d.sndbuf = c.sndbuf /\ d.rcvbuf = c.rcvbuf
      /\ d.chain = c.chain /\ d.timers = c.timers /\ d.flags = c.flags /\ d.sent = c.sent
    BY SMT DEF Fields, Aside
<1>2. Typed(d) /\ SameStream(c, d)
    BY <1>1 DEF Typed, SameStream
<1> QED BY <1>2, SameKeeps

(* The counter of duplicate acknowledgments goes to 4.                     *)
LEMMA RepeatsKeep ==
    ASSUME NEW c, Typed(c), NEW r \in 0 .. 4
    PROVE  Keeps(c, [c EXCEPT !.repeats = r])
<1> DEFINE d == [c EXCEPT !.repeats = r]
<1>1. Typed(d) /\ SameStream(c, d)
    BY SMT DEF Typed, Fields, SameStream
<1> QED BY <1>1, SameKeeps

(* Half of a window is a number.                                           *)
LEMMA HalvedIsNat == ASSUME NEW c, Typed(c) PROVE Halved(c) \in Nat
<1>1. c.cwnd \in Nat /\ c.sndwnd \in Nat /\ SndMss \in Nat
    BY Small DEF Typed
<1> QED BY <1>1, SMT DEF Halved, Most, Least

(* The third duplicate acknowledgment has a segment sent again.            *)
LEMMA FastRetransmitKeeps ==
    ASSUME NEW c, Typed(c)
    PROVE  Keeps(c, FastRetransmit(c))
<1> DEFINE a == [c EXCEPT !.sndseq = c.rcvack]
           d == senddataseg(a, SndMss)
           h == Halved(c)
           f == [d EXCEPT !.sndseq = c.sndseq, !.ssthresh = h, !.cwnd = h]
<1>1. SndMss \in Int /\ c.sndseq \in Seqs /\ c.rcvack \in Seqs
    <2>1. SndMss \in Int
        BY Small, SMT
    <2> QED BY <2>1 DEF Typed
<1>2. Keeps(c, a) /\ Typed(a)
    BY <1>1, SeqKeeps DEF Keeps
<1> HIDE DEF a
<1>3. Keeps(a, d) /\ Typed(d)
    BY <1>1, <1>2, DatasegKeeps DEF Keeps
<1> HIDE DEF d
<1>4. h \in Nat
    BY HalvedIsNat
<1> HIDE DEF h
<1>5. Keeps(d, f) /\ Typed(f)
    <2>1. DOMAIN d = Fields /\ d.pcount \in Nat
        BY <1>3 DEF Typed
    <2>2. /\ DOMAIN f = Fields /\ f.cwnd = h /\ f.ssthresh = h /\ f.pcount = d.pcount /\ f.sndseq = c.sndseq
        BY <2>1, SMT DEF Fields
    <2>3. ASSUME NEW x \in Fields \ Aside PROVE f[x] = d[x]
        <3> HIDE DEF h
        <3> QED BY <2>1, <2>3, Zenon DEF Aside
    <2> HIDE DEF f
    <2> QED BY <1>1, <1>3, <1>4, <2>1, <2>2, <2>3, CongestionKeeps DEF Keeps
<1>6. FastRetransmit(c) = Owes(f, "NO_SENDING")
    BY DEF FastRetransmit, a, d, h
<1> HIDE DEF f
<1>7. Keeps(f, Owes(f, "NO_SENDING"))
    BY <1>5, OwesKeeps
<1>8. Keeps(c, Owes(f, "NO_SENDING"))
    BY <1>2, <1>3, <1>5, <1>7, KeepsOn
<1> QED BY <1>6, <1>8

(* A duplicate acknowledgment counts, or does that.                        *)
LEMMA RepeatedKeeps ==
    ASSUME NEW c, Typed(c)
    PROVE  Keeps(c, Repeated(c))
<1> DEFINE a == [c EXCEPT !.repeats = 4]
           r == Least(c.repeats + 1, 4)
           d == [c EXCEPT !.repeats = r]
<1>1. Repeated(c) = c \/ Repeated(c) = FastRetransmit(a) \/ Repeated(c) = d
    <2>1. d = [c EXCEPT !.repeats = Least(@ + 1, 4)]
        BY SMT DEF Typed, Fields
    <2> HIDE DEF d, a
    <2>2. Repeated(c) = c \/ Repeated(c) = FastRetransmit(a) \/ Repeated(c) = [c EXCEPT !.repeats = Least(@ + 1, 4)]
        BY Zenon DEF Repeated, a
    <2> QED BY <2>1, <2>2
<1>2. r \in 0 .. 4 /\ 4 \in 0 .. 4
    <2> HIDE DEF a, d
    <2>1. c.repeats \in 0 .. 4
        BY DEF Typed
    <2> QED BY <2>1, SMT DEF Least
<1> HIDE DEF r
<1>3. Keeps(c, d) /\ Keeps(c, a) /\ Typed(a)
    BY <1>2, RepeatsKeep DEF Keeps
<1> HIDE DEF a, d
<1>4. Keeps(a, FastRetransmit(a))
    BY <1>3, FastRetransmitKeeps
<1> QED BY <1>1, <1>3, <1>4, KeepsOn, KeepsNothing

(* An acknowledgment opens the window of congestion,                       *)
LEMMA OpenedIsKept ==
    ASSUME NEW c, Typed(c), NEW size \in Nat
    PROVE  Keeps(c, Opened(c, size))
<1> DEFINE over == c.cwnd + size - c.ssthresh
           c1   == IF c.cwnd > c.ssthresh THEN [c EXCEPT !.pcount = @ + size]
                   ELSE IF over > 0 THEN [c EXCEPT !.pcount = @ + over, !.cwnd = c.ssthresh]
                   ELSE [c EXCEPT !.cwnd = @ + size]
           d    == [c1 EXCEPT !.pcount = @ - c1.cwnd, !.cwnd = @ + SndMss]
<1>1. Opened(c, size) = IF c1.pcount >= c1.cwnd THEN d ELSE c1
    BY DEF Opened
<1>2. DOMAIN c = Fields /\ c.cwnd \in Nat /\ c.ssthresh \in Nat /\ c.pcount \in Nat /\ SndMss \in Nat /\ c.sndseq \in Seqs
    BY Small DEF Typed
<1>3. Keeps(c, c1)
    <2>1. DOMAIN c1 = Fields /\ c1.ssthresh = c.ssthresh /\ c1.sndseq = c.sndseq /\ c1.cwnd \in Nat /\ c1.pcount \in Nat
        <3>1. CASE c.cwnd > c.ssthresh
            BY <1>2, <3>1, SMT DEF Fields
        <3>2. CASE ~(c.cwnd > c.ssthresh) /\ over > 0
            <4>1. over \in Nat /\ c1 = [c EXCEPT !.pcount = @ + over, !.cwnd = c.ssthresh]
                BY <1>2, <3>2, SMT
            <4> HIDE DEF over, c1
            <4> QED BY <1>2, <4>1, SMT DEF Fields
        <3>3. CASE ~(c.cwnd > c.ssthresh) /\ ~(over > 0)
            BY <1>2, <3>3, SMT DEF Fields
        <3> QED BY <3>1, <3>2, <3>3
    <2>2. ASSUME NEW x \in Fields \ Aside PROVE c1[x] = c[x]
        <3> HIDE DEF over
        <3> QED BY <1>2, <2>2, Zenon DEF Aside
    <2> HIDE DEF c1
    <2> QED BY <1>2, <2>1, <2>2, CongestionKeeps
<1> HIDE DEF c1
<1>4. ASSUME c1.pcount >= c1.cwnd PROVE Keeps(c1, d)
    <2>1. DOMAIN c1 = Fields /\ c1.cwnd \in Nat /\ c1.ssthresh \in Nat /\ c1.pcount \in Nat /\ c1.sndseq \in Seqs /\ Typed(c1)
        BY <1>3 DEF Typed, Keeps
    <2>2. /\ DOMAIN d = Fields /\ d.cwnd \in Nat /\ d.ssthresh = c1.ssthresh /\ d.pcount \in Nat /\ d.sndseq = c1.sndseq
        BY <1>2, <1>4, <2>1, SMT DEF Fields
    <2>3. ASSUME NEW x \in Fields \ Aside PROVE d[x] = c1[x]
        BY <2>1, <2>3, Zenon DEF Aside
    <2> HIDE DEF d
    <2> QED BY <2>1, <2>2, <2>3, CongestionKeeps
<1> HIDE DEF d
<1> QED BY <1>1, <1>3, <1>4, KeepsOn

(* and takes what it acknowledges out of the send buffer.                  *)
LEMMA AcknowledgedKeeps ==
    ASSUME NEW c, Typed(c), NEW ack \in Seqs
    PROVE  Keeps(c, Acknowledged(c, ack))
<1> DEFINE size == Least(getsize(c.rcvack, ack), Len(c.sndbuf))
           o == Opened(c, size)
           buf == Drop(o.sndbuf, size)
           next == IF Above(ack, o.sndseq) THEN ack ELSE o.sndseq
           d == [o EXCEPT !.sndbuf = buf, !.rcvack = ack, !.repeats = 0, !.sndseq = next]
<1>1. size \in Nat
    <2>1. getsize(c.rcvack, ack) \in Nat /\ Len(c.sndbuf) \in Nat
        BY SizeInRange DEF Typed
    <2> QED BY <2>1, SMT DEF Least
<1>2. Acknowledged(c, ack) = [o EXCEPT !.sndbuf = Drop(@, size), !.rcvack = ack, !.repeats = 0,
                                       !.sndseq = IF Above(ack, @) THEN ack ELSE @]
    BY DEF Acknowledged
<1> HIDE DEF size
<1>3. Keeps(c, o) /\ Typed(o)
    BY <1>1, OpenedIsKept DEF Keeps
<1> HIDE DEF o
<1>4. Acknowledged(c, ack) = d
    BY <1>2, <1>3, SMT DEF Typed, Fields
<1>5. buf \in Seq(1 .. OutLen) /\ Len(buf) <= SndMax
    <2>1. o.sndbuf \in Seq(1 .. OutLen) /\ Len(o.sndbuf) <= SndMax /\ Len(o.sndbuf) \in Nat /\ SndMax \in Nat
        BY <1>3, Small DEF Typed
    <2> DEFINE sb == o.sndbuf
    <2>2. Drop(sb, size) \in Seq(1 .. OutLen) /\ Len(Drop(sb, size)) = IF size <= Len(sb) THEN Len(sb) - size ELSE 0
        <3> DEFINE T == 1 .. OutLen
        <3>1. sb \in Seq(T)
            BY <2>1
        <3> HIDE DEF T, sb
        <3>2. Drop(sb, size) \in Seq(T) /\ Len(Drop(sb, size)) = IF size <= Len(sb) THEN Len(sb) - size ELSE 0
            BY <3>1, <1>1, DropIs
        <3> QED BY <3>2 DEF T
    <2>3. buf = Drop(sb, size)
        OBVIOUS
    <2> HIDE DEF buf
    <2> QED BY <1>1, <2>1, <2>2, <2>3, SMT
<1>6. next \in Seqs
    BY <1>3 DEF Typed
<1> HIDE DEF buf, next
<1>7. Typed(d) /\ SameStream(o, d)
    <2>1. DOMAIN o = Fields
        BY <1>3 DEF Typed
    <2>2. /\ DOMAIN d = Fields /\ d.sndbuf = buf /\ d.rcvack = ack /\ d.repeats = 0 /\ d.sndseq = next
          /\ d.state = o.state /\ d.maxrcvack = o.maxrcvack /\ d.sndack = o.sndack
          /\ d.sndwnd = o.sndwnd /\ d.maxwnd = o.maxwnd /\ d.rcvwnd = o.rcvwnd /\ d.newfree = o.newfree
          /\ d.cwnd = o.cwnd /\ d.ssthresh = o.ssthresh /\ d.pcount = o.pcount /\ d.count = o.count /\ d.rcvbuf = o.rcvbuf
          /\ d.chain = o.chain /\ d.timers = o.timers /\ d.flags = o.flags /\ d.sent = o.sent
        BY <2>1, SMT DEF Fields
    <2> HIDE DEF d
    <2>3. 0 \in 0 .. 4
        BY SMT
    <2> QED BY <1>3, <1>5, <1>6, <2>2, <2>3 DEF Typed, SameStream
<1>8. Keeps(o, d)
    BY <1>7, SameKeeps
<1> QED BY <1>3, <1>4, <1>8, KeepsOn

(* Any acknowledgment                                                      *)
LEMMA AckedKeeps ==
    ASSUME NEW c, Typed(c), NEW s, s.ack \in Seqs
    PROVE  Keeps(c, Acked(c, s))
BY RepeatedKeeps, AcknowledgedKeeps DEF Acked

(* What may be sent after it                                               *)
LEMMA MoreSentKeeps ==
    ASSUME NEW c, Typed(c)
    PROVE  Keeps(c, MoreSent(c))
<1> DEFINE one == "INSND" \in c.flags
           d == sendanydata(c, one, FALSE)
<1>1. Keeps(c, d) /\ Typed(d)
    <2>1. one \in BOOLEAN
        OBVIOUS
    <2> HIDE DEF one
    <2> QED BY <2>1, SendanydataKeeps DEF Keeps
<1>2. MoreSent(c) = Owes(d, "NO_SENDING") \/ MoreSent(c) = d
    BY DEF MoreSent, Carrying
<1> HIDE DEF d
<1>3. Keeps(d, Owes(d, "NO_SENDING"))
    BY <1>1, OwesKeeps
<1> QED BY <1>1, <1>2, <1>3, KeepsOn

(* The timers after it                                                     *)
LEMMA PersistingKeeps ==
    ASSUME NEW c, Typed(c)
    PROVE  Keeps(c, Persisting(c)) /\ Keeps(c, Retransmitting(c))
<1>1. "persist" \in Timers /\ "retransmission" \in Timers
    BY DEF Timers
<1> QED BY <1>1, TimersKeep, KeepsNothing DEF Persisting, Retransmitting

(* The acknowledgments that dataprocess sends or puts off                  *)
LEMMA AnsweredKeeps ==
    ASSUME NEW c, Typed(c), NEW push
    PROVE  Keeps(c, Answered(c)) /\ Keeps(c, AckedAtOnce(c, push))
<1>1. "delayed_ack" \in Timers
    BY DEF Timers
<1> QED BY <1>1, TimersKeep, KeepsNothing, SendackKeeps DEF Answered, AckedAtOnce
-----------------------------------------------------------------------------
(* Places in the server's stream *)
LEMMA FromIs ==
    ASSUME NEW x \in Seqs
    PROVE  /\ From(x) \in Nat /\ From(x) < SeqSpace
           /\ \A n \in Nat : From(x) + n < SeqSpace => Wrap(x + n) \in Seqs /\ From(Wrap(x + n)) = From(x) + n
<1>1. ServerISN \in Seqs
    BY TcpAssumption DEF Seqs
<1>2. From(x) \in Seqs
    BY <1>1, SizeIsDistance DEF From
<1>3. From(x) \in Nat /\ From(x) < SeqSpace
    BY <1>2, Small, SMT DEF Seqs
<1> QED BY <1>1, <1>3, Ahead DEF From

(* Close to the beginning they are in order. *)
LEMMA FromOrders ==
    ASSUME NEW x \in Seqs, NEW y \in Seqs, From(x) <= SeqSpace \div 8, From(y) <= SeqSpace \div 8
    PROVE  /\ Above(x, y) <=> From(y) < From(x)
           /\ NotBelow(x, y) <=> From(y) <= From(x)
           /\ From(x) <= From(y) => getsize(x, y) = From(y) - From(x)
<1> DEFINE e == SeqSpace \div 8
<1>1. ServerISN \in Seqs
    BY TcpAssumption DEF Seqs
<1>2. Above(x, y) <=> From(y) < From(x)
    BY <1>1, AboveIsFarther DEF From
<1>3. From(x) <= From(y) => getsize(x, y) = From(y) - From(x)
    BY <1>1, Between DEF From
<1>4. NotBelow(x, y) <=> getsize(y, x) <= e
    <2>1. e \in Nat /\ e < SeqSpace
        BY Eighth, SMT
    <2>2. getsize(y, y) = 0
        BY NoDistance
    <2>3. Wrap(y + e) \in Seqs /\ getsize(y, Wrap(y + e)) = e
        <3> HIDE DEF e
        <3>1. getsize(y, y) + e < SeqSpace /\ getsize(y, y) + e = e
            BY <2>1, <2>2, SMT
        <3>2. Wrap(y + e) \in Seqs /\ getsize(y, Wrap(y + e)) = getsize(y, y) + e
            BY <2>1, <3>1, Ahead
        <3> QED BY <3>1, <3>2
    <2> QED BY <2>3, HitIsInterval DEF NotBelow
<1>5. getsize(y, x) <= e <=> From(y) <= From(x)
    <2>1. e \in Nat /\ 8 * e <= SeqSpace /\ From(x) <= e /\ From(y) <= e /\ SeqSpace \in Nat \ {0}
        BY Eighth
    <2>2. ServerISN \in Nat /\ x \in Nat /\ y \in Nat /\ ServerISN < SeqSpace /\ x < SeqSpace /\ y < SeqSpace
        BY <1>1, <2>1, SMT DEF Seqs
    <2> HIDE DEF e
    <2> QED BY <2>1, <2>2, SMT DEF From, getsize
<1> QED BY <1>2, <1>3, <1>4, <1>5

(* A segment and its end are. *)
LEMMA SegmentIs ==
    ASSUME Short, NEW s \in InSegments, Sound(s)
    PROVE  /\ s.seq \in Seqs /\ End(s) \in Seqs /\ s.data \in Seq(1 .. InLen) /\ Len(s.data) \in Nat
           /\ From(s.seq) \in Nat /\ From(End(s)) = From(s.seq) + Len(s.data)
           /\ From(s.seq) <= InLen + 2 /\ From(End(s)) <= InLen + 2
           /\ From(s.seq) <= SeqSpace \div 8 /\ From(End(s)) <= SeqSpace \div 8
<1>1. s.seq \in Seqs /\ s.data \in Seq(1 .. InLen)
    BY DEF InSegments
<1> DEFINE l == Len(s.data)
           e == SeqSpace \div 8
           f == From(s.seq)
<1>2. l \in Nat
    BY <1>1
<1>3. InLen \in Nat /\ e \in Nat /\ 8 * e <= SeqSpace /\ InLen + 2 <= e /\ SeqSpace \in Nat \ {0}
    BY Eighth, TcpAssumption DEF Short
<1>4. f \in Nat /\ f <= InLen + 2
    BY <1>3, SMT DEF Sound
<1>5. f + l <= InLen + 2
    <2>1. CASE s.data = <<>>
        <3>1. l = 0
            BY <2>1
        <3> QED BY <3>1, <1>4, SMT
    <2>2. CASE s.data # <<>>
        <3>1. f + l <= InLen + 1
            BY <2>2 DEF Sound
        <3> HIDE DEF f, l
        <3> QED BY <3>1, <1>2, <1>3, <1>4, SMT
    <2> QED BY <2>1, <2>2
<1>6. End(s) \in Seqs /\ From(End(s)) = f + l
    <2>1. f + l < SeqSpace
        <3> HIDE DEF f, l, e
        <3> QED BY <1>2, <1>3, <1>4, <1>5, SMT
    <2> QED BY <1>1, <1>2, <2>1, FromIs DEF End
<1> HIDE DEF f, l, e
<1>7. f <= e /\ f + l <= e
    BY <1>2, <1>3, <1>4, <1>5, SMT
<1> QED BY <1>1, <1>2, <1>4, <1>5, <1>6, <1>7 DEF f, l, e

(* What Take puts behind the received bytes continues them. *)
LEMMA TakeKeeps ==
    ASSUME NEW c, Typed(c), NEW s \in InSegments, NEW skip \in Nat
    PROVE  LET d == Take(c, s, skip)
           IN  /\ Typed(d) /\ (Reopens(c) => Reopens(d))
               /\ \A n \in Nat :
                      /\ Receiver(c, n) /\ Sound(s) /\ "FIN_RCVD" \notin c.flags
                      /\ From(s.seq) + skip = From(c.sndack) /\ skip <= Len(s.data)
                      => Receiver(d, n)
<1> DEFINE fin == "FIN" \in s.flags
           fp  == finprocessing(c)
           c1  == IF fin THEN Owes(fp, "FIN_ACK") ELSE c
           x   == NewData(s, skip)
           one == IF fin THEN 1 ELSE 0
           a   == Wrap(End(s) + one)
           buf == c.rcvbuf \o x
           d   == [c1 EXCEPT !.rcvbuf = @ \o x, !.sndack = a]
<1>0. Take(c, s, skip) = d
    BY DEF Take
<1>1. s.seq \in Seqs /\ s.data \in Seq(1 .. InLen) /\ Len(s.data) \in Nat /\ one \in {0, 1}
    BY DEF InSegments
<1>2. /\ Typed(c1) /\ c1.rcvbuf = c.rcvbuf /\ c1.rcvwnd = c.rcvwnd /\ c1.chain = c.chain /\ c1.sent = c.sent
      /\ fin /\ c.state = "ESTABLISHED" => c1.state = "CLOSE_WAIT" /\ c1.flags = c.flags \cup {"FIN_RCVD"}
      /\ ~fin => c1.state = c.state /\ c1.flags = c.flags
    <2>1. /\ Typed(fp) /\ fp.rcvbuf = c.rcvbuf /\ fp.rcvwnd = c.rcvwnd /\ fp.chain = c.chain /\ fp.sent = c.sent
          /\ c.state = "ESTABLISHED" => fp.state = "CLOSE_WAIT" /\ fp.flags = c.flags \cup {"FIN_RCVD"}
        BY SMT DEF Typed, Fields, finprocessing, States, Flags
    <2> HIDE DEF fp
    <2>2. LET o == Owes(fp, "FIN_ACK")
          IN  /\ Typed(o) /\ o.rcvbuf = fp.rcvbuf /\ o.rcvwnd = fp.rcvwnd /\ o.chain = fp.chain /\ o.sent = fp.sent
              /\ o.state = fp.state /\ o.flags = fp.flags
        <3>1. DOMAIN fp = Fields /\ Typed(Owes(fp, "FIN_ACK"))
            BY <2>1, OwesKeeps DEF Typed, Keeps
        <3> QED BY <3>1, SMT DEF Fields, Owes
    <2> QED BY <2>1, <2>2
<1>3. x \in Seq(1 .. InLen) /\ Len(x) = (IF skip <= Len(s.data) THEN Len(s.data) - skip ELSE 0)
      /\ \A i \in 1 .. Len(s.data) - skip : x[i] = s.data[skip + i]
    <2> DEFINE T == 1 .. InLen
               sd == s.data
    <2>1. sd \in Seq(T)
        BY <1>1
    <2> HIDE DEF T, sd
    <2>2. Drop(sd, skip) \in Seq(T) /\ Len(Drop(sd, skip)) = (IF skip <= Len(sd) THEN Len(sd) - skip ELSE 0)
          /\ \A i \in 1 .. Len(sd) - skip : Drop(sd, skip)[i] = sd[skip + i]
        BY <2>1, DropIs
    <2> QED BY <2>2 DEF T, sd, NewData
<1>4. a \in Seqs /\ End(s) \in Seqs
    <2>0. Len(s.data) \in Int /\ one \in Int
        BY <1>1, SMT
    <2>1. s.seq + Len(s.data) \in Int
        BY <1>1, <2>0, NumbersAreInts
    <2>2. End(s) \in Seqs
        BY <2>1, WrapInRange DEF End
    <2>3. End(s) + one \in Int
        BY <2>0, <2>2, NumbersAreInts
    <2> QED BY <2>2, <2>3, WrapInRange
<1> HIDE DEF a, x, c1, one
<1>5. buf \in Seq(1 .. InLen) /\ Len(buf) = Len(c.rcvbuf) + Len(x) /\ Len(x) \in Nat /\ Len(c.rcvbuf) \in Nat
      /\ \A i \in 1 .. Len(buf) : buf[i] = IF i <= Len(c.rcvbuf) THEN c.rcvbuf[i] ELSE x[i - Len(c.rcvbuf)]
    <2> DEFINE T == 1 .. InLen
    <2>1. c.rcvbuf \in Seq(T) /\ x \in Seq(T)
        BY <1>3 DEF Typed
    <2> HIDE DEF T
    <2>2. buf \in Seq(T) /\ Len(buf) = Len(c.rcvbuf) + Len(x) /\ Len(x) \in Nat /\ Len(c.rcvbuf) \in Nat
          /\ \A i \in 1 .. Len(buf) : buf[i] = IF i <= Len(c.rcvbuf) THEN c.rcvbuf[i] ELSE x[i - Len(c.rcvbuf)]
        BY <2>1
    <2> QED BY <2>2 DEF T
<1> HIDE DEF buf
<1>6. /\ Typed(d) /\ d.rcvbuf = buf /\ d.sndack = a /\ d.rcvwnd = c.rcvwnd /\ d.chain = c.chain /\ d.sent = c.sent
      /\ d.state = c1.state /\ d.flags = c1.flags
    <2>1. DOMAIN c1 = Fields /\ c1.rcvbuf \o x = buf
        BY <1>2 DEF Typed, buf
    <2>2. /\ DOMAIN d = Fields /\ d.rcvbuf = buf /\ d.sndack = a
          /\ d.sndseq = c1.sndseq /\ d.rcvack = c1.rcvack /\ d.repeats = c1.repeats /\ d.sndbuf = c1.sndbuf
          /\ d.state = c1.state /\ d.maxrcvack = c1.maxrcvack
          /\ d.sndwnd = c1.sndwnd /\ d.maxwnd = c1.maxwnd /\ d.rcvwnd = c1.rcvwnd /\ d.newfree = c1.newfree
          /\ d.cwnd = c1.cwnd /\ d.ssthresh = c1.ssthresh /\ d.pcount = c1.pcount /\ d.count = c1.count
          /\ d.chain = c1.chain /\ d.timers = c1.timers /\ d.flags = c1.flags /\ d.sent = c1.sent
        BY <2>1, SMT DEF Fields
    <2> HIDE DEF d
    <2> QED BY <1>2, <1>4, <1>5, <2>2 DEF Typed
<1> HIDE DEF d
<1>7. Reopens(c) => Reopens(d)
    <2> SUFFICES ASSUME Reopens(c), d.rcvbuf = <<>> PROVE d.rcvwnd > 0
        BY DEF Reopens
    <2>1. Len(buf) = 0
        BY <1>6
    <2>2. Len(c.rcvbuf) = 0
        BY <2>1, <1>5, SMT
    <2>3. c.rcvbuf = <<>>
        BY <2>2 DEF Typed
    <2> QED BY <2>3, <1>6 DEF Reopens
<1>8. ASSUME NEW n \in Nat, Receiver(c, n), Sound(s), "FIN_RCVD" \notin c.flags,
             From(s.seq) + skip = From(c.sndack), skip <= Len(s.data)
      PROVE  Receiver(d, n)
    <2> DEFINE l == Len(s.data)
               r == Len(c.rcvbuf)
               k == Len(x)
               f == From(s.seq)
    <2>1. /\ c.state = "ESTABLISHED" /\ ~told /\ n + r <= InLen /\ FinSeen(c) = 0 /\ Taken(c, n) = n + r
          /\ From(c.sndack) = n + r + 1 /\ Short
        <3>1. FinSeen(c) = 0 /\ c.state = "ESTABLISHED" /\ ~told /\ n + r <= InLen /\ From(c.sndack) = Taken(c, n) + 1
            BY <1>8 DEF Receiver, Connected, FinSeen
        <3>2. Taken(c, n) = n + r
            BY <3>1, <1>5, SMT DEF Taken
        <3> QED BY <1>8, <3>1, <3>2 DEF Receiver
    <2>2. l \in Nat /\ r \in Nat /\ k \in Nat /\ k = l - skip /\ f \in Nat /\ f + skip = n + r + 1 /\ InLen \in Nat /\ From(End(s)) = f + l
        <3>1. f \in Nat /\ From(End(s)) = f + l
            BY <2>1, <1>8, SegmentIs
        <3> QED BY <3>1, <2>1, <1>1, <1>3, <1>5, <1>8, TcpAssumption
    <2>3. f + l = n + (r + k) + 1
        <3> HIDE DEF f, l, r, k
        <3> QED BY <2>2, SMT
    <2>4. n + (r + k) <= InLen /\ (fin => n + (r + k) = InLen /\ InLen <= edge)
        <3>1. CASE s.data = <<>>
            <4>1. l = 0
                BY <3>1
            <4>2. k = 0
                <5> HIDE DEF f, l, r, k
                <5> QED BY <2>2, <4>1, <1>8, SMT DEF l
            <4>3. fin => f + l = InLen + 1 /\ InLen <= edge
                BY <1>8 DEF Sound
            <4> HIDE DEF f, l, r, k, fin
            <4> QED BY <2>1, <2>2, <2>3, <4>2, <4>3, SMT
        <3>2. CASE s.data # <<>>
            <4>1. f + l <= InLen + 1 /\ (fin => f + l = InLen + 1 /\ InLen <= edge)
                BY <3>2, <1>8 DEF Sound
            <4> HIDE DEF f, l, r, k, fin
            <4> QED BY <2>2, <2>3, <4>1, <1>5, SMT
        <3> QED BY <3>1, <3>2
    <2>5. Len(d.rcvbuf) = r + k /\ k \in Nat
        BY <1>5, <1>6
    <2>6. /\ Connected(d) /\ (d.state = "CLOSE_WAIT" <=> "FIN_RCVD" \in d.flags) /\ FinSeen(d) = one
          /\ ("FIN_RCVD" \in d.flags <=> fin)
        BY <1>2, <1>6, <1>8, <2>1 DEF Connected, FinSeen, one
    <2>7. Taken(d, n) = n + (r + k) + one
        <3> HIDE DEF r, k
        <3> QED BY <2>2, <2>5, <2>6, <1>1, SMT DEF Taken
    <2>8. From(a) = n + (r + k) + one + 1
        <3>1. InLen + 2 < SeqSpace
            <4>1. InLen + 2 <= SeqSpace \div 8 /\ SeqSpace \div 8 < SeqSpace /\ InLen \in Nat /\ SeqSpace \div 8 \in Nat
                BY <2>1, <2>2, Eighth, SMT DEF Short
            <4> DEFINE e == SeqSpace \div 8
            <4> HIDE DEF e
            <4> QED BY <4>1, Small, SMT DEF e
        <3>2. From(End(s)) + one < SeqSpace /\ From(End(s)) = n + (r + k) + 1
            <4> HIDE DEF r, k, f, l
            <4> QED BY <2>2, <2>3, <2>4, <2>5, <3>1, <1>1, Small, SMT
        <3>3. From(a) = From(End(s)) + one
            <4>1. one \in Nat
                BY <1>1, SMT
            <4> QED BY <3>2, <4>1, <1>4, FromIs DEF a
        <3> HIDE DEF r, k, f, l
        <3> QED BY <2>2, <2>5, <3>2, <3>3, <1>1, SMT
    <2>9. \A i \in 1 .. Len(d.rcvbuf) : d.rcvbuf[i] = n + i
        <3> SUFFICES ASSUME NEW i \in 1 .. r + k PROVE buf[i] = n + i
            BY <2>5, <1>6
        <3>1. CASE i <= r
            <4>1. i \in 1 .. r
                BY <3>1, <2>2, <2>5, SMT
            <4>2. c.rcvbuf[i] = n + i
                BY <4>1, <1>8 DEF Receiver
            <4> QED BY <3>1, <4>2, <1>5
        <3>2. CASE ~(i <= r)
            <4> DEFINE j == i - r
            <4>1. j \in 1 .. l - skip /\ skip + j \in 1 .. l
                <5> HIDE DEF l, r, k
                <5> QED BY <3>2, <2>2, <2>5, SMT
            <4>2. x[j] = s.data[skip + j]
                BY <4>1, <1>3
            <4>3. s.data[skip + j] = f - 1 + (skip + j)
                BY <4>1, <1>8 DEF Sound
            <4>4. f - 1 + (skip + j) = n + i
                <5> HIDE DEF f, l, r, k
                <5> QED BY <2>2, <2>5, SMT
            <4>5. buf[i] = x[j]
                BY <3>2, <1>5
            <4> QED BY <4>2, <4>3, <4>4, <4>5
        <3> QED BY <3>1, <3>2
    <2>10. ASSUME NEW m, Opens(c, n, m) PROVE Opens(d, n, m)
        <3>1. m \in Int /\ m <= n + r + c.rcvwnd /\ m <= n + r + FreeRoom(c)
            BY <2>1, <2>10 DEF Opens
        <3>2. FreeRoom(c) = Most(RcvMax - r, 0) /\ FreeRoom(d) = Most(RcvMax - (r + k), 0)
            BY <2>5 DEF FreeRoom
        <3>3. c.rcvwnd \in Nat /\ RcvMax \in Nat
            BY Small DEF Typed
        <3>4. m <= n + (r + k) + one + c.rcvwnd /\ m <= n + (r + k) + one + FreeRoom(d)
            <4> DEFINE fc == FreeRoom(c)
                       fd == FreeRoom(d)
                       w == c.rcvwnd
            <4>1. one \in Nat /\ w \in Nat /\ m \in Int /\ m <= n + r + w /\ m <= n + r + fc
                BY <1>1, <3>1, <3>3, SMT
            <4> HIDE DEF r, k, w
            <4>2. fc \in Int /\ fd \in Int /\ fc <= fd + k
                <5>1. r \in Nat /\ k \in Nat /\ RcvMax \in Nat /\ fc = Most(RcvMax - r, 0) /\ fd = Most(RcvMax - (r + k), 0)
                    BY <2>2, <3>2, <3>3
                <5> HIDE DEF fc, fd
                <5> QED BY <5>1, SMT DEF Most
            <4> HIDE DEF fc, fd
            <4>3. m <= n + (r + k) + one + w /\ m <= n + (r + k) + one + fd
                BY <2>2, <4>1, <4>2, SMT
            <4> QED BY <4>3 DEF w, fd
        <3> QED BY <3>1, <3>4, <2>7, <1>6 DEF Opens
    <2>11. d.rcvwnd <= RcvMax /\ d.chain = c.chain /\ d.sent = c.sent /\ d.sndack = a
        BY <1>6, <1>8 DEF Receiver
    <2>12. n + Len(d.rcvbuf) <= InLen /\ ("FIN_RCVD" \in d.flags => n + Len(d.rcvbuf) = InLen)
        BY <2>4, <2>5, <2>6
    <2>13. From(d.sndack) = Taken(d, n) + 1
        BY <2>7, <2>8, <2>11
    <2>14. \A i \in 1 .. Len(d.chain) : Brings(d.chain[i])
        BY <2>11, <1>8 DEF Receiver
    <2>15. Opens(d, n, edge) /\ \A t \in toServer \cup d.sent : t.flags = {"ACK"} => Opens(d, n, Offered(t))
        BY <2>10, <2>11, <1>8 DEF Receiver
    <2> QED BY <2>1, <2>6, <2>9, <2>11, <2>12, <2>13, <2>14, <2>15 DEF Receiver
<1> QED BY <1>0, <1>6, <1>7, <1>8

(* What is acknowledged next is within what FNET_TCP_COMP_G tells apart.   *)
LEMMA SndackIs ==
    ASSUME NEW c, Typed(c), NEW n \in Nat, Receiver(c, n)
    PROVE  /\ From(c.sndack) = Taken(c, n) + 1 /\ From(c.sndack) \in Nat
           /\ From(c.sndack) <= InLen + 2 /\ From(c.sndack) <= SeqSpace \div 8
<1> DEFINE t == Taken(c, n)
           e == SeqSpace \div 8
<1>1. t \in Nat /\ t <= InLen + 1 /\ From(c.sndack) = t + 1
    BY TakenIsSmall DEF Receiver
<1>2. InLen \in Nat /\ e \in Nat /\ InLen + 2 <= e
    BY TcpAssumption, Eighth DEF Receiver, Short
<1> HIDE DEF t, e
<1>3. t + 1 \in Nat /\ t + 1 <= InLen + 2 /\ t + 1 <= e
    BY <1>1, <1>2, SMT
<1> QED BY <1>1, <1>3 DEF t, e

(* Segments that wait out of order *)
WithChain(c, ch, k) == [c EXCEPT !.chain = ch, !.count = k]

(* The chain may be anything that brings the server's bytes.               *)
LEMMA ChainKeeps ==
    ASSUME NEW c, Typed(c), NEW ch \in Seq(InSegments), NEW k \in Int
    PROVE  LET d == WithChain(c, ch, k)
           IN  /\ Typed(d) /\ (Reopens(c) => Reopens(d)) /\ d.flags = c.flags /\ d.sndack = c.sndack /\ d.chain = ch
               /\ \A n \in Nat : Receiver(c, n) /\ (\A i \in 1 .. Len(ch) : Brings(ch[i])) => Receiver(d, n)
<1> DEFINE d == WithChain(c, ch, k)
<1>1. DOMAIN c = Fields
    BY DEF Typed
<1>2. /\ DOMAIN d = Fields /\ d.chain = ch /\ d.count = k
      /\ d.sndseq = c.sndseq /\ d.rcvack = c.rcvack /\ d.repeats = c.repeats /\ d.sndbuf = c.sndbuf
      /\ d.state = c.state /\ d.maxrcvack = c.maxrcvack /\ d.rcvbuf = c.rcvbuf /\ d.sndack = c.sndack
      /\ d.sndwnd = c.sndwnd /\ d.maxwnd = c.maxwnd /\ d.rcvwnd = c.rcvwnd /\ d.newfree = c.newfree
      /\ d.cwnd = c.cwnd /\ d.ssthresh = c.ssthresh /\ d.pcount = c.pcount
      /\ d.timers = c.timers /\ d.flags = c.flags /\ d.sent = c.sent
    BY <1>1, SMT DEF Fields, WithChain
<1> HIDE DEF d
<1>3. Typed(d)
    BY <1>2 DEF Typed
<1>4. Reopens(c) => Reopens(d)
    BY <1>2 DEF Reopens
<1>5. ASSUME NEW n \in Nat, Receiver(c, n), \A i \in 1 .. Len(ch) : Brings(ch[i]) PROVE Receiver(d, n)
    <2>1. FinSeen(d) = FinSeen(c) /\ FreeRoom(d) = FreeRoom(c)
        BY <1>2 DEF FinSeen, FreeRoom
    <2>2. Taken(d, n) = Taken(c, n)
        BY <1>2, <2>1 DEF Taken
    <2>3. \A m : Opens(c, n, m) <=> Opens(d, n, m)
        BY <1>2, <2>1, <2>2 DEF Opens
    <2> QED BY <1>2, <1>5, <2>2, <2>3 DEF Receiver, Connected
<1> QED BY <1>2, <1>3, <1>4, <1>5 DEF d

(* The first of them, and the others *)
LEMMA HeadAndTail ==
    ASSUME NEW T, NEW s \in Seq(T), s # <<>>
    PROVE  /\ Head(s) \in T /\ Tail(s) \in Seq(T) /\ Head(s) = s[1] /\ 1 \in 1 .. Len(s)
           /\ \A i \in 1 .. Len(Tail(s)) : Tail(s)[i] = s[i + 1] /\ i + 1 \in 1 .. Len(s)
<1>1. Len(s) \in Nat /\ Len(s) > 0
    OBVIOUS
<1>2. Head(s) \in T /\ Tail(s) \in Seq(T) /\ Head(s) = s[1] /\ Len(Tail(s)) = Len(s) - 1
    BY <1>1
<1>3. \A i \in 1 .. Len(s) - 1 : Tail(s)[i] = s[i + 1]
    BY <1>1
<1> QED BY <1>1, <1>2, <1>3

(* The length of a segment, which the chain's counter adds up              *)
LEMMA LengthIs == ASSUME NEW s \in InSegments PROVE total_length(s) \in Int
<1>1. Len(s.data) \in Nat /\ Header \in Nat
    BY TcpAssumption DEF InSegments
<1> QED BY <1>1, SMT DEF total_length

(* A segment that is due is taken; one of which all was received goes. *)
LEMMA FromChainKeeps ==
    ASSUME NEW c, Typed(c)
    PROVE  Keeps(c, FromChain(c))
<1> DEFINE s == Head(c.chain)
           rest == Tail(c.chain)
           skip == getsize(s.seq, c.sndack)
           k1 == c.count - total_length(s)
           k2 == c.count - IF rest = <<>> THEN NullLength ELSE total_length(Head(rest))
           d1 == WithChain(c, rest, k1)
           d2 == WithChain(c, rest, k2)
<1>1. FromChain(c) = IF c.chain = <<>> \/ ~NotBelow(c.sndack, s.seq) THEN c
                     ELSE IF NotBelow(End(s), c.sndack) THEN Take(d1, s, skip) ELSE d2
    <2>1. DOMAIN c = Fields
        BY DEF Typed
    <2>2. FromChain(c) = IF c.chain = <<>> \/ ~NotBelow(c.sndack, s.seq) THEN c
                     ELSE IF NotBelow(End(s), c.sndack)
                     THEN Take([c EXCEPT !.chain = rest, !.count = @ - total_length(s)], s, skip)
                     ELSE [c EXCEPT !.chain = rest,
                              !.count = @ - IF rest = <<>> THEN NullLength ELSE total_length(Head(rest))]
        BY DEF FromChain
    <2> QED BY <2>2 DEF WithChain
<1> SUFFICES ASSUME c.chain # <<>> PROVE Keeps(c, FromChain(c))
    BY <1>1, KeepsNothing
<1>2. /\ s \in InSegments /\ rest \in Seq(InSegments) /\ s = c.chain[1] /\ 1 \in 1 .. Len(c.chain)
      /\ \A i \in 1 .. Len(rest) : rest[i] = c.chain[i + 1] /\ i + 1 \in 1 .. Len(c.chain)
    <2>1. c.chain \in Seq(InSegments)
        BY DEF Typed
    <2> QED BY <2>1, HeadAndTail
<1>3. k1 \in Int /\ k2 \in Int
    <2>1. c.count \in Int /\ total_length(s) \in Int /\ NullLength \in Int
        <3>1. c.count \in Int /\ total_length(s) \in Int
            BY <1>2, LengthIs DEF Typed
        <3>2. NullLength \in Int
            BY TcpAssumption, SMT
        <3> QED BY <3>1, <3>2
    <2>2. rest # <<>> => total_length(Head(rest)) \in Int
        BY <1>2, HeadAndTail, LengthIs
    <2> HIDE DEF rest, s
    <2> QED BY <2>1, <2>2, SMT
<1>4. s.seq \in Seqs /\ c.sndack \in Seqs
    BY <1>2 DEF InSegments, Typed
<1>5. skip \in Nat
    BY <1>4, SizeInRange
<1> HIDE DEF s, rest, k1, k2
<1>6. /\ Typed(d1) /\ (Reopens(c) => Reopens(d1)) /\ d1.flags = c.flags /\ d1.sndack = c.sndack
      /\ \A n \in Nat : Receiver(c, n) /\ (\A i \in 1 .. Len(rest) : Brings(rest[i])) => Receiver(d1, n)
    BY <1>2, <1>3, ChainKeeps
<1>7. /\ Typed(d2) /\ (Reopens(c) => Reopens(d2)) /\ d2.flags = c.flags /\ d2.sndack = c.sndack
      /\ \A n \in Nat : Receiver(c, n) /\ (\A i \in 1 .. Len(rest) : Brings(rest[i])) => Receiver(d2, n)
    BY <1>2, <1>3, ChainKeeps
<1> HIDE DEF d1, d2
<1>8. ASSUME NEW n \in Nat, Receiver(c, n) PROVE Brings(s) /\ \A i \in 1 .. Len(rest) : Brings(rest[i])
    BY <1>2, <1>8 DEF Receiver
<1>9. Keeps(c, d2)
    BY <1>7, <1>8 DEF Keeps
<1>10. ASSUME NotBelow(c.sndack, s.seq), NotBelow(End(s), c.sndack) PROVE Keeps(c, Take(d1, s, skip))
    <2> DEFINE d == Take(d1, s, skip)
    <2>1. /\ Typed(d) /\ (Reopens(d1) => Reopens(d))
          /\ \A n \in Nat :
                 /\ Receiver(d1, n) /\ Sound(s) /\ "FIN_RCVD" \notin d1.flags
                 /\ From(s.seq) + skip = From(d1.sndack) /\ skip <= Len(s.data)
                 => Receiver(d, n)
        BY <1>2, <1>5, <1>6, TakeKeeps
    <2>2. ASSUME NEW n \in Nat, Receiver(c, n) PROVE Receiver(d, n)
        <3> DEFINE f == From(s.seq)
                   a == From(c.sndack)
                   l == Len(s.data)
        <3>1. /\ Short /\ Sound(s) /\ (s.data # <<>> \/ "FIN" \in s.flags)
            BY <1>8, <2>2 DEF Receiver, Brings
        <3>2. /\ f \in Nat /\ l \in Nat /\ f <= SeqSpace \div 8 /\ From(End(s)) <= SeqSpace \div 8 /\ From(End(s)) = f + l
              /\ End(s) \in Seqs
            BY <3>1, <1>2, SegmentIs
        <3>3. a = Taken(c, n) + 1 /\ a \in Nat /\ a <= SeqSpace \div 8
            BY <2>2, SndackIs
        <3>4. f <= a /\ a <= f + l /\ skip = a - f
            BY <1>4, <1>10, <3>2, <3>3, FromOrders
        <3>5. f + skip = a /\ skip <= l
            <4> HIDE DEF f, a, l, skip
            <4> QED BY <3>2, <3>3, <3>4, SMT
        <3>6. "FIN_RCVD" \notin c.flags
            <4> SUFFICES ASSUME "FIN_RCVD" \in c.flags PROVE FALSE
                OBVIOUS
            <4>1. n + Len(c.rcvbuf) = InLen /\ FinSeen(c) = 1
                BY <2>2 DEF Receiver, FinSeen
            <4>2. a = InLen + 1 + 1
                BY <3>3, <4>1 DEF Taken
            <4>3. f + l <= InLen + 1
                <5>1. InLen \in Nat
                    BY TcpAssumption
                <5> QED BY <3>1, <5>1, SMT DEF Sound
            <4>4. InLen \in Nat /\ f \in Nat /\ l \in Nat /\ a <= f + l
                BY <3>2, <3>4, TcpAssumption
            <4> HIDE DEF f, a, l
            <4> QED BY <4>2, <4>3, <4>4, SMT
        <3>7. Receiver(d1, n)
            BY <1>6, <1>8, <2>2
        <3> QED BY <2>1, <3>1, <3>5, <3>6, <3>7, <1>6
    <2> QED BY <2>1, <2>2, <1>6 DEF Keeps
<1> QED BY <1>1, <1>9, <1>10, KeepsNothing

(* However many of the chain are due                                       *)
LEMMA DrainingKeeps ==
    ASSUME NEW c, Typed(c), NEW k \in Nat
    PROVE  Keeps(c, Draining(c)[k])
<1> DEFINE D(i) == Draining(c)[i]
           S == {i \in Nat : Keeps(c, D(i))}
<1>1. D(0) = c /\ \A i \in Nat : D(i + 1) = FromChain(D(i))
    BY DrainingDef
<1> HIDE DEF D
<1>2. 0 \in S
    BY <1>1, KeepsNothing
<1>3. ASSUME NEW i \in Nat, i \in S PROVE i + 1 \in S
    <2>1. Keeps(D(i), D(i + 1))
        BY <1>1, <1>3, FromChainKeeps DEF Keeps
    <2> QED BY <1>3, <2>1, KeepsOn
<1> HIDE DEF S
<1>4. k \in S
    BY <1>2, <1>3, Induction
<1> QED BY <1>4 DEF S, D

(* What a segment does to the socket *)
Gets(c, d, s) ==
    /\ Typed(d) /\ (Reopens(c) => Reopens(d))
    /\ Sound(s) => \A n \in Nat : Receiver(c, n) => Receiver(d, n)

(* Before and after such a segment come functions that keep the receiver.  *)
LEMMA GetsOn ==
    ASSUME NEW c, NEW d, NEW e, NEW s
    PROVE  /\ Keeps(c, d) => Gets(c, d, s)
           /\ Keeps(c, d) /\ Gets(d, e, s) => Gets(c, e, s)
           /\ Gets(c, d, s) /\ Keeps(d, e) => Gets(c, e, s)
BY Zenon DEF Keeps, Gets

(* The elements of a sequence decide what set it is over. *)
LEMMA SeqOver ==
    ASSUME NEW T, NEW s \in Seq(T), NEW U, \A i \in 1 .. Len(s) : s[i] \in U
    PROVE  s \in Seq(U)
BY SMT

(* Out of order it waits; *)
LEMMA KeptGets ==
    ASSUME NEW c, Typed(c), NEW s \in InSegments, s.data # <<>> \/ "FIN" \in s.flags
    PROVE  Gets(c, Kept(c, s), s)
<1> DEFINE ch == Insert(c.chain, s)
           k == c.count + total_length(s)
           d == WithChain(c, ch, k)
<1>1. Kept(c, s) = Owes(d, "IMMEDIATELY")
    <2>1. DOMAIN c = Fields
        BY DEF Typed
    <2> QED BY <2>1 DEF Kept, WithChain
<1>2. c.chain \in Seq(InSegments)
    BY DEF Typed
<1>3. ch \in Seq(InSegments)
    BY <1>2, InsertIsChain
<1>4. k \in Int
    <2>1. c.count \in Int /\ total_length(s) \in Int
        BY LengthIs DEF Typed
    <2> QED BY <2>1, SMT
<1>5. ASSUME NEW n \in Nat, Receiver(c, n), Sound(s) PROVE \A i \in 1 .. Len(ch) : Brings(ch[i])
    <2> DEFINE U == {x \in InSegments : Brings(x)}
    <2>1. \A i \in 1 .. Len(c.chain) : c.chain[i] \in U
        <3>1. \A i \in 1 .. Len(c.chain) : c.chain[i] \in InSegments
            BY <1>2
        <3>2. \A i \in 1 .. Len(c.chain) : Brings(c.chain[i])
            BY <1>5 DEF Receiver
        <3> QED BY <3>1, <3>2
    <2>2. s \in U
        BY <1>5 DEF Brings
    <2>3. \A x \in U : Brings(x)
        OBVIOUS
    <2> HIDE DEF U
    <2>4. c.chain \in Seq(U)
        BY <1>2, <2>1, SeqOver
    <2>5. ch \in Seq(U)
        BY <2>2, <2>4, InsertIsChain
    <2> HIDE DEF ch
    <2>6. \A i \in 1 .. Len(ch) : ch[i] \in U
        BY <2>5
    <2> QED BY <2>3, <2>6
<1> HIDE DEF ch, k
<1>6. /\ Typed(d) /\ (Reopens(c) => Reopens(d))
      /\ \A n \in Nat : Receiver(c, n) /\ (\A i \in 1 .. Len(ch) : Brings(ch[i])) => Receiver(d, n)
    BY <1>3, <1>4, ChainKeeps
<1> HIDE DEF d
<1>7. Gets(c, d, s)
    BY <1>5, <1>6 DEF Gets
<1>8. Keeps(d, Owes(d, "IMMEDIATELY"))
    BY <1>6, OwesKeeps
<1> QED BY <1>1, <1>7, <1>8, GetsOn

(* in order it is taken, with what waited for it. *)
LEMMA AddinpbufGets ==
    ASSUME NEW c, Typed(c), NEW s \in InSegments, "FIN_RCVD" \notin c.flags
    PROVE  Gets(c, addinpbuf(c, s), s)
<1> DEFINE inorder == s.seq = c.sndack
           o == IF s.data # <<>> THEN Owes(c, "DELAY") ELSE c
           k == Kept(c, s)
<1>1. addinpbuf(c, s) =
          IF s.data = <<>> /\ "FIN" \notin s.flags THEN c
          ELSE IF inorder /\ c.count = 0 THEN Take(o, s, 0)
          ELSE IF inorder THEN Drained(k)
          ELSE IF Fits(c, s) THEN k ELSE c
    BY DEF addinpbuf
<1>2. Gets(c, c, s)
    BY KeepsNothing, GetsOn
<1>3. ASSUME inorder PROVE Gets(c, Take(o, s, 0), s)
    <2>1. Keeps(c, o) /\ Typed(o) /\ o.sndack = c.sndack /\ o.flags = c.flags
        <3>1. Keeps(c, Owes(c, "DELAY")) /\ Keeps(c, c)
            BY OwesKeeps, KeepsNothing
        <3>2. DOMAIN c = Fields
            BY DEF Typed
        <3>3. Owes(c, "DELAY").sndack = c.sndack /\ Owes(c, "DELAY").flags = c.flags
            BY <3>2, SMT DEF Owes, Fields
        <3> QED BY <3>1, <3>3 DEF Keeps
    <2> HIDE DEF o
    <2> DEFINE d == Take(o, s, 0)
    <2>2. /\ Typed(d) /\ (Reopens(o) => Reopens(d))
          /\ \A n \in Nat :
                 /\ Receiver(o, n) /\ Sound(s) /\ "FIN_RCVD" \notin o.flags
                 /\ From(s.seq) + 0 = From(o.sndack) /\ 0 <= Len(s.data)
                 => Receiver(d, n)
        BY <2>1, TakeKeeps
    <2> HIDE DEF d
    <2>3. From(s.seq) + 0 = From(o.sndack) /\ 0 <= Len(s.data)
        <3>1. s.seq \in Seqs /\ Len(s.data) \in Nat
            BY DEF InSegments
        <3>2. From(s.seq) \in Nat
            BY <3>1, FromIs
        <3> QED BY <1>3, <2>1, <3>1, <3>2, SMT
    <2>4. Gets(o, d, s)
        BY <2>1, <2>2, <2>3 DEF Gets
    <2>5. Gets(c, d, s)
        BY <2>1, <2>4, GetsOn
    <2> QED BY <2>5 DEF d
<1>4. ASSUME s.data # <<>> \/ "FIN" \in s.flags PROVE Gets(c, k, s) /\ Gets(c, Drained(k), s)
    <2>1. Gets(c, k, s)
        BY <1>4, KeptGets
    <2> HIDE DEF k
    <2>2. Typed(k) /\ Len(k.chain) \in Nat
        <3>1. Typed(k) /\ k.chain \in Seq(InSegments)
            BY <2>1 DEF Gets, Typed
        <3> QED BY <3>1
    <2>3. Keeps(k, Drained(k))
        BY <2>2, DrainingKeeps DEF Drained
    <2> QED BY <2>1, <2>3, GetsOn
<1> HIDE DEF o, k, inorder
<1> QED BY <1>1, <1>2, <1>3, <1>4, Zenon

(* A segment with data or FIN, and one without                             *)
LEMMA ReceivedGets ==
    ASSUME NEW c, Typed(c), NEW s \in InSegments
    PROVE  Gets(c, Received(c, s), s)
<1>1. Gets(c, c, s) /\ Gets(c, Owes(c, "IMMEDIATELY"), s)
    BY KeepsNothing, OwesKeeps, GetsOn
<1> QED BY <1>1, AddinpbufGets DEF Received

(* All of fnet_tcp_dataprocess                                             *)
LEMMA DataprocessGets ==
    ASSUME NEW c, Typed(c), NEW s \in InSegments, NEW push
    PROVE  Gets(c, dataprocess(c, s, push), s)
<1> DEFINE a == On(c, "keepalive")
           e == Off(a, "abort")
           f == Acked(e, s)
           g == Received(f, s)
           h == AckedAtOnce(g, push)
           i == MoreSent(h)
           j == Persisting(i)
           k == Retransmitting(j)
           l == Answered(k)
<1>1. dataprocess(c, s, push) = l
    BY DEF dataprocess
<1>2. "keepalive" \in Timers /\ "abort" \in Timers /\ s.ack \in Seqs
    BY DEF Timers, InSegments
<1>3. Keeps(c, a) /\ Typed(a)
    BY <1>2, TimersKeep DEF Keeps
<1> HIDE DEF a
<1>4. Keeps(a, e) /\ Typed(e)
    BY <1>2, <1>3, TimersKeep DEF Keeps
<1> HIDE DEF e
<1>5. Keeps(e, f) /\ Typed(f)
    BY <1>2, <1>4, AckedKeeps DEF Keeps
<1> HIDE DEF f
<1>6. Gets(f, g, s) /\ Typed(g)
    BY <1>5, ReceivedGets DEF Gets
<1> HIDE DEF g
<1>7. Keeps(g, h) /\ Typed(h)
    BY <1>6, AnsweredKeeps DEF Keeps
<1> HIDE DEF h
<1>8. Keeps(h, i) /\ Typed(i)
    BY <1>7, MoreSentKeeps DEF Keeps
<1> HIDE DEF i
<1>9. Keeps(i, j) /\ Typed(j)
    BY <1>8, PersistingKeeps DEF Keeps
<1> HIDE DEF j
<1>10. Keeps(j, k) /\ Typed(k)
    BY <1>9, PersistingKeeps DEF Keeps
<1> HIDE DEF k
<1>11. Keeps(k, l)
    BY <1>10, AnsweredKeeps
<1> HIDE DEF l
<1>12. Keeps(c, f)
    BY <1>3, <1>4, <1>5, KeepsOn
<1>13. Keeps(g, l)
    BY <1>7, <1>8, <1>9, <1>10, <1>11, KeepsOn
<1>14. Gets(c, g, s)
    BY <1>6, <1>12, GetsOn
<1> QED BY <1>1, <1>13, <1>14, GetsOn

(* A segment to the board gives the connection up, opens it, or is a piece *)
(* of the stream.                                                          *)
Comes(s) == "RST" \in s.flags \/ "SYN" \in s.flags \/ Sound(s)

(* What becomes of the receiver: what it has stays to be read when the     *)
(* connection is closed.                                                   *)
Results(c, d, s) ==
    /\ Typed(d)
    /\ \/ d.state = "CLOSED" /\ d.rcvbuf = c.rcvbuf
       \/ /\ Reopens(c) => Reopens(d)
          /\ Comes(s) => \A n \in Nat : Receiver(c, n) => Receiver(d, n)

(* What keeps the receiver results in one.                                 *)
LEMMA KeepsResults == ASSUME NEW c, NEW d, NEW s, Keeps(c, d) PROVE Results(c, d, s)
BY DEF Keeps, Results

(* A socket that closes leaves what was received, with or without a RST.   *)
LEMMA CloseskResults ==
    ASSUME NEW c, Typed(c)
    PROVE  /\ Typed(closesk(c)) /\ closesk(c).state = "CLOSED" /\ closesk(c).rcvbuf = c.rcvbuf
           /\ \A q \in Seqs : LET d == closesk(sendrst(c, q))
                              IN  Typed(d) /\ d.state = "CLOSED" /\ d.rcvbuf = c.rcvbuf
<1>1. ASSUME NEW x, x.rcvbuf \in Seq(1 .. InLen), x.sent \subseteq OutSegments
      PROVE  Typed(closesk(x)) /\ closesk(x).state = "CLOSED" /\ closesk(x).rcvbuf = x.rcvbuf
    <2> DEFINE d == closesk(x)
    <2>1. /\ DOMAIN d = Fields /\ d.state = "CLOSED" /\ d.rcvbuf = x.rcvbuf /\ d.sent = x.sent
          /\ d.sndseq = 0 /\ d.rcvack = 0 /\ d.maxrcvack = 0 /\ d.sndack = 0 /\ d.sndwnd = 0 /\ d.maxwnd = 0 /\ d.cwnd = 0
          /\ d.ssthresh = SeqSpace /\ d.pcount = 0 /\ d.repeats = 0 /\ d.rcvwnd = 0 /\ d.newfree = 0 /\ d.sndbuf = <<>>
          /\ d.chain = <<>> /\ d.count = 0 /\ d.timers = {} /\ d.flags = {}
        BY SMT DEF closesk, Fresh, Fields
    <2> HIDE DEF d
    <2>2. 0 \in Seqs /\ SeqSpace \in Nat /\ 0 \in Nat /\ 0 \in Int /\ 0 \in 0 .. 4 /\ 0 <= SndMax
        BY Small, SMT DEF Seqs
    <2>3. <<>> \in Seq(1 .. OutLen) /\ <<>> \in Seq(InSegments) /\ Len(<<>>) = 0
        OBVIOUS
    <2>4. "CLOSED" \in States
        BY DEF States
    <2>5. /\ d.sndbuf \in Seq(1 .. OutLen) /\ Len(d.sndbuf) <= SndMax /\ d.rcvbuf \in Seq(1 .. InLen)
          /\ d.chain \in Seq(InSegments) /\ d.timers \subseteq Timers /\ d.flags \subseteq Flags /\ d.sent \subseteq OutSegments
        BY <1>1, <2>1, <2>2, <2>3
    <2>6. d.state \in States /\ d.sndseq \in Seqs /\ d.rcvack \in Seqs /\ d.maxrcvack \in Seqs /\ d.sndack \in Seqs
        BY <2>1, <2>2, <2>4
    <2>7. /\ d.sndwnd \in Nat /\ d.maxwnd \in Nat /\ d.cwnd \in Nat /\ d.ssthresh \in Nat /\ d.pcount \in Nat
          /\ d.rcvwnd \in Nat /\ d.newfree \in Nat /\ d.repeats \in 0 .. 4 /\ d.count \in Int
        BY <2>1, <2>2
    <2>8. Typed(d)
        BY <2>1, <2>5, <2>6, <2>7 DEF Typed
    <2> QED BY <2>1, <2>8 DEF d
<1>2. DOMAIN c = Fields /\ c.rcvbuf \in Seq(1 .. InLen) /\ c.sent \subseteq OutSegments
    BY DEF Typed
<1>3. ASSUME NEW q \in Seqs
      PROVE  sendrst(c, q).rcvbuf = c.rcvbuf /\ sendrst(c, q).sent \subseteq OutSegments
    <2> DEFINE r == [seq |-> q, data |-> <<>>, flags |-> {"RST"}, wnd |-> 0, ack |-> 0]
    <2>1. r \in OutSegments
        <3>1. 0 \in Seqs /\ <<>> \in Data /\ {"RST"} \in SUBSET Bits
            BY DataIsAny, Small, SMT DEF Seqs, Bits
        <3> QED BY <3>1, SMT DEF OutSegments
    <2> HIDE DEF r
    <2>2. sendrst(c, q) = [c EXCEPT !.sent = @ \cup {r}]
        BY DEF sendrst, r
    <2>3. sendrst(c, q).rcvbuf = c.rcvbuf /\ sendrst(c, q).sent = c.sent \cup {r}
        BY <1>2, <2>2, SMT DEF Fields
    <2> QED BY <1>2, <2>1, <2>3
<1>4. Typed(closesk(c)) /\ closesk(c).state = "CLOSED" /\ closesk(c).rcvbuf = c.rcvbuf
    BY <1>1, <1>2
<1>5. ASSUME NEW q \in Seqs
      PROVE  LET d == closesk(sendrst(c, q)) IN Typed(d) /\ d.state = "CLOSED" /\ d.rcvbuf = c.rcvbuf
    BY <1>1, <1>2, <1>3
<1> QED BY <1>4, <1>5

(* A segment that begins where the buffer ends, or after it                *)
LEMMA CheckedResults ==
    ASSUME NEW c, Typed(c), NEW s \in InSegments, NEW push
    PROVE  Results(c, Checked(c, s, push), s)
<1> DEFINE w == SetWindow(c, s)
           p == dataprocess(w, s, push)
<1>1. Checked(c, s, push) =
          IF "RST" \in s.flags THEN IF "ACK" \in s.flags THEN c ELSE closesk(c)
          ELSE IF "SYN" \in s.flags THEN closesk(sendrst(c, s.ack))
          ELSE IF "ACK" \notin s.flags THEN c
          ELSE IF hit(c.rcvack, c.maxrcvack, s.ack) THEN p
          ELSE IF Above(s.ack, c.maxrcvack) THEN sendack(c) ELSE c
    BY DEF Checked
<1>2. s.ack \in Seqs /\ s.wnd \in Nat
    BY DEF InSegments
<1>3. Results(c, closesk(c), s) /\ Results(c, closesk(sendrst(c, s.ack)), s)
    BY <1>2, CloseskResults DEF Results
<1>4. Results(c, c, s) /\ Results(c, sendack(c), s)
    BY KeepsNothing, SendackKeeps, KeepsResults
<1>5. ASSUME "RST" \notin s.flags, "SYN" \notin s.flags PROVE Results(c, p, s)
    <2>1. Keeps(c, w) /\ Typed(w)
        BY <1>2, SetWindowKeeps DEF Keeps
    <2> HIDE DEF w
    <2>2. Gets(w, p, s)
        BY <2>1, DataprocessGets
    <2>3. Gets(c, p, s)
        BY <2>1, <2>2, GetsOn
    <2> QED BY <2>3, <1>5 DEF Gets, Results, Comes
<1> HIDE DEF p
<1> QED BY <1>1, <1>3, <1>4, <1>5

(* A number that is not above in the stream is not above for               *)
(* FNET_TCP_COMP_G.                                                        *)
LEMMA NotAbove ==
    ASSUME NEW x \in Seqs, NEW y \in Seqs, From(x) <= From(y), From(y) <= 2 * (SeqSpace \div 8)
    PROVE  ~Above(x, y)
<1> DEFINE e == SeqSpace \div 8
<1>1. ServerISN \in Seqs
    BY TcpAssumption DEF Seqs
<1>2. e \in Nat /\ 8 * e <= SeqSpace /\ From(x) <= From(y) /\ From(y) <= 2 * e /\ SeqSpace \in Nat \ {0} /\ RcvMax \in Nat /\ RcvMax < e
    BY Eighth
<1>3. ServerISN \in Nat /\ x \in Nat /\ y \in Nat /\ ServerISN < SeqSpace /\ x < SeqSpace /\ y < SeqSpace
    BY <1>1, <1>2, SMT DEF Seqs
<1>4. ~(getsize(y, x) \in 1 .. e)
    <2> HIDE DEF e
    <2> QED BY <1>2, <1>3, SMT DEF From, getsize
<1> QED BY <1>4, AboveIsDistance

(* What is cut off on the right, beyond the window, never takes the FIN    *)
(* off its data: the server sends it within the window it knows.           *)
LEMMA CutRightComes ==
    ASSUME NEW c, Typed(c), NEW s \in InSegments
    PROVE  LET t == CutRight(c, s)
           IN  /\ t \in InSegments
               /\ \A n \in Nat : Receiver(c, n) /\ Comes(s) /\ Above(End(s), RightEdge(c)) => Comes(t)
<1> DEFINE r == RightEdge(c)
           k == getsize(r, End(s))
           m == Len(s.data) - k
           x == SubSeq(s.data, 1, m)
           t == [s EXCEPT !.data = x]
<1>1. s.seq \in Seqs /\ s.data \in Seq(1 .. InLen) /\ Len(s.data) \in Nat
    BY DEF InSegments
<1>2. r \in Seqs /\ End(s) \in Seqs
    <2>1. c.sndack \in Seqs /\ c.rcvwnd \in Int /\ Len(s.data) \in Int
        <3>1. c.sndack \in Seqs /\ c.rcvwnd \in Nat
            BY DEF Typed
        <3> QED BY <3>1, <1>1, SMT
    <2>2. c.sndack + c.rcvwnd \in Int /\ s.seq + Len(s.data) \in Int
        BY <1>1, <2>1, NumbersAreInts
    <2> QED BY <2>2, WrapInRange DEF RightEdge, End
<1>3. k \in Nat
    BY <1>2, SizeInRange
<1>4. m \in Int /\ m <= Len(s.data)
    <2> HIDE DEF k
    <2> QED BY <1>1, <1>3, SMT
<1>5. CutRight(c, s) = t
    BY DEF CutRight
<1> HIDE DEF m
<1>6. x \in Seq(1 .. InLen) /\ Len(x) = (IF 1 <= m THEN m ELSE 0) /\ \A i \in 1 .. m : x[i] = s.data[i]
    <2> DEFINE T == 1 .. InLen
               sd == s.data
    <2>1. sd \in Seq(T) /\ 1 \in Int /\ 1 >= 1 /\ m <= Len(sd)
        BY <1>1, <1>4
    <2> HIDE DEF T, sd
    <2>2. SubSeq(sd, 1, m) \in Seq(T) /\ Len(SubSeq(sd, 1, m)) = (IF 1 <= m THEN 1 + m - 1 ELSE 0)
          /\ \A i \in 1 .. 1 + m - 1 : SubSeq(sd, 1, m)[i] = sd[1 + i - 1]
        BY <1>4, <2>1, Part
    <2>3. 1 + m - 1 = m /\ \A i \in 1 .. m : 1 + i - 1 = i
        BY <1>4, SMT
    <2>4. SubSeq(sd, 1, m) \in Seq(T) /\ Len(SubSeq(sd, 1, m)) = (IF 1 <= m THEN m ELSE 0)
          /\ \A i \in 1 .. m : SubSeq(sd, 1, m)[i] = sd[i]
        BY <2>2, <2>3
    <2> QED BY <2>4 DEF T, sd
<1> HIDE DEF x
<1>7. t \in InSegments /\ t.seq = s.seq /\ t.data = x /\ t.flags = s.flags
    BY <1>6, SMT DEF InSegments
<1> HIDE DEF t, k, r
<1>8. ASSUME NEW n \in Nat, Receiver(c, n), Comes(s), Above(End(s), RightEdge(c)) PROVE Comes(t)
    <2>1. CASE "RST" \in s.flags \/ "SYN" \in s.flags
        BY <2>1, <1>7 DEF Comes
    <2>2. CASE Sound(s)
        <3>1. "FIN" \notin s.flags
            <4> SUFFICES ASSUME "FIN" \in s.flags PROVE FALSE
                OBVIOUS
            <4> DEFINE e == SeqSpace \div 8
                       f == From(c.sndack)
                       w == c.rcvwnd
                       g == From(End(s))
            <4>1. Short /\ Opens(c, n, edge) /\ w <= RcvMax /\ w \in Nat
                BY <1>8 DEF Receiver, Typed
            <4>2. g = InLen + 1 /\ InLen <= edge
                BY <2>2, <4>1, SegmentIs DEF Sound
            <4>3. f = Taken(c, n) + 1 /\ f \in Nat /\ f <= e /\ Taken(c, n) \in Nat
                BY <1>8, SndackIs, TakenIsSmall
            <4>4. edge \in Int /\ edge <= Taken(c, n) + w
                BY <4>1 DEF Opens
            <4>5. e \in Nat /\ 8 * e <= SeqSpace /\ RcvMax < e /\ RcvMax \in Nat /\ SeqSpace \in Nat /\ InLen \in Nat
                BY Eighth, TcpAssumption
            <4>6. f + w < SeqSpace /\ f + w <= 2 * e /\ g <= f + w
                <5> HIDE DEF e, f, w, g
                <5> QED BY <4>1, <4>2, <4>3, <4>4, <4>5, SMT
            <4>7. From(RightEdge(c)) = f + w
                <5>1. c.sndack \in Seqs
                    BY DEF Typed
                <5> QED BY <4>1, <4>6, <5>1, FromIs DEF RightEdge
            <4>8. ~Above(End(s), RightEdge(c))
                BY <4>6, <4>7, <1>2, NotAbove DEF r
            <4> QED BY <4>8, <1>8
        <3>2. Sound(t)
            <4> DEFINE f == From(s.seq)
                       l == Len(s.data)
            <4>1. Len(x) <= l /\ Len(x) \in Nat /\ (x # <<>> => 1 <= m) /\ (1 <= m => Len(x) = m /\ l > 0)
                <5>1. Len(x) \in Nat /\ (x # <<>> => Len(x) # 0)
                    BY <1>6
                <5> HIDE DEF l
                <5>2. Len(x) = (IF 1 <= m THEN m ELSE 0) /\ l \in Nat /\ m \in Int /\ m <= l
                    BY <1>1, <1>4, <1>6 DEF l
                <5> QED BY <5>1, <5>2, SMT
            <4>2. x # <<>> => f + Len(x) <= InLen + 1
                <5> SUFFICES ASSUME x # <<>> PROVE f + Len(x) <= InLen + 1
                    OBVIOUS
                <5>1. s.data # <<>>
                    BY <4>1
                <5>2. f + l <= InLen + 1 /\ Short
                    BY <2>2, <5>1, <1>8 DEF Sound, Receiver
                <5>3. f \in Nat /\ InLen \in Nat
                    BY <2>2, <5>2, SegmentIs, TcpAssumption
                <5> HIDE DEF f, l
                <5>4. l \in Nat
                    BY <1>1 DEF l
                <5> QED BY <4>1, <5>2, <5>3, <5>4, SMT
            <4>3. \A i \in 1 .. Len(x) : x[i] = f - 1 + i
                <5> SUFFICES ASSUME NEW i \in 1 .. Len(x) PROVE x[i] = f - 1 + i
                    OBVIOUS
                <5>1. i \in 1 .. m /\ i \in 1 .. l
                    <6>1. l \in Nat
                        BY <1>1
                    <6> HIDE DEF l
                    <6> QED BY <4>1, <1>4, <1>6, <6>1, SMT
                <5>2. x[i] = s.data[i]
                    BY <5>1, <1>6
                <5> QED BY <5>1, <5>2, <2>2 DEF Sound
            <4> QED BY <4>2, <4>3, <3>1, <1>7, <2>2 DEF Sound
        <3> QED BY <3>2 DEF Comes
    <2> QED BY <2>1, <2>2, <1>8 DEF Comes
<1> QED BY <1>5, <1>7, <1>8

(* What lies in the window, or beyond it *)
LEMMA InWindowResults ==
    ASSUME NEW c, Typed(c), NEW s \in InSegments, NEW push
    PROVE  Results(c, InWindow(c, s, push), s)
<1> DEFINE beyond == Above(End(s), RightEdge(c))
           o == Owes(c, "IMMEDIATELY")
           t == CutRight(c, s)
           d == Checked(o, t, push)
<1>1. InWindow(c, s, push) = IF Above(s.seq, RightEdge(c)) THEN sendack(c)
                             ELSE Checked(IF beyond THEN o ELSE c, IF beyond THEN t ELSE s, push)
    BY DEF InWindow
<1>2. Results(c, sendack(c), s) /\ Results(c, Checked(c, s, push), s)
    BY SendackKeeps, KeepsResults, CheckedResults
<1>3. ASSUME beyond PROVE Results(c, d, s)
    <2>1. Keeps(c, o) /\ Typed(o) /\ o.rcvbuf = c.rcvbuf
        <3>1. Keeps(c, o) /\ DOMAIN c = Fields
            BY OwesKeeps DEF Typed
        <3>2. o.rcvbuf = c.rcvbuf
            BY <3>1, SMT DEF Owes, Fields
        <3> QED BY <3>1, <3>2 DEF Keeps
    <2>2. t \in InSegments /\ \A n \in Nat : Receiver(c, n) /\ Comes(s) => Comes(t)
        BY <1>3, CutRightComes
    <2> HIDE DEF o, t
    <2>3. Results(o, d, t)
        BY <2>1, <2>2, CheckedResults
    <2> HIDE DEF d, beyond
    <2> QED BY <2>1, <2>2, <2>3, Zenon DEF Results, Keeps
<1> HIDE DEF o, t, beyond
<1> QED BY <1>1, <1>2, <1>3

(* What was received before is cut off. *)
LEMMA CutLeftComes ==
    ASSUME NEW c, Typed(c), NEW s \in InSegments
    PROVE  LET t == CutLeft(c, s)
           IN  /\ t \in InSegments
               /\ \A n \in Nat : /\ Receiver(c, n) /\ Comes(s)
                                 /\ Above(c.sndack, s.seq) /\ Above(End(s), c.sndack)
                                 => Comes(t)
<1> DEFINE k == getsize(s.seq, c.sndack)
           x == Drop(s.data, k)
           t == [s EXCEPT !.seq = c.sndack, !.data = x]
<1>1. s.seq \in Seqs /\ s.data \in Seq(1 .. InLen) /\ Len(s.data) \in Nat /\ c.sndack \in Seqs
    BY DEF InSegments, Typed
<1>2. k \in Nat
    BY <1>1, SizeInRange
<1>3. CutLeft(c, s) = t
    BY DEF CutLeft
<1> HIDE DEF k
<1>4. x \in Seq(1 .. InLen) /\ Len(x) = (IF k <= Len(s.data) THEN Len(s.data) - k ELSE 0)
      /\ \A i \in 1 .. Len(s.data) - k : x[i] = s.data[k + i]
    <2> DEFINE T == 1 .. InLen
               sd == s.data
    <2>1. sd \in Seq(T)
        BY <1>1
    <2> HIDE DEF T, sd
    <2>2. Drop(sd, k) \in Seq(T) /\ Len(Drop(sd, k)) = (IF k <= Len(sd) THEN Len(sd) - k ELSE 0)
          /\ \A i \in 1 .. Len(sd) - k : Drop(sd, k)[i] = sd[k + i]
        BY <1>2, <2>1, DropIs
    <2> QED BY <2>2 DEF T, sd
<1> HIDE DEF x
<1>5. t \in InSegments /\ t.seq = c.sndack /\ t.data = x /\ t.flags = s.flags
    <2> DEFINE q == c.sndack
    <2>1. q \in Seqs /\ x \in Seq(1 .. InLen)
        BY <1>1, <1>4
    <2> HIDE DEF q
    <2>2. [s EXCEPT !.seq = q, !.data = x] \in InSegments
        BY <2>1 DEF InSegments
    <2>3. LET u == [s EXCEPT !.seq = q, !.data = x] IN u.seq = q /\ u.data = x /\ u.flags = s.flags
        BY DEF InSegments
    <2> QED BY <2>2, <2>3 DEF q
<1> HIDE DEF t
<1>6. ASSUME NEW n \in Nat, Receiver(c, n), Comes(s), Above(c.sndack, s.seq), Above(End(s), c.sndack) PROVE Comes(t)
    <2>1. CASE "RST" \in s.flags \/ "SYN" \in s.flags
        BY <2>1, <1>5 DEF Comes
    <2>2. CASE Sound(s)
        <3> DEFINE f == From(s.seq)
                   a == From(c.sndack)
                   l == Len(s.data)
        <3>1. Short
            BY <1>6 DEF Receiver
        <3>2. /\ f \in Nat /\ l \in Nat /\ f <= SeqSpace \div 8 /\ From(End(s)) <= SeqSpace \div 8 /\ From(End(s)) = f + l
              /\ End(s) \in Seqs
            BY <3>1, <2>2, SegmentIs
        <3>3. a = Taken(c, n) + 1 /\ a \in Nat /\ a <= SeqSpace \div 8 /\ a <= InLen + 2 /\ Taken(c, n) \in Nat
            BY <1>6, SndackIs, TakenIsSmall
        <3>4. f < a /\ a < f + l
            BY <1>1, <1>6, <3>2, <3>3, FromOrders
        <3>5. f <= a
            BY <3>2, <3>3, <3>4, SMT
        <3>6. k = a - f
            BY <1>1, <3>2, <3>3, <3>5, FromOrders DEF k
        <3>7. Len(x) = l - k /\ l > 0 /\ a + Len(x) = f + l /\ a \in 1 .. InLen + 2
            <4>1. InLen \in Nat
                BY TcpAssumption
            <4>2. f \in Nat /\ l \in Nat /\ a \in Nat /\ a <= InLen + 2
                BY <3>2, <3>3
            <4>3. Len(x) = IF k <= l THEN l - k ELSE 0
                BY <1>4
            <4> HIDE DEF f, a, l
            <4> QED BY <3>4, <3>6, <4>1, <4>2, <4>3, SMT
        <3>8. s.data # <<>>
            BY <3>7
        <3>9. \A i \in 1 .. Len(x) : x[i] = a - 1 + i
            <4> SUFFICES ASSUME NEW i \in 1 .. l - k PROVE x[i] = a - 1 + i
                BY <3>7
            <4>1. x[i] = s.data[k + i]
                BY <1>4
            <4>2. k + i \in 1 .. l /\ f - 1 + (k + i) = a - 1 + i
                <5>1. f \in Nat /\ l \in Nat /\ a \in Nat
                    BY <3>2, <3>3
                <5> HIDE DEF f, a, l
                <5> QED BY <5>1, <3>4, <3>6, SMT
            <4>3. s.data[k + i] = f - 1 + (k + i)
                BY <4>2, <2>2 DEF Sound
            <4> QED BY <4>1, <4>2, <4>3
        <3>10. Sound(t)
            <4>1. f + l <= InLen + 1 /\ ("FIN" \in s.flags => f + l = InLen + 1 /\ InLen <= edge) /\ s.flags \subseteq {"ACK", "FIN"}
                BY <2>2, <3>8 DEF Sound
            <4>2. From(t.seq) = a /\ a + Len(t.data) = f + l
                BY <3>7, <1>5
            <4> HIDE DEF f, l
            <4> QED BY <4>1, <4>2, <3>7, <3>9, <1>5, Zenon DEF Sound
        <3> QED BY <3>10 DEF Comes
    <2> QED BY <2>1, <2>2, <1>6 DEF Comes
<1> QED BY <1>3, <1>5, <1>6

(* A segment that arrives *)
LEMMA InputskResults ==
    ASSUME NEW c, Typed(c), c.state # "SYN_SENT", NEW s \in InSegments, NEW push
    PROVE  Results(c, inputsk(c, s, push), s)
<1> DEFINE old == Above(c.sndack, s.seq)
           o == Owes(c, "IMMEDIATELY")
           t == CutLeft(c, s)
           d == InWindow(o, t, push)
<1>1. inputsk(c, s, push) = IF old /\ ~Above(End(s), c.sndack) THEN sendack(c)
                            ELSE InWindow(IF old THEN o ELSE c, IF old THEN t ELSE s, push)
    BY DEF inputsk
<1>2. Results(c, sendack(c), s) /\ Results(c, InWindow(c, s, push), s)
    BY SendackKeeps, KeepsResults, InWindowResults
<1>3. ASSUME old, Above(End(s), c.sndack) PROVE Results(c, d, s)
    <2>1. Keeps(c, o) /\ Typed(o) /\ o.rcvbuf = c.rcvbuf
        <3>1. Keeps(c, o) /\ DOMAIN c = Fields
            BY OwesKeeps DEF Typed
        <3>2. o.rcvbuf = c.rcvbuf
            BY <3>1, SMT DEF Owes, Fields
        <3> QED BY <3>1, <3>2 DEF Keeps
    <2>2. t \in InSegments /\ \A n \in Nat : Receiver(c, n) /\ Comes(s) => Comes(t)
        BY <1>3, CutLeftComes
    <2> HIDE DEF o, t
    <2>3. Results(o, d, t)
        BY <2>1, <2>2, InWindowResults
    <2> HIDE DEF d, old
    <2> QED BY <2>1, <2>2, <2>3, Zenon DEF Results, Keeps
<1> HIDE DEF o, t, old
<1> QED BY <1>1, <1>2, <1>3

(* The types, and that the window is open *)
Shapes ==
    /\ Typed(b) /\ (b.state \notin {"IDLE", "CLOSED"} => Reopens(b))
    /\ toServer \subseteq OutSegments /\ toBoard \subseteq InSegments
    /\ accepted \in 0 .. OutLen /\ told \in BOOLEAN /\ knows \in BOOLEAN /\ shut \in BOOLEAN /\ edge \in Nat

(* Before the connection there is nothing to read, and no window is known. *)
Before(c) ==
    /\ got = <<>> /\ ~told /\ edge = 0
    /\ c.rcvbuf = <<>> /\ c.chain = <<>> /\ c.flags = {} /\ c.rcvwnd <= RcvMax
    /\ \A s \in toServer \cup c.sent : s.flags # {"ACK"}

(* After it the rest can be read. *)
After(c) ==
    /\ Len(got) + Len(c.rcvbuf) <= InLen
    /\ \A i \in 1 .. Len(c.rcvbuf) : c.rcvbuf[i] = Len(got) + i

Phase(c) ==
    /\ c.state \in {"IDLE", "SYN_SENT"} => Before(c)
    /\ Connected(c) => Receiver(c, Len(got))
    /\ c.state = "CLOSED" => After(c)

Reading ==
    /\ Short /\ Phase(b)
    /\ got \in Seq(Nat) /\ (\A i \in 1 .. Len(got) : got[i] = i) /\ (told => Len(got) = InLen)
    /\ \A s \in toBoard : Comes(s) /\ ("SYN" \in s.flags => From(s.seq) = 0)

(* Nothing that the phase is about changes. *)
LEMMA PhaseStays ==
    ASSUME Phase(b), b' = b, toServer' = toServer, got' = got, told' = told, edge' = edge
    PROVE  Phase(b)'
<1>1. Before(b) => Before(b)'
    BY DEF Before
<1>2. After(b) => After(b)'
    BY DEF After
<1>3. Receiver(b, Len(got)) => Receiver(b, Len(got))'
    <2>1. \A m : Opens(b, Len(got), m)' <=> Opens(b, Len(got), m)
        BY DEF Opens, Taken, FinSeen, FreeRoom
    <2>2. \A s : Brings(s)' <=> Brings(s)
        BY DEF Brings, Sound, From
    <2>3. \A s : Offered(s)' = Offered(s)
        BY DEF Offered, From
    <2>4. Taken(b, Len(got))' = Taken(b, Len(got)) /\ From(b.sndack)' = From(b.sndack) /\ Connected(b)' = Connected(b)
        BY DEF Taken, FinSeen, From, Connected
    <2> QED BY <2>1, <2>2, <2>3, <2>4 DEF Receiver
<1> QED BY <1>1, <1>2, <1>3 DEF Phase, Connected

(* What a call leaves of the receiver *)
LEMMA LeavesReceiver ==
    ASSUME NEW d, Typed(d), Leaves(d)
    PROVE  /\ Typed(b') /\ b'.sent = {} /\ b'.state = d.state /\ b'.rcvbuf = d.rcvbuf /\ b'.chain = d.chain
           /\ b'.rcvwnd = d.rcvwnd /\ b'.flags = d.flags /\ b'.sndack = d.sndack
           /\ \A s \in toServer' : s \in toServer \cup d.sent
<1>1. b' = [d EXCEPT !.sent = {}, !.owes = {}, !.memory = TRUE] /\ toServer' \in Carried(toServer, d.sent)
    BY DEF Leaves
<1>2. \A s \in toServer' : s \in toServer \cup d.sent
    BY <1>1 DEF Carried
<1>3. DOMAIN d = Fields
    BY DEF Typed
<1>4. /\ DOMAIN b' = Fields /\ b'.sent = {}
      /\ b'.sndseq = d.sndseq /\ b'.rcvack = d.rcvack /\ b'.repeats = d.repeats /\ b'.sndbuf = d.sndbuf
      /\ b'.state = d.state /\ b'.maxrcvack = d.maxrcvack /\ b'.rcvbuf = d.rcvbuf /\ b'.sndack = d.sndack
      /\ b'.sndwnd = d.sndwnd /\ b'.maxwnd = d.maxwnd /\ b'.rcvwnd = d.rcvwnd /\ b'.newfree = d.newfree
      /\ b'.cwnd = d.cwnd /\ b'.ssthresh = d.ssthresh /\ b'.pcount = d.pcount /\ b'.count = d.count
      /\ b'.chain = d.chain /\ b'.timers = d.timers /\ b'.flags = d.flags
    BY <1>1, <1>3, SMT DEF Fields
<1>5. Typed(b')
    BY <1>4 DEF Typed
<1> QED BY <1>2, <1>4, <1>5

(* A call that keeps the types,                                            *)
LEMMA CallKeepsShapes ==
    ASSUME Shapes, NEW d, Typed(d), Leaves(d), d.state \notin {"IDLE", "CLOSED"} => Reopens(d),
           UNCHANGED <<toBoard, server>>, accepted' \in 0 .. OutLen, told' \in BOOLEAN
    PROVE  Shapes'
<1>1. Typed(b') /\ b'.state = d.state /\ b'.rcvbuf = d.rcvbuf /\ b'.rcvwnd = d.rcvwnd
      /\ \A s \in toServer' : s \in toServer \cup d.sent
    BY LeavesReceiver
<1>2. toServer' \subseteq OutSegments
    BY <1>1 DEF Shapes, Typed
<1>3. b'.state \notin {"IDLE", "CLOSED"} => Reopens(b')
    BY <1>1 DEF Reopens
<1>4. Typed(b)' /\ (b.state \notin {"IDLE", "CLOSED"} => Reopens(b))'
    BY <1>1, <1>3 DEF Typed, Reopens
<1>5. toBoard' = toBoard /\ knows' = knows /\ shut' = shut /\ edge' = edge
    BY DEF server
<1> QED BY <1>2, <1>4, <1>5 DEF Shapes

(* A connection goes on: n bytes were read. *)
LEMMA ReceiverStays ==
    ASSUME NEW d, Typed(d), Leaves(d), UNCHANGED edge, NEW n, Receiver(d, n), told' => "FIN_RCVD" \in d.flags,
           n = Len(got)'
    PROVE  Phase(b)'
<1>1. b'.sent = {} /\ b'.state = d.state /\ b'.rcvbuf = d.rcvbuf /\ b'.chain = d.chain
      /\ b'.rcvwnd = d.rcvwnd /\ b'.flags = d.flags /\ b'.sndack = d.sndack
      /\ \A s \in toServer' : s \in toServer \cup d.sent
    BY LeavesReceiver
<1>2. FinSeen(b)' = FinSeen(d) /\ FreeRoom(b)' = FreeRoom(d)
    BY <1>1 DEF FinSeen, FreeRoom
<1>3. Taken(b, Len(got))' = Taken(d, n)
    BY <1>1, <1>2 DEF Taken
<1>4. \A m : Opens(d, n, m) => Opens(b', Len(got)', m)
    BY <1>1, <1>2, <1>3 DEF Opens, FreeRoom, Taken, FinSeen
<1>5. \A x : From(x)' = From(x)
    OBVIOUS
<1>6. Receiver(b, Len(got))'
    BY <1>1, <1>3, <1>4 DEF Receiver, Connected, Brings, Sound, Offered, From
<1>7. Connected(d)
    BY DEF Receiver
<1> QED BY <1>1, <1>6, <1>7 DEF Phase, Connected

(* and one that keeps the phase of the connection                          *)
LEMMA CallKeepsReading ==
    ASSUME Reading, NEW d, Typed(d), Leaves(d), UNCHANGED <<toBoard, got, told, server>>, Phase(d)
    PROVE  Reading'
<1>1. b'.sent = {} /\ b'.state = d.state /\ b'.rcvbuf = d.rcvbuf /\ b'.chain = d.chain
      /\ b'.rcvwnd = d.rcvwnd /\ b'.flags = d.flags
      /\ \A s \in toServer' : s \in toServer \cup d.sent
    BY LeavesReceiver
<1>2. edge' = edge /\ told' = told /\ got' = got /\ toBoard' = toBoard
    BY DEF server
<1>3. CASE Connected(d)
    <2>1. Receiver(d, Len(got)) /\ Len(got)' = Len(got)
        BY <1>2, <1>3 DEF Phase
    <2>2. told' => "FIN_RCVD" \in d.flags
        BY <2>1, <1>2 DEF Receiver
    <2>3. Phase(b)'
        BY <1>2, <2>1, <2>2, ReceiverStays
    <2> QED BY <1>2, <2>3 DEF Reading, Comes, Sound
<1>4. CASE ~Connected(d)
    <2>1. Phase(b)'
        BY <1>1, <1>2, <1>4 DEF Phase, Before, After, Connected
    <2> QED BY <1>2, <2>1 DEF Reading, Comes, Sound
<1> QED BY <1>3, <1>4

(* What keeps the receiver keeps both. *)
LEMMA KeepsBoth ==
    ASSUME Shapes, Connected(b), NEW d, Keeps(b, d), Leaves(d), UNCHANGED <<toBoard, got, told, server>>,
           accepted' \in 0 .. OutLen
    PROVE  Shapes' /\ (Reading => Reading')
<1>1. Typed(d) /\ Reopens(d)
    BY DEF Keeps, Shapes, Connected
<1>2. Shapes'
    <2>1. told' \in BOOLEAN
        BY DEF Shapes
    <2> QED BY <1>1, <2>1, CallKeepsShapes
<1>3. ASSUME Reading PROVE Reading'
    <2>1. Len(got) \in Nat /\ Receiver(b, Len(got))
        BY <1>3 DEF Reading, Phase
    <2>2. Receiver(d, Len(got))
        BY <2>1 DEF Keeps
    <2>3. Phase(d)
        BY <2>2 DEF Phase, Receiver, Connected
    <2> QED BY <1>1, <1>3, <2>3, CallKeepsReading
<1> QED BY <1>2, <1>3

(* A connection that is closed leaves what was received, or nothing. *)
LEMMA ClosedBoth ==
    ASSUME Shapes, NEW d, Typed(d), d.state = "CLOSED", d.rcvbuf = b.rcvbuf \/ d.rcvbuf = <<>>, Leaves(d),
           UNCHANGED <<toBoard, accepted, got, told, server>>
    PROVE  Shapes' /\ (Reading => Reading')
<1>1. Shapes'
    <2>1. told' \in BOOLEAN /\ accepted' \in 0 .. OutLen
        BY DEF Shapes
    <2> QED BY <2>1, CallKeepsShapes
<1>2. ASSUME Reading PROVE Reading'
    <2>1. Len(got) \in Nat /\ InLen \in Nat /\ Len(<<>>) = 0
        BY <1>2, TcpAssumption DEF Reading
    <2>2. After(b) /\ Len(got) <= InLen
        <3>1. CASE b.state \in {"IDLE", "SYN_SENT"}
            <4>1. got = <<>> /\ b.rcvbuf = <<>>
                BY <1>2, <3>1 DEF Reading, Phase, Before
            <4>2. Len(got) = 0 /\ Len(b.rcvbuf) = 0
                BY <4>1
            <4> QED BY <2>1, <4>2, SMT DEF After
        <3>2. CASE Connected(b)
            <4>1. After(b) /\ Len(b.rcvbuf) \in Nat
                BY <1>2, <3>2 DEF Reading, Phase, Receiver, After, Shapes, Typed
            <4> QED BY <2>1, <4>1, SMT DEF After
        <3>3. CASE b.state = "CLOSED"
            <4>1. After(b) /\ Len(b.rcvbuf) \in Nat
                BY <1>2, <3>3 DEF Reading, Phase, Shapes, Typed
            <4> QED BY <2>1, <4>1, SMT DEF After
        <3> QED BY <3>1, <3>2, <3>3 DEF Shapes, Typed, States, Connected
    <2>3. After(d)
        <3>1. CASE d.rcvbuf = b.rcvbuf
            BY <2>2, <3>1 DEF After
        <3>2. CASE d.rcvbuf = <<>>
            <4>1. Len(d.rcvbuf) = 0
                BY <3>2
            <4> QED BY <2>1, <2>2, <4>1, SMT DEF After
        <3> QED BY <3>1, <3>2
    <2>4. Phase(d)
        BY <2>3 DEF Phase, Connected
    <2> QED BY <1>2, <2>4, CallKeepsReading
<1> QED BY <1>1, <1>2

(* Whether there is memory is no concern of the receiver.                  *)
LEMMA MemoryKeeps ==
    ASSUME NEW c, Typed(c), NEW m
    PROVE  /\ Keeps(c, [c EXCEPT !.memory = m]) /\ Typed([c EXCEPT !.memory = m])
           /\ SameStream(c, [c EXCEPT !.memory = m])
<1> DEFINE d == [c EXCEPT !.memory = m]
<1>1. Typed(d) /\ SameStream(c, d)
    BY SMT DEF Typed, Fields, SameStream
<1> QED BY <1>1, SameKeeps

(* The answer to a SYN: the server's first byte is awaited. *)
Established(c, s) == [sendack(Answering(c, s)) EXCEPT !.state = "ESTABLISHED"]

(* What the board takes from a SYN                                         *)
LEMMA AnsweringIs ==
    ASSUME NEW c, Typed(c), NEW s \in InSegments
    PROVE  LET a == Answering(c, s)
           IN  /\ Typed(a) /\ a.rcvbuf = c.rcvbuf /\ a.chain = c.chain /\ a.flags = c.flags /\ a.sent = c.sent
               /\ a.rcvwnd = c.rcvwnd /\ a.sndack = Wrap(s.seq + 1)
<1> DEFINE w == SetWindow(c, s)
           x == Wrap(s.seq + 1)
           k == s.ack
           ts == (w.timers \ {"retransmission", "connection"}) \cup {"keepalive"}
           d == [w EXCEPT !.sndack = x, !.rcvack = k, !.cwnd = SndMss, !.timers = ts]
<1>1. s.seq \in Seqs /\ k \in Seqs /\ s.wnd \in Nat
    BY DEF InSegments
<1>2. x \in Seqs
    <2>1. s.seq + 1 \in Int
        <3>1. s.seq \in Nat
            BY <1>1, NumbersAreInts
        <3> QED BY <3>1
    <2> QED BY <2>1, WrapInRange
<1>3. Keeps(c, w) /\ Typed(w)
    BY <1>1, SetWindowKeeps DEF Keeps
<1>4. w.rcvbuf = c.rcvbuf /\ w.chain = c.chain /\ w.flags = c.flags /\ w.sent = c.sent /\ w.rcvwnd = c.rcvwnd
    BY SMT DEF SetWindow, Typed, Fields
<1>5. Answering(c, s) = [w EXCEPT !.sndack = Wrap(s.seq + 1), !.rcvack = s.ack, !.cwnd = SndMss,
                                  !.timers = (@ \ {"retransmission", "connection"}) \cup {"keepalive"}]
    BY DEF Answering
<1> HIDE DEF w
<1>6. Answering(c, s) = d
    BY <1>3, <1>5, SMT DEF Typed, Fields
<1>7. ts \subseteq Timers /\ SndMss \in Nat
    BY <1>3, Small DEF Typed, Timers
<1> HIDE DEF x, k, ts
<1>8. Typed(d) /\ d.rcvbuf = w.rcvbuf /\ d.chain = w.chain /\ d.flags = w.flags /\ d.sent = w.sent
      /\ d.rcvwnd = w.rcvwnd /\ d.sndack = x
    <2>1. DOMAIN w = Fields
        BY <1>3 DEF Typed
    <2>2. /\ DOMAIN d = Fields /\ d.sndack = x /\ d.rcvack = k /\ d.cwnd = SndMss /\ d.timers = ts
          /\ d.state = w.state /\ d.sndseq = w.sndseq /\ d.maxrcvack = w.maxrcvack /\ d.sndwnd = w.sndwnd
          /\ d.maxwnd = w.maxwnd /\ d.rcvwnd = w.rcvwnd /\ d.newfree = w.newfree /\ d.ssthresh = w.ssthresh
          /\ d.pcount = w.pcount /\ d.repeats = w.repeats /\ d.count = w.count /\ d.sndbuf = w.sndbuf
          /\ d.rcvbuf = w.rcvbuf /\ d.chain = w.chain /\ d.flags = w.flags /\ d.sent = w.sent
        BY <2>1, SMT DEF Fields
    <2> HIDE DEF d
    <2> QED BY <2>2, <1>1, <1>2, <1>3, <1>7 DEF Typed
<1> HIDE DEF d
<1> QED BY <1>4, <1>6, <1>8 DEF x

(* The state changes alone.                                                *)
LEMMA StateIsSet ==
    ASSUME NEW c, Typed(c)
    PROVE  LET d == [c EXCEPT !.state = "ESTABLISHED"]
           IN  /\ Typed(d) /\ d.state = "ESTABLISHED" /\ d.rcvbuf = c.rcvbuf /\ d.chain = c.chain /\ d.flags = c.flags
               /\ d.sent = c.sent /\ d.rcvwnd = c.rcvwnd /\ d.sndack = c.sndack
<1>1. "ESTABLISHED" \in States
    BY DEF States
<1> QED BY <1>1, SMT DEF Typed, Fields

(* It is a receiver that has nothing yet.                                  *)
LEMMA EstablishedReceives ==
    ASSUME NEW c, Typed(c), c.sent = {}, NEW s \in InSegments
    PROVE  /\ Typed(Established(c, s)) /\ Reopens(Established(c, s)) /\ Established(c, s).state = "ESTABLISHED"
           /\ Short /\ Before(c) /\ From(s.seq) = 0 => Receiver(Established(c, s), 0)
<1> DEFINE a == Answering(c, s)
           e == [a EXCEPT !.state = "ESTABLISHED"]
           f == sendack(a)
           d == [f EXCEPT !.state = "ESTABLISHED"]
<1>1. /\ Typed(a) /\ a.rcvbuf = c.rcvbuf /\ a.chain = c.chain /\ a.flags = c.flags /\ a.sent = {}
      /\ a.rcvwnd = c.rcvwnd /\ a.sndack = Wrap(s.seq + 1)
    BY AnsweringIs
<1>2. Established(c, s) = d
    BY DEF Established
<1> HIDE DEF a
<1>3. /\ Typed(e) /\ e.state = "ESTABLISHED" /\ e.rcvbuf = a.rcvbuf /\ e.chain = a.chain /\ e.flags = a.flags
      /\ e.sent = a.sent /\ e.rcvwnd = a.rcvwnd /\ e.sndack = a.sndack
    BY <1>1, StateIsSet
<1>4. Typed(f) /\ Announced(a, f)
    BY <1>1, SendackKeeps DEF Keeps
<1> HIDE DEF e, f
<1>5. /\ Typed(d) /\ d.state = "ESTABLISHED" /\ d.rcvbuf = f.rcvbuf /\ d.chain = f.chain /\ d.flags = f.flags
      /\ d.sent = f.sent /\ d.rcvwnd = f.rcvwnd /\ d.sndack = f.sndack
    BY <1>4, StateIsSet
<1> HIDE DEF d
<1>6. Announced(e, d)
    <2>1. getrcvwnd(e) = getrcvwnd(a)
        BY <1>3 DEF getrcvwnd, FreeRoom
    <2> QED BY <2>1, <1>3, <1>4, <1>5 DEF Announced
<1>7. Keeps(e, d) /\ Reopens(d)
    BY <1>3, <1>5, <1>6, AnnouncingKeeps
<1>8. ASSUME Short, Before(c), From(s.seq) = 0 PROVE Receiver(e, 0)
    <2>1. e.rcvbuf = <<>> /\ e.chain = <<>> /\ e.flags = {} /\ e.sent = {} /\ e.rcvwnd <= RcvMax /\ edge = 0 /\ ~told
          /\ \A x \in toServer : x.flags # {"ACK"}
        BY <1>1, <1>3, <1>8 DEF Before
    <2>2. Len(e.rcvbuf) = 0 /\ Len(e.chain) = 0 /\ FinSeen(e) = 0 /\ InLen \in Nat
        BY <2>1, TcpAssumption DEF FinSeen
    <2>3. Taken(e, 0) = 0
        BY <2>2, SMT DEF Taken
    <2>4. From(e.sndack) = 1
        <3>1. s.seq \in Seqs /\ 1 \in Nat /\ 0 + 1 < SeqSpace
            BY Eighth, TcpAssumption, SMT DEF InSegments
        <3>2. From(Wrap(s.seq + 1)) = 0 + 1
            BY <1>8, <3>1, FromIs
        <3> QED BY <3>2, <1>1, <1>3, SMT
    <2>5. Opens(e, 0, 0)
        <3>1. e.rcvwnd \in Nat /\ FreeRoom(e) \in Nat
            BY <1>3, WindowOf DEF Typed
        <3> QED BY <2>3, <3>1, SMT DEF Opens
    <2>6. 0 + Len(e.rcvbuf) <= InLen /\ (\A i \in 1 .. Len(e.rcvbuf) : e.rcvbuf[i] = 0 + i)
          /\ (\A i \in 1 .. Len(e.chain) : Brings(e.chain[i]))
        BY <2>2, SMT
    <2>7. From(e.sndack) = Taken(e, 0) + 1
        BY <2>3, <2>4, SMT
    <2> QED BY <1>3, <1>8, <2>1, <2>5, <2>6, <2>7 DEF Receiver, Connected
<1> QED BY <1>2, <1>5, <1>7, <1>8 DEF Keeps
-----------------------------------------------------------------------------
(* The types and the receiver, action by action *)

(* A SYN announces the window of an empty buffer, and acknowledges nothing. *)
LEMMA SynIsSent ==
    ASSUME NEW c, Typed(c), c.sent = {}
    PROVE  /\ Typed(sendsyn(c)) /\ Reopens(sendsyn(c))
           /\ sendsyn(c).state = c.state /\ sendsyn(c).rcvbuf = c.rcvbuf /\ sendsyn(c).chain = c.chain
           /\ sendsyn(c).flags = c.flags /\ sendsyn(c).rcvwnd <= RcvMax
           /\ \A s \in sendsyn(c).sent : s.flags # {"ACK"}
<1> DEFINE d == sendsyn(c)
<1>1. <<>> \in Data /\ {"SYN"} \in SUBSET Bits /\ 1 \in Int /\ {"SYN"} # {"ACK"}
    <2>1. {"SYN"} \in SUBSET Bits
        BY SMT DEF Bits
    <2>2. "SYN" # "ACK" /\ "SYN" \in {"SYN"} /\ "SYN" \notin {"ACK"}
        OBVIOUS
    <2> QED BY <2>1, <2>2, DataIsAny, SMT
<1>2. Keeps(c, d) /\ Reopens(d) /\ Announced(c, d) /\ \A s \in d.sent : s \in c.sent \/ s.flags = {"SYN"}
    BY <1>1, SendsegKeeps DEF sendsyn
<1> HIDE DEF d
<1>3. d.rcvwnd <= RcvMax
    <2>1. getrcvwnd(c) \in Nat /\ FreeRoom(c) \in Nat /\ getrcvwnd(c) <= FreeRoom(c) /\ FreeRoom(c) <= RcvMax /\ RcvMax \in Nat
        BY WindowOf, Small
    <2>2. d.rcvwnd = getrcvwnd(c)
        BY <1>2 DEF Announced
    <2> QED BY <2>1, <2>2, SMT
<1> QED BY <1>1, <1>2, <1>3 DEF d, Announced, Keeps

(* A SYN, sent for the first time or again                                 *)
LEMMA SynBoth ==
    ASSUME Shapes, b.state \in {"IDLE", "SYN_SENT"}, NEW d, Typed(d), Reopens(d), Leaves(d), d.state = "SYN_SENT",
           d.rcvbuf = b.rcvbuf, d.chain = b.chain, d.flags = b.flags, d.rcvwnd <= RcvMax,
           \A s \in d.sent : s.flags # {"ACK"},
           UNCHANGED <<toBoard, accepted, got, told, server>>
    PROVE  Shapes' /\ (Reading => Reading')
<1>1. Shapes'
    <2>1. told' \in BOOLEAN /\ accepted' \in 0 .. OutLen
        BY DEF Shapes
    <2> QED BY <2>1, CallKeepsShapes
<1>2. ASSUME Reading PROVE Reading'
    <2>1. Before(b)
        BY <1>2 DEF Reading, Phase
    <2>2. Before(d)
        BY <2>1 DEF Before
    <2>3. Phase(d)
        BY <2>2 DEF Phase, Connected
    <2> QED BY <1>2, <2>3, CallKeepsReading
<1> QED BY <1>1, <1>2

(* connect() (fnet_tcp_connect)                                            *)
LEMMA ConnectBoth == ASSUME IInv, Shapes, connect PROVE Shapes' /\ (Reading => Reading')
<1> DEFINE x == Wrap(BoardISN + 1)
           ts == {"retransmission", "connection"}
           c == [b EXCEPT !.sndseq = BoardISN, !.maxrcvack = x, !.timers = ts]
           e == sendsyn(c)
           d == [e EXCEPT !.state = "SYN_SENT"]
<1>1. b.state = "IDLE" /\ Leaves(d) /\ UNCHANGED <<toBoard, accepted, got, told, server>> /\ b.sent = {}
    BY DEF connect, IInv, Board
<1>2. BoardISN \in Seqs /\ x \in Seqs /\ ts \subseteq Timers
    BY RankOfFirst, TcpAssumption DEF Seqs, Timers
<1> HIDE DEF x, ts
<1>3. /\ Typed(c) /\ c.sent = b.sent /\ c.rcvbuf = b.rcvbuf /\ c.chain = b.chain /\ c.flags = b.flags
    BY <1>2, SMT DEF Shapes, Typed, Fields
<1> HIDE DEF c
<1>4. /\ Typed(e) /\ Reopens(e) /\ e.rcvbuf = c.rcvbuf /\ e.chain = c.chain
      /\ e.flags = c.flags /\ e.rcvwnd <= RcvMax /\ \A s \in e.sent : s.flags # {"ACK"}
    BY <1>1, <1>3, SynIsSent
<1> HIDE DEF e
<1>5. /\ Typed(d) /\ d.state = "SYN_SENT" /\ d.rcvbuf = e.rcvbuf /\ d.chain = e.chain /\ d.flags = e.flags
      /\ d.rcvwnd = e.rcvwnd /\ d.sent = e.sent
    <2>1. "SYN_SENT" \in States
        BY DEF States
    <2> QED BY <1>4, <2>1, SMT DEF Typed, Fields
<1>6. Reopens(d)
    BY <1>4, <1>5 DEF Reopens
<1> HIDE DEF d
<1> QED BY <1>1, <1>3, <1>4, <1>5, <1>6, SynBoth

(* Whatever gives up *)
LEMMA AbortBoth == ASSUME IInv, Shapes, abort PROVE Shapes' /\ (Reading => Reading')
<1>1. Leaves(closesk(b)) /\ UNCHANGED <<toBoard, accepted, got, told, server>> /\ Typed(b)
    BY DEF abort, RunsOut, Shapes
<1> DEFINE d == closesk(b)
<1>2. Typed(d) /\ d.state = "CLOSED" /\ d.rcvbuf = b.rcvbuf
    BY <1>1, CloseskResults
<1> HIDE DEF d
<1> QED BY <1>1, <1>2, ClosedBoth DEF d

(* close() (fnet_tcp_close)                                                *)
LEMMA CloseBoth == ASSUME IInv, Shapes, close PROVE Shapes' /\ (Reading => Reading')
<1> DEFINE a == abortsk(b)
           d == [a EXCEPT !.rcvbuf = <<>>]
<1>1. Leaves(d) /\ UNCHANGED <<toBoard, accepted, got, told, server>> /\ Typed(b)
    BY DEF close, Shapes
<1>2. Typed(a) /\ a.state = "CLOSED"
    <2>1. b.rcvack \in Seqs
        BY <1>1 DEF Typed
    <2> QED BY <2>1, <1>1, CloseskResults DEF abortsk
<1> HIDE DEF a
<1>3. Typed(d) /\ d.state = "CLOSED" /\ d.rcvbuf = <<>>
    <2> DEFINE none == <<>>
    <2>1. none \in Seq(1 .. InLen)
        OBVIOUS
    <2> HIDE DEF none
    <2>2. LET e == [a EXCEPT !.rcvbuf = none] IN Typed(e) /\ e.state = a.state /\ e.rcvbuf = none
        BY <1>2, <2>1, SMT DEF Typed, Fields
    <2> QED BY <1>2, <2>2 DEF none
<1> HIDE DEF d
<1> QED BY <1>1, <1>3, ClosedBoth

(* A delayed acknowledgment is sent (fnet_tcp_fasttimo).                   *)
LEMMA DelayedAckBoth == ASSUME IInv, Shapes, delayed_ack PROVE Shapes' /\ (Reading => Reading')
<1>1. UNCHANGED <<toBoard, accepted, got, told, server>> /\ Leaves(sendack(b)) /\ Connected(b) /\ Typed(b)
    BY RunsOutWhen DEF delayed_ack, RunsOut, Working, Shapes
<1>2. Keeps(b, sendack(b)) /\ accepted' \in 0 .. OutLen
    BY <1>1, SendackKeeps DEF Shapes
<1> QED BY <1>1, <1>2, KeepsBoth

(* The persist timer runs out (fnet_tcp_ptimeo).                           *)
LEMMA PtimeoBoth == ASSUME IInv, Shapes, ptimeo PROVE Shapes' /\ (Reading => Reading')
<1>1. UNCHANGED <<toBoard, accepted, got, told, server>> /\ Connected(b) /\ Typed(b) /\ accepted' \in 0 .. OutLen
    BY RunsOutWhen DEF ptimeo, RunsOut, Working, Shapes
<1> DEFINE o == Off(b, "persist")
           C(m) == [o EXCEPT !.memory = m]
           P(m) == senddataseg(C(m), 1)
           Q(m) == [P(m) EXCEPT !.sndseq = Wrap(@ - 1)]
           D(m) == On(On(Q(m), "persist"), "abort")
           F(m) == sendanydata(C(m), FALSE, TRUE)
<1>2. PICK m : Leaves(IF b.sndwnd = 0 THEN D(m) ELSE F(m))
    BY Zenon DEF ptimeo
<1> DEFINE c == C(m)
           p == P(m)
           q == Q(m)
           d == D(m)
           f == F(m)
<1>3. "persist" \in Timers /\ "abort" \in Timers /\ 1 \in Int /\ FALSE \in BOOLEAN
    BY SMT DEF Timers
<1>4. Keeps(b, o) /\ Typed(o)
    BY <1>1, <1>3, TimersKeep DEF Keeps
<1> HIDE DEF o
<1>5. Keeps(o, c) /\ Typed(c)
    BY <1>4, MemoryKeeps
<1>6. Keeps(b, c)
    BY <1>4, <1>5, KeepsOn
<1> HIDE DEF C
<1>7. Keeps(b, f)
    BY <1>3, <1>5, <1>6, SendanydataKeeps, KeepsOn
<1>8. Keeps(c, p) /\ Typed(p) /\ Keeps(b, p)
    BY <1>3, <1>5, <1>6, DatasegKeeps, KeepsOn DEF Keeps
<1> HIDE DEF P, F
<1>9. Keeps(p, q) /\ Typed(q) /\ Keeps(b, q)
    <2> DEFINE x == Wrap(p.sndseq - 1)
    <2>1. x \in Seqs
        <3>1. p.sndseq \in Nat
            BY <1>8, NumbersAreInts DEF Typed
        <3>2. p.sndseq - 1 \in Int
            BY <3>1, SMT
        <3> QED BY <3>2, WrapInRange
    <2>2. q = [p EXCEPT !.sndseq = x]
        OBVIOUS
    <2> HIDE DEF x, q
    <2>3. Keeps(p, q)
        BY <1>8, <2>1, <2>2, SeqKeeps
    <2> QED BY <1>8, <2>3, KeepsOn DEF Keeps
<1> HIDE DEF Q
<1>10. Keeps(b, d)
    <2>1. Keeps(q, On(q, "persist")) /\ Typed(On(q, "persist"))
        BY <1>3, <1>9, TimersKeep DEF Keeps
    <2>2. Keeps(On(q, "persist"), d)
        BY <1>3, <2>1, TimersKeep
    <2> HIDE DEF q, D
    <2> QED BY <1>9, <2>1, <2>2, KeepsOn
<1>11. Leaves(d) \/ Leaves(f)
    BY <1>2
<1> HIDE DEF d, f
<1> QED BY <1>1, <1>7, <1>10, <1>11, KeepsBoth

(* The retransmission timer runs out (fnet_tcp_rtimeo).                    *)
LEMMA RtimeoBoth == ASSUME IInv, Shapes, rtimeo PROVE Shapes' /\ (Reading => Reading')
<1>1. UNCHANGED <<toBoard, accepted, got, told, server>> /\ Typed(b) /\ accepted' \in 0 .. OutLen /\ b.sent = {}
    BY RunsOutWhen DEF rtimeo, RunsOut, Shapes
<1>2. Connected(b) \/ b.state = "SYN_SENT"
    BY RunsOutWhen DEF rtimeo, Working
<1>3. CASE b.state = "SYN_SENT"
    <2> DEFINE x == Wrap(b.sndseq - 1)
               c == [b EXCEPT !.sndseq = x]
               d == sendsyn(c)
    <2>1. Leaves(d)
        <3>1. c = [b EXCEPT !.sndseq = Wrap(@ - 1)]
            OBVIOUS
        <3> HIDE DEF c
        <3> QED BY <1>3, <3>1, Zenon DEF rtimeo
    <2>2. x \in Seqs
        <3>1. b.sndseq \in Nat
            BY <1>1, NumbersAreInts DEF Typed
        <3>2. b.sndseq - 1 \in Int
            BY <3>1, SMT
        <3> QED BY <3>2, WrapInRange
    <2> HIDE DEF x
    <2>3. /\ Typed(c) /\ c.sent = b.sent /\ c.rcvbuf = b.rcvbuf /\ c.chain = b.chain /\ c.flags = b.flags /\ c.state = b.state
        BY <1>1, <2>2, SMT DEF Typed, Fields
    <2> HIDE DEF c
    <2>4. /\ Typed(d) /\ Reopens(d) /\ d.state = c.state /\ d.rcvbuf = c.rcvbuf /\ d.chain = c.chain
          /\ d.flags = c.flags /\ d.rcvwnd <= RcvMax /\ \A s \in d.sent : s.flags # {"ACK"}
        BY <1>1, <2>3, SynIsSent
    <2> HIDE DEF d
    <2> QED BY <1>1, <1>3, <2>1, <2>3, <2>4, SynBoth
<1>4. CASE Connected(b)
    <2> DEFINE o == On(Off(b, "retransmission"), "abort")
               C(m) == [o EXCEPT !.sndseq = b.rcvack, !.ssthresh = Halved(b), !.cwnd = SndMss, !.memory = m]
               E(m) == sendanydata(C(m), FALSE, TRUE)
    <2>1. PICK m : Leaves(On(E(m), "retransmission"))
        <3>1. \E m \in Memory : IF b.state = "SYN_SENT" THEN Leaves(sendsyn([b EXCEPT !.sndseq = Wrap(@ - 1)]))
                                ELSE Leaves(On(E(m), "retransmission"))
            BY Zenon DEF rtimeo
        <3> QED BY <3>1, <1>4 DEF Connected
    <2>2. "retransmission" \in Timers /\ "abort" \in Timers /\ FALSE \in BOOLEAN
        BY DEF Timers
    <2>3. Keeps(b, o) /\ Typed(o)
        <3>1. Keeps(b, Off(b, "retransmission")) /\ Typed(Off(b, "retransmission"))
            BY <1>1, <2>2, TimersKeep DEF Keeps
        <3>2. Keeps(Off(b, "retransmission"), o)
            BY <2>2, <3>1, TimersKeep
        <3> HIDE DEF o
        <3> QED BY <3>1, <3>2, KeepsOn DEF Keeps
    <2> HIDE DEF o
    <2> DEFINE x == b.rcvack
               h == Halved(b)
               a == [o EXCEPT !.sndseq = x, !.ssthresh = h, !.cwnd = SndMss]
               c == C(m)
               e == E(m)
    <2>4. x \in Seqs /\ h \in Nat /\ SndMss \in Nat
        BY <1>1, HalvedIsNat, Small DEF Typed
    <2>5. c = [a EXCEPT !.memory = m]
        BY <2>3, SMT DEF Typed, Fields
    <2> HIDE DEF x, h, C
    <2>6. Keeps(o, a) /\ Typed(a)
        <3>1. DOMAIN o = Fields /\ o.pcount \in Nat
            BY <2>3 DEF Typed
        <3>2. DOMAIN a = Fields /\ a.sndseq = x /\ a.ssthresh = h /\ a.cwnd = SndMss /\ a.pcount = o.pcount
            BY <3>1, SMT DEF Fields
        <3>3. ASSUME NEW f \in Fields \ Aside PROVE a[f] = o[f]
            BY <3>1, <3>3, Zenon DEF Aside
        <3> HIDE DEF a
        <3> QED BY <2>3, <2>4, <3>1, <3>2, <3>3, CongestionKeeps DEF Keeps
    <2> HIDE DEF a
    <2>7. Keeps(a, c) /\ Typed(c)
        <3>1. Keeps(a, [a EXCEPT !.memory = m]) /\ Typed([a EXCEPT !.memory = m])
            BY <2>6, MemoryKeeps, Zenon
        <3> QED BY <2>5, <3>1, Zenon
    <2>8. Keeps(c, e) /\ Typed(e)
        BY <2>2, <2>7, SendanydataKeeps DEF Keeps
    <2> HIDE DEF c, E
    <2>9. Keeps(e, On(e, "retransmission"))
        BY <2>2, <2>8, TimersKeep
    <2> HIDE DEF e
    <2>10. Keeps(b, On(e, "retransmission"))
        BY <2>3, <2>6, <2>7, <2>8, <2>9, KeepsOn
    <2> DEFINE d == On(e, "retransmission")
    <2>11. Leaves(d)
        BY <2>1 DEF e
    <2> HIDE DEF d
    <2> QED BY <1>1, <1>4, <2>10, <2>11, KeepsBoth DEF d
<1> QED BY <1>2, <1>3, <1>4

(* A segment that arrives *)
LEMMA InputBoth == ASSUME IInv, Shapes, NEW s \in toBoard, input(s) PROVE Shapes' /\ (Reading => Reading')
<1> DEFINE C(m) == [b EXCEPT !.memory = m]
<1>1. PICK memory \in Memory, push \in BOOLEAN : Leaves(inputsk(C(memory), s, push))
    BY Zenon DEF input
<1> DEFINE c == C(memory)
           d == inputsk(c, s, push)
<1>2. /\ UNCHANGED <<toBoard, accepted, got, told, server>> /\ b.state \notin {"IDLE", "CLOSED"}
      /\ Typed(b) /\ b.sent = {} /\ s \in InSegments /\ Reopens(b) /\ told' \in BOOLEAN /\ accepted' \in 0 .. OutLen
    BY DEF input, Shapes, IInv, Board
<1>3. Keeps(b, c) /\ Typed(c) /\ SameStream(b, c)
    BY <1>2, MemoryKeeps
<1>4. Leaves(d)
    BY <1>1
<1> HIDE DEF C, c
<1>5. c.state = b.state /\ c.rcvbuf = b.rcvbuf /\ c.sent = {} /\ c.chain = b.chain /\ c.rcvwnd = b.rcvwnd
    BY <1>2, <1>3 DEF SameStream
<1>6. CASE b.state = "SYN_SENT"
    <2> DEFINE o == Established(c, s)
    <2>1. d = IF {"RST", "ACK"} \subseteq s.flags THEN closesk(c)
              ELSE IF {"SYN", "ACK"} \subseteq s.flags /\ s.ack = c.sndseq THEN o ELSE c
        BY <1>5, <1>6, Zenon DEF inputsk, Opening, Established
    <2>2. ASSUME Reading PROVE Before(c) /\ Short /\ Len(got) = 0
        <3>1. Before(b) /\ Short
            BY <1>6, <2>2 DEF Reading, Phase
        <3>2. c.flags = {}
            <4>1. Keeps(b, c) /\ c = [b EXCEPT !.memory = memory] /\ DOMAIN b = Fields
                BY <1>2, <1>3 DEF c, C, Typed
            <4>2. c.flags = b.flags
                BY <4>1, SMT DEF Fields
            <4> QED BY <3>1, <4>2 DEF Before
        <3>3. got = <<>>
            BY <3>1 DEF Before
        <3> QED BY <1>2, <1>5, <3>1, <3>2, <3>3 DEF Before
    <2> HIDE DEF d
    <2>3. CASE d = closesk(c)
        <3>1. Typed(d) /\ d.state = "CLOSED" /\ d.rcvbuf = b.rcvbuf
            BY <1>3, <1>5, <2>3, CloseskResults
        <3> QED BY <1>2, <1>4, <3>1, ClosedBoth
    <2>4. CASE d = o /\ "SYN" \in s.flags
        <3>1. Typed(o) /\ Reopens(o) /\ o.state = "ESTABLISHED"
              /\ (Short /\ Before(c) /\ From(s.seq) = 0 => Receiver(o, 0))
            BY <1>2, <1>3, <1>5, EstablishedReceives
        <3> HIDE DEF o
        <3>2. Shapes'
            BY <1>2, <1>4, <2>4, <3>1, CallKeepsShapes
        <3>3. ASSUME Reading PROVE Reading'
            <4>1. Receiver(o, Len(got))
                BY <2>2, <2>4, <3>1, <3>3 DEF Reading
            <4>2. Phase(o)
                BY <3>1, <4>1 DEF Phase
            <4> QED BY <1>2, <1>4, <2>4, <3>1, <3>3, <4>2, CallKeepsReading
        <3> QED BY <3>2, <3>3
    <2>5. CASE d = c
        <3>1. Reopens(c)
            BY <1>2, <1>3 DEF Keeps
        <3>2. Shapes'
            BY <1>2, <1>3, <1>4, <2>5, <3>1, CallKeepsShapes
        <3>3. ASSUME Reading PROVE Reading'
            <4>1. Phase(c)
                BY <1>5, <1>6, <2>2, <3>3 DEF Phase, Connected
            <4> QED BY <1>2, <1>3, <1>4, <2>5, <3>3, <4>1, CallKeepsReading
        <3> QED BY <3>2, <3>3
    <2> HIDE DEF o
    <2> QED BY <2>1, <2>3, <2>4, <2>5
<1>7. CASE b.state # "SYN_SENT"
    <2>1. Connected(b)
        BY <1>2, <1>7 DEF Typed, States, Connected
    <2>2. Results(c, d, s)
        BY <1>2, <1>3, <1>5, <1>7, InputskResults
    <2> HIDE DEF d
    <2>3. CASE d.state = "CLOSED" /\ d.rcvbuf = c.rcvbuf
        BY <1>2, <1>4, <1>5, <2>2, <2>3, ClosedBoth DEF Results
    <2>4. CASE (Reopens(c) => Reopens(d)) /\ (Comes(s) => \A n \in Nat : Receiver(c, n) => Receiver(d, n))
        <3>1. Typed(d) /\ Reopens(d)
            BY <1>2, <1>3, <2>2, <2>4 DEF Results, Keeps
        <3>2. Shapes'
            BY <1>2, <1>4, <3>1, CallKeepsShapes
        <3>3. ASSUME Reading PROVE Reading'
            <4>1. Len(got) \in Nat /\ Receiver(b, Len(got)) /\ Comes(s)
                BY <2>1, <3>3 DEF Reading, Phase
            <4>2. Receiver(d, Len(got))
                BY <1>3, <2>4, <4>1 DEF Keeps
            <4>3. Phase(d)
                BY <4>2 DEF Phase, Receiver, Connected
            <4> QED BY <1>2, <1>4, <3>1, <3>3, <4>3, CallKeepsReading
        <3> QED BY <3>2, <3>3
    <2> QED BY <2>2, <2>3, <2>4 DEF Results
<1> QED BY <1>6, <1>7

(* A keep-alive probe announces a window that the board does not note: what *)
(* follows holds when that one is not larger than the one it noted.         *)
LEMMA KtimeoBoth ==
    ASSUME IInv, Shapes, ktimeo
    PROVE  Shapes' /\ (Reading /\ getrcvwnd(b) <= b.rcvwnd => Reading')
<1>1. UNCHANGED <<toBoard, accepted, got, told, server>> /\ Typed(b) /\ accepted' \in 0 .. OutLen /\ told' \in BOOLEAN
    BY DEF ktimeo, RunsOut, Shapes
<1>2. Connected(b) /\ b.sent = {} /\ Reopens(b)
    <2>1. Connected(b) /\ b.sent = {}
        BY RunsOutWhen DEF ktimeo, Working
    <2> QED BY <2>1 DEF Shapes, Connected
<1> DEFINE x == Wrap(b.rcvack - 1)
           s == [seq |-> x, data |-> <<0>>, flags |-> {"ACK"}, wnd |-> getrcvwnd(b), ack |-> b.sndack]
           ss == {s}
           o == On(b, "abort")
           d == [o EXCEPT !.sent = ss]
           f == Off(b, "keepalive")
<1>3. Leaves(d) \/ Leaves(f)
    BY Zenon DEF ktimeo
<1>4. "abort" \in Timers /\ "keepalive" \in Timers
    BY DEF Timers
<1>5. s \in OutSegments /\ s.flags = {"ACK"} /\ s.wnd = getrcvwnd(b) /\ s.ack = b.sndack
    <2>1. x \in Seqs
        <3>1. b.rcvack \in Nat
            BY <1>1, NumbersAreInts DEF Typed
        <3>2. b.rcvack - 1 \in Int
            BY <3>1, SMT
        <3> QED BY <3>2, WrapInRange
    <2>2. getrcvwnd(b) \in Nat /\ b.sndack \in Seqs /\ <<0>> \in Data
        BY <1>1, WindowOf, DataIsAny DEF Typed
    <2>3. {"ACK"} \in SUBSET Bits
        BY DEF Bits
    <2> HIDE DEF x
    <2> QED BY <2>1, <2>2, <2>3, SMT DEF OutSegments
<1> HIDE DEF s
<1>6. Keeps(b, o) /\ Typed(o) /\ o.sent = b.sent /\ o.state = b.state /\ o.rcvbuf = b.rcvbuf /\ o.rcvwnd = b.rcvwnd
      /\ o.sndack = b.sndack /\ getrcvwnd(o) = getrcvwnd(b)
    <2>1. Keeps(b, o) /\ Typed(o)
        BY <1>1, <1>4, TimersKeep DEF Keeps
    <2>2. o.sent = b.sent /\ o.state = b.state /\ o.rcvbuf = b.rcvbuf /\ o.rcvwnd = b.rcvwnd /\ o.sndack = b.sndack
        BY <1>1, SMT DEF On, Typed, Fields
    <2> HIDE DEF o
    <2> QED BY <2>1, <2>2 DEF getrcvwnd, FreeRoom
<1> HIDE DEF o
<1>7. CASE Leaves(f)
    <2>1. Keeps(b, f)
        BY <1>1, <1>4, TimersKeep
    <2> HIDE DEF f
    <2> QED BY <1>1, <1>2, <1>7, <2>1, KeepsBoth
<1>8. CASE Leaves(d)
    <2>1. ss \subseteq OutSegments
        BY <1>5
    <2> HIDE DEF ss
    <2>2. /\ Typed(d) /\ d.state = o.state /\ d.rcvbuf = o.rcvbuf /\ d.rcvwnd = o.rcvwnd /\ d.chain = o.chain
          /\ d.flags = o.flags /\ d.sndack = o.sndack /\ d.sent = ss
        BY <1>6, <2>1, SMT DEF Typed, Fields
    <2>3. Reopens(d)
        BY <1>2, <1>6, <2>2 DEF Reopens
    <2> HIDE DEF d
    <2>4. Shapes'
        BY <1>1, <1>8, <2>2, <2>3, CallKeepsShapes
    <2>5. ASSUME Reading, getrcvwnd(b) <= b.rcvwnd PROVE Reading'
        <3> DEFINE n == Len(got)
        <3>1. n \in Nat /\ Receiver(b, n) /\ Receiver(o, n)
            BY <1>2, <1>6, <2>5 DEF Reading, Phase, Keeps
        <3> HIDE DEF n
        <3>2. FinSeen(d) = FinSeen(o) /\ FreeRoom(d) = FreeRoom(o) /\ Taken(d, n) = Taken(o, n)
            BY <2>2 DEF FinSeen, FreeRoom, Taken
        <3>3. \A m : Opens(o, n, m) => Opens(d, n, m)
            BY <2>2, <3>2 DEF Opens
        <3>4. Opens(d, n, Offered(s))
            <4>1. /\ getrcvwnd(o) \in Nat /\ FreeRoom(o) \in Nat /\ getrcvwnd(o) <= FreeRoom(o) /\ FreeRoom(o) <= RcvMax
                  /\ RcvMax \in Nat /\ Taken(o, n) \in Nat /\ o.rcvwnd \in Nat
                BY <1>6, <3>1, WindowOf, TakenIsSmall, Small DEF Typed
            <4>2. getrcvwnd(o) <= RcvMax
                BY <4>1, SMT
            <4>3. Offered(s) = Taken(o, n) + getrcvwnd(o)
                BY <1>5, <1>6, <3>1, <4>1, <4>2, AnnouncedIs
            <4>4. getrcvwnd(o) <= o.rcvwnd
                BY <1>6, <2>5
            <4>5. Opens(o, n, Offered(s))
                BY <4>1, <4>3, <4>4, SMT DEF Opens
            <4> QED BY <3>3, <4>5
        <3>5. ASSUME NEW r \in toServer \cup d.sent, r.flags = {"ACK"} PROVE Opens(d, n, Offered(r))
            <4>1. r = s \/ r \in toServer
                BY <2>2 DEF ss
            <4>2. CASE r \in toServer
                BY <3>1, <3>3, <3>5, <4>2 DEF Receiver
            <4> QED BY <3>4, <4>1, <4>2
        <3>6. Receiver(d, n)
            BY <2>2, <3>1, <3>2, <3>3, <3>5 DEF Receiver, Connected
        <3>7. Phase(d)
            BY <3>6 DEF Phase, Receiver, Connected, n
        <3> QED BY <1>1, <1>8, <2>2, <2>5, <3>7, CallKeepsReading
    <2> QED BY <2>4, <2>5
<1> QED BY <1>3, <1>7, <1>8

(* What stays at the board, with nothing sent *)
LEMMA StaysBoth ==
    ASSUME Shapes, Connected(b), NEW d, Keeps(b, d), b' = d, UNCHANGED <<toServer, toBoard, got, told, server>>,
           accepted' \in 0 .. OutLen
    PROVE  Shapes' /\ (Reading => Reading')
<1>1. Typed(d) /\ Reopens(d)
    BY DEF Keeps, Shapes, Connected
<1>2. edge' = edge /\ knows' = knows /\ shut' = shut
    BY DEF server
<1>3. Shapes'
    BY <1>1, <1>2 DEF Shapes, Typed, Reopens
<1>4. ASSUME Reading PROVE Reading'
    <2>1. Len(got) \in Nat /\ Receiver(b, Len(got))
        BY <1>4 DEF Reading, Phase
    <2>2. Receiver(d, Len(got))
        BY <2>1 DEF Keeps
    <2>3. Receiver(b, Len(got))'
        BY <2>2, <1>2 DEF Receiver, Connected, Opens, Taken, FinSeen, FreeRoom, Brings, Sound, Offered, From
    <2>4. Phase(b)'
        BY <2>3 DEF Phase, Receiver, Connected
    <2> QED BY <1>2, <1>4, <2>4 DEF Reading, Comes, Sound
<1> QED BY <1>3, <1>4

(* What send() puts into the buffer does not matter to the receiver. *)
LEMMA SndbufKeeps ==
    ASSUME NEW c, Typed(c), NEW buf \in Seq(1 .. OutLen), Len(buf) <= SndMax
    PROVE  LET d == [c EXCEPT !.sndbuf = buf, !.flags = @ \cup {"INSND"}]
           IN  Keeps(c, d) /\ Typed(d)
<1> DEFINE fs == c.flags \cup {"INSND"}
           d == [c EXCEPT !.sndbuf = buf, !.flags = fs]
<1>1. fs \subseteq Flags /\ ("FIN_RCVD" \in fs <=> "FIN_RCVD" \in c.flags) /\ DOMAIN c = Fields
    BY DEF Typed, Flags
<1>2. d = [c EXCEPT !.sndbuf = buf, !.flags = @ \cup {"INSND"}]
    BY <1>1, SMT DEF Fields
<1> HIDE DEF fs
<1>3. /\ DOMAIN d = Fields /\ d.sndbuf = buf /\ d.flags = fs /\ d.state = c.state /\ d.sndseq = c.sndseq
      /\ d.rcvack = c.rcvack /\ d.maxrcvack = c.maxrcvack /\ d.sndack = c.sndack /\ d.sndwnd = c.sndwnd
      /\ d.maxwnd = c.maxwnd /\ d.rcvwnd = c.rcvwnd /\ d.newfree = c.newfree /\ d.cwnd = c.cwnd
      /\ d.ssthresh = c.ssthresh /\ d.pcount = c.pcount /\ d.repeats = c.repeats /\ d.count = c.count
      /\ d.rcvbuf = c.rcvbuf /\ d.chain = c.chain /\ d.timers = c.timers /\ d.sent = c.sent
    BY <1>1, SMT DEF Fields
<1> HIDE DEF d
<1>4. Typed(d) /\ SameStream(c, d)
    BY <1>1, <1>3 DEF Typed, SameStream
<1>5. Keeps(c, d)
    BY <1>4, SameKeeps
<1> QED BY <1>2, <1>4, <1>5

(* What send() puts into the buffer                                        *)
LEMMA AppendedIs ==
    ASSUME NEW s \in Seq(1 .. OutLen), NEW acc \in Nat, NEW m \in Nat, acc + m <= OutLen
    PROVE  s \o Bytes(acc, m) \in Seq(1 .. OutLen) /\ Len(s \o Bytes(acc, m)) = Len(s) + m
<1> DEFINE T == 1 .. OutLen
           t == Bytes(acc, m)
<1>1. t \in Seq(Nat) /\ Len(t) = m /\ \A i \in 1 .. m : t[i] = acc + i
    BY BytesAre
<1>2. \A i \in 1 .. m : acc + i \in T
    <2> HIDE DEF t
    <2>1. OutLen \in Nat
        BY TcpAssumption
    <2> QED BY <2>1, SMT
<1>3. s \in Seq(T)
    OBVIOUS
<1> HIDE DEF T, t
<1>4. t \in Seq(T)
    BY <1>1, <1>2, SeqOver, Zenon
<1>5. s \o t \in Seq(T) /\ Len(s \o t) = Len(s) + Len(t)
    BY <1>3, <1>4, ConcatProperties
<1> QED BY <1>1, <1>5 DEF T, t

(* send() (fnet_tcp_snd)                                                   *)
LEMMA SndBoth == ASSUME IInv, Shapes, snd PROVE Shapes' /\ (Reading => Reading')
<1>1. /\ Connected(b) /\ UNCHANGED <<toBoard, got, told, server>> /\ Typed(b)
    BY DEF snd, Shapes
<1>2. accepted \in Nat /\ accepted <= OutLen /\ OutLen \in Nat
    <2>1. accepted \in 0 .. OutLen /\ OutLen \in Nat
        BY TcpAssumption DEF Shapes
    <2> QED BY <2>1, SMT
<1> DEFINE C(m) == [b EXCEPT !.sndbuf = @ \o Bytes(accepted, m), !.flags = @ \cup {"INSND"}]
           M(n, memory) == IF memory THEN Least(n, SndMax - Len(b.sndbuf)) ELSE 0
           Push(c, sends) == [Pushed([c EXCEPT !.memory = sends])[SndMax] EXCEPT !.flags = @ \ {"INSND"}]
           Sending(c, m) == /\ accepted' = accepted + m
                            /\ \/ SndMax = Len(b.sndbuf) /\ UNCHANGED <<b, toServer>>
                               \/ SndMax # Len(b.sndbuf) /\ m = 0 /\ b' = c /\ UNCHANGED toServer
                               \/ m > 0 /\ c.sndwnd = 0 /\ Leaves(On(c, "persist"))
                               \/ m > 0 /\ c.sndwnd > 0 /\ \E sends \in Memory : Leaves(Push(c, sends))
<1>3. PICK n \in 1 .. OutLen - accepted, memory \in Memory : Sending(C(M(n, memory)), M(n, memory))
    BY <1>1, Zenon DEF snd, Bytes
<1> DEFINE m == M(n, memory)
           c == C(m)
<1>4. m \in Nat /\ accepted + m <= OutLen /\ Len(b.sndbuf) + m <= SndMax /\ Len(b.sndbuf) \in Nat
    <2>1. n \in Nat /\ accepted + n <= OutLen /\ n >= 1
        BY <1>2, SMT
    <2>2. SndMax \in Nat /\ Len(b.sndbuf) \in Nat /\ Len(b.sndbuf) <= SndMax
        BY <1>1, Small DEF Typed
    <2>3. m = 0 \/ m = Least(n, SndMax - Len(b.sndbuf))
        OBVIOUS
    <2> HIDE DEF M
    <2> QED BY <2>1, <2>2, <2>3, <1>2, SMT DEF Least
<1>5. Sending(c, m)
    BY <1>3
<1> HIDE DEF M
<1>6. Keeps(b, c) /\ Typed(c)
    <2> DEFINE buf == b.sndbuf \o Bytes(accepted, m)
    <2>1. b.sndbuf \in Seq(1 .. OutLen) /\ DOMAIN b = Fields
        BY <1>1 DEF Typed
    <2>2. buf \in Seq(1 .. OutLen) /\ Len(buf) = Len(b.sndbuf) + m
        BY <2>1, <1>2, <1>4, AppendedIs
    <2>3. Len(buf) <= SndMax
        BY <2>2, <1>4
    <2>4. c = [b EXCEPT !.sndbuf = buf, !.flags = @ \cup {"INSND"}]
        OBVIOUS
    <2> HIDE DEF buf, c
    <2> QED BY <2>2, <2>3, <2>4, <1>1, SndbufKeeps
<1>7. accepted' \in 0 .. OutLen
    <2>1. accepted' = accepted + m
        BY <1>5
    <2> QED BY <2>1, <1>2, <1>4, SMT
<1> HIDE DEF C, m
<1>8. ASSUME NEW d, Keeps(b, d), Leaves(d) PROVE Shapes' /\ (Reading => Reading')
    BY <1>1, <1>7, <1>8, KeepsBoth
<1>9. CASE b' = b /\ UNCHANGED toServer
    BY <1>1, <1>7, <1>9, KeepsNothing, StaysBoth
<1>10. CASE b' = c /\ UNCHANGED toServer
    BY <1>1, <1>6, <1>7, <1>10, StaysBoth
<1>11. CASE Leaves(On(c, "persist"))
    <2>1. "persist" \in Timers
        BY DEF Timers
    <2>2. Keeps(c, On(c, "persist"))
        BY <1>6, <2>1, TimersKeep
    <2> DEFINE d == On(c, "persist")
    <2>3. Keeps(b, d) /\ Leaves(d)
        BY <1>6, <1>11, <2>2, KeepsOn
    <2> HIDE DEF d
    <2> QED BY <1>8, <2>3
<1>12. ASSUME NEW sends \in Memory, Leaves(Push(c, sends)) PROVE Shapes' /\ (Reading => Reading')
    <2> DEFINE e == [c EXCEPT !.memory = sends]
               p == Pushed(e)[SndMax]
               fs == p.flags \ {"INSND"}
               d == [p EXCEPT !.flags = fs]
    <2>1. Keeps(c, e) /\ Typed(e)
        BY <1>6, MemoryKeeps
    <2>2. d = Push(c, sends)
        OBVIOUS
    <2> HIDE DEF e
    <2>3. Keeps(e, p) /\ Typed(p)
        <3>1. SndMax \in Nat
            BY Small
        <3> QED BY <2>1, <3>1, PushedKeeps DEF Keeps
    <2> HIDE DEF p
    <2>4. fs \subseteq Flags /\ ("FIN_RCVD" \in fs <=> "FIN_RCVD" \in p.flags)
        BY <2>3 DEF Typed
    <2> HIDE DEF fs
    <2>5. Keeps(p, d)
        BY <2>3, <2>4, FlagsKeep
    <2>6. Leaves(d)
        BY <1>12, <2>2
    <2> HIDE DEF d
    <2>7. Keeps(b, d)
        BY <1>6, <2>1, <2>3, <2>5, KeepsOn
    <2> QED BY <1>8, <2>6, <2>7
<1> HIDE DEF Push
<1>13. \/ b' = b /\ UNCHANGED toServer
       \/ b' = c /\ UNCHANGED toServer
       \/ Leaves(On(c, "persist"))
       \/ \E sends \in Memory : Leaves(Push(c, sends))
    BY <1>5
<1> QED BY <1>9, <1>10, <1>11, <1>12, <1>13, Zenon


(* recv() takes the first n bytes out of the buffer. *)
Emptied(c, n) == [c EXCEPT !.rcvbuf = Drop(@, n), !.newfree = @ + n]

(* Nothing else changes.                                                   *)
LEMMA EmptiedIs ==
    ASSUME NEW c, Typed(c), NEW n \in Nat, n <= Len(c.rcvbuf)
    PROVE  LET d == Emptied(c, n)
           IN  /\ Typed(d) /\ d.state = c.state /\ d.sndack = c.sndack /\ d.rcvwnd = c.rcvwnd /\ d.chain = c.chain
               /\ d.flags = c.flags /\ d.sent = c.sent /\ d.newfree = c.newfree + n
               /\ Len(d.rcvbuf) = Len(c.rcvbuf) - n /\ \A i \in 1 .. Len(c.rcvbuf) - n : d.rcvbuf[i] = c.rcvbuf[n + i]
<1> DEFINE buf == Drop(c.rcvbuf, n)
           k == c.newfree + n
           d == [c EXCEPT !.rcvbuf = buf, !.newfree = k]
<1>1. DOMAIN c = Fields /\ c.rcvbuf \in Seq(1 .. InLen) /\ c.newfree \in Nat
    BY DEF Typed
<1>2. Emptied(c, n) = d
    BY <1>1, SMT DEF Emptied, Fields
<1>3. buf \in Seq(1 .. InLen) /\ Len(buf) = Len(c.rcvbuf) - n /\ \A i \in 1 .. Len(c.rcvbuf) - n : buf[i] = c.rcvbuf[n + i]
    <2>1. /\ Drop(c.rcvbuf, n) \in Seq(1 .. InLen)
          /\ Len(Drop(c.rcvbuf, n)) = IF n <= Len(c.rcvbuf) THEN Len(c.rcvbuf) - n ELSE 0
          /\ \A i \in 1 .. Len(c.rcvbuf) - n : Drop(c.rcvbuf, n)[i] = c.rcvbuf[n + i]
        BY <1>1, DropIs, Zenon
    <2> QED BY <2>1, Zenon
<1>4. k \in Nat
    BY <1>1
<1> HIDE DEF buf, k
<1>5. /\ DOMAIN d = Fields /\ d.rcvbuf = buf /\ d.newfree = k /\ d.state = c.state /\ d.sndseq = c.sndseq
      /\ d.rcvack = c.rcvack /\ d.maxrcvack = c.maxrcvack /\ d.sndack = c.sndack /\ d.sndwnd = c.sndwnd
      /\ d.maxwnd = c.maxwnd /\ d.rcvwnd = c.rcvwnd /\ d.cwnd = c.cwnd
      /\ d.ssthresh = c.ssthresh /\ d.pcount = c.pcount /\ d.repeats = c.repeats /\ d.count = c.count
      /\ d.sndbuf = c.sndbuf /\ d.chain = c.chain /\ d.timers = c.timers /\ d.flags = c.flags /\ d.sent = c.sent
    BY <1>1, SMT DEF Fields
<1> HIDE DEF d
<1>6. Typed(d)
    BY <1>3, <1>4, <1>5 DEF Typed
<1> QED BY <1>2, <1>3, <1>5, <1>6 DEF k

(* What was read is n more bytes. *)
LEMMA EmptiedReceives ==
    ASSUME NEW c, Typed(c), NEW n \in Nat, n <= Len(c.rcvbuf), NEW k \in Nat, Receiver(c, k)
    PROVE  Receiver(Emptied(c, n), k + n)
<1> DEFINE d == Emptied(c, n)
           l == Len(c.rcvbuf)
           j == k + n
<1>1. /\ Typed(d) /\ d.state = c.state /\ d.sndack = c.sndack /\ d.rcvwnd = c.rcvwnd /\ d.chain = c.chain
      /\ d.flags = c.flags /\ d.sent = c.sent
      /\ Len(d.rcvbuf) = l - n /\ \A i \in 1 .. l - n : d.rcvbuf[i] = c.rcvbuf[n + i]
    BY EmptiedIs
<1>2. l \in Nat /\ n <= l /\ RcvMax \in Nat /\ j \in Nat
    <2>1. l \in Nat
        BY TakenIsSmall
    <2> QED BY <2>1, Small
<1> HIDE DEF d
<1>3. FinSeen(d) = FinSeen(c)
    BY <1>1 DEF FinSeen
<1>4. Taken(d, j) = Taken(c, k)
    <2>1. j + Len(d.rcvbuf) = k + l
        <3>1. Len(d.rcvbuf) = l - n
            BY <1>1, Zenon
        <3> HIDE DEF l
        <3> QED BY <3>1, <1>2, SMT
    <2> QED BY <1>3, <2>1 DEF Taken
<1>5. FreeRoom(c) <= FreeRoom(d) /\ FreeRoom(c) \in Nat /\ FreeRoom(d) \in Nat
    <2>1. FreeRoom(c) = Most(RcvMax - l, 0) /\ FreeRoom(d) = Most(RcvMax - (l - n), 0)
        BY <1>1 DEF FreeRoom
    <2> HIDE DEF l
    <2> QED BY <2>1, <1>2, SMT DEF Most
<1>6. ASSUME NEW m, Opens(c, k, m) PROVE Opens(d, j, m)
    <2>1. m \in Int /\ m <= Taken(c, k) + c.rcvwnd /\ m <= Taken(c, k) + FreeRoom(c) /\ Taken(c, k) \in Nat
        BY <1>6, TakenIsSmall DEF Opens
    <2>2. m <= Taken(c, k) + FreeRoom(d)
        BY <2>1, <1>5, SMT
    <2> QED BY <1>1, <1>4, <2>1, <2>2 DEF Opens
<1>7. j + Len(d.rcvbuf) = k + Len(c.rcvbuf)
    <2>1. j + Len(d.rcvbuf) = k + l
        <3> HIDE DEF l
        <3> QED BY <1>1, <1>2
    <2> QED BY <2>1
<1>8. \A i \in 1 .. Len(d.rcvbuf) : d.rcvbuf[i] = j + i
    <2> SUFFICES ASSUME NEW i \in 1 .. l - n PROVE d.rcvbuf[i] = j + i
        BY <1>1
    <2>1. n + i \in 1 .. l /\ k + (n + i) = j + i
        <3> HIDE DEF l
        <3> QED BY <1>2
    <2>2. c.rcvbuf[n + i] = k + (n + i)
        BY <2>1 DEF Receiver
    <2> QED BY <1>1, <2>1, <2>2
<1> HIDE DEF j, l
<1>9. Receiver(d, j)
    BY <1>1, <1>4, <1>6, <1>7, <1>8 DEF Receiver, Connected
<1> QED BY <1>9 DEF d, j

(* The bytes that recv() returns *)
LEMMA ReadIs ==
    ASSUME NEW s \in Seq(1 .. InLen), NEW n \in Nat, n <= Len(s), got \in Seq(Nat), \A i \in 1 .. Len(got) : got[i] = i,
           \A i \in 1 .. Len(s) : s[i] = Len(got) + i
    PROVE  LET g == got \o SubSeq(s, 1, n)
           IN  /\ SubSeq(s, 1, n) = [i \in 1 .. n |-> Len(got) + i]
               /\ g \in Seq(Nat) /\ Len(g) = Len(got) + n /\ \A i \in 1 .. Len(g) : g[i] = i
<1> DEFINE T == 1 .. InLen
           t == SubSeq(s, 1, n)
           u == [i \in 1 .. n |-> Len(got) + i]
<1>1. t \in Seq(T) /\ Len(t) = n /\ \A i \in 1 .. n : t[i] = s[i]
    <2>1. s \in Seq(T) /\ 1 \in Int /\ 1 >= 1 /\ n \in Int /\ n <= Len(s)
        BY SMT
    <2> HIDE DEF T
    <2>2. SubSeq(s, 1, n) \in Seq(T) /\ Len(SubSeq(s, 1, n)) = (IF 1 <= n THEN 1 + n - 1 ELSE 0)
          /\ \A i \in 1 .. 1 + n - 1 : SubSeq(s, 1, n)[i] = s[1 + i - 1]
        BY <2>1, Part
    <2>3. 1 + n - 1 = n /\ (IF 1 <= n THEN n ELSE 0) = n /\ \A i \in 1 .. n : 1 + i - 1 = i
        BY SMT
    <2> QED BY <2>2, <2>3
<1>2. t = u
    <2>1. DOMAIN t = 1 .. n /\ t = [i \in 1 .. n |-> t[i]]
        <3> HIDE DEF T, t
        <3> QED BY <1>1
    <2>2. \A i \in 1 .. n : t[i] = Len(got) + i
        <3> SUFFICES ASSUME NEW i \in 1 .. n PROVE t[i] = Len(got) + i
            OBVIOUS
        <3>1. i \in 1 .. Len(s)
            BY SMT
        <3> QED BY <1>1, <3>1
    <2> HIDE DEF t
    <2> QED BY <2>1, <2>2
<1> HIDE DEF t
<1>3. got \o u \in Seq(Nat) /\ Len(got \o u) = Len(got) + n /\ \A i \in 1 .. Len(got \o u) : (got \o u)[i] = i
    BY ReadKeepsOrder
<1> HIDE DEF u
<1> QED BY <1>2, <1>3 DEF t, u

(* recv() (fnet_tcp_rcv)                                                   *)
LEMMA RcvBoth == ASSUME IInv, Shapes, rcv PROVE Shapes' /\ (Reading => Reading')
<1> DEFINE l == Len(b.rcvbuf)
           n == Least(ReadMax, l)
           c == Emptied(b, n)
           d == IF Connected(b) /\ Announces(c) THEN sendack(c) ELSE c
           fin == n = 0 /\ Connected(b) /\ "FIN_RCVD" \in b.flags
<1>1. /\ b.state \notin {"IDLE", "SYN_SENT"} /\ Leaves(d) /\ UNCHANGED <<toBoard, accepted, server>>
      /\ got' = got \o SubSeq(b.rcvbuf, 1, n) /\ told' = (told \/ fin)
    BY Zenon DEF rcv, Emptied
<1>2. Typed(b) /\ b.rcvbuf \in Seq(1 .. InLen) /\ l \in Nat /\ b.newfree \in Nat /\ b.rcvwnd \in Nat /\ b.sent = {}
    BY DEF Shapes, Typed, IInv, Board
<1>3. n \in Nat /\ n <= l /\ (n = 0 <=> l = 0)
    <2>1. ReadMax \in Nat \ {0}
        BY TcpAssumption
    <2> HIDE DEF l
    <2> QED BY <2>1, <1>2, SMT DEF Least
<1> HIDE DEF n
<1>4. /\ Typed(c) /\ c.state = b.state /\ c.rcvwnd = b.rcvwnd /\ c.flags = b.flags /\ c.sent = b.sent
      /\ c.newfree = b.newfree + n /\ Len(c.rcvbuf) = l - n
      /\ \A i \in 1 .. l - n : c.rcvbuf[i] = b.rcvbuf[n + i]
    BY <1>2, <1>3, EmptiedIs
<1> HIDE DEF c
<1>5. Keeps(c, d) /\ Typed(d) /\ d.flags = b.flags /\ d.state = b.state
    BY <1>4, SendackKeeps, KeepsNothing DEF Announced, Keeps
<1>6. Connected(b) => Reopens(d)
    <2> SUFFICES ASSUME Connected(b), ~Announces(c) PROVE Reopens(c)
        BY <1>4, SendackKeeps
    <2> SUFFICES ASSUME c.rcvbuf = <<>>, ~(c.rcvwnd > 0) PROVE FALSE
        BY DEF Reopens
    <2>1. b.rcvwnd = 0 /\ c.rcvwnd = 0
        BY <1>2, <1>4
    <2>2. ~(c.newfree > 0)
        BY <2>1 DEF Announces
    <2>3. n = 0
        BY <1>2, <1>3, <1>4, <2>2, SMT
    <2>4. b.rcvbuf = <<>>
        BY <1>2, <1>3, <2>3
    <2> QED BY <2>1, <2>4 DEF Shapes, Reopens, Connected
<1>7. told' \in BOOLEAN /\ accepted' \in 0 .. OutLen
    BY <1>1 DEF Shapes
<1> HIDE DEF d
<1>8. Shapes'
    <2>1. d.state \notin {"IDLE", "CLOSED"} => Reopens(d)
        BY <1>1, <1>2, <1>5, <1>6 DEF Typed, States, Connected
    <2> QED BY <1>1, <1>5, <1>7, <2>1, CallKeepsShapes
<1>9. ASSUME Reading PROVE Reading'
    <2> DEFINE k == Len(got)
    <2>1. got \in Seq(Nat) /\ k \in Nat /\ (\A i \in 1 .. k : got[i] = i) /\ (told => k = InLen) /\ InLen \in Nat /\ Short
        <3>1. got \in Seq(Nat) /\ (\A i \in 1 .. Len(got) : got[i] = i) /\ (told => Len(got) = InLen) /\ Short
            BY <1>9 DEF Reading
        <3>2. k \in Nat
            BY <3>1
        <3> QED BY <3>1, <3>2, TcpAssumption, Zenon
    <2>2. After(b)
        BY <1>1, <1>2, <1>9 DEF Reading, Phase, Receiver, After, Typed, States, Connected
    <2>3. /\ got' \in Seq(Nat) /\ Len(got') = k + n /\ \A i \in 1 .. Len(got') : got'[i] = i
        BY <1>1, <1>2, <1>3, <2>1, <2>2, ReadIs DEF After
    <2>4. k + l <= InLen
        BY <2>2 DEF After
    <2>5. told' => Len(got') = InLen
        <3>1. CASE told
            <4> HIDE DEF k, l
            <4> QED BY <1>2, <1>3, <2>1, <2>3, <2>4, <3>1, SMT
        <3>2. CASE fin
            <4>1. k + l = InLen /\ l = 0 /\ n = 0
                BY <1>3, <1>9, <3>2 DEF Reading, Phase, Receiver
            <4> HIDE DEF k, l
            <4> QED BY <2>1, <2>3, <4>1, SMT
        <3> QED BY <1>1, <3>1, <3>2
    <2>6. toBoard' = toBoard /\ edge' = edge
        BY <1>1 DEF server
    <2>7. Phase(b)'
        <3>1. CASE Connected(b)
            <4>1. Receiver(b, k)
                BY <1>9, <3>1 DEF Reading, Phase
            <4>2. Receiver(c, k + n)
                BY <4>1, <1>2, <1>3, <2>1, EmptiedReceives DEF c
            <4>3. k + n \in Nat
                BY <1>3, <2>1
            <4>4. Receiver(d, k + n)
                BY <1>5, <4>2, <4>3 DEF Keeps
            <4>5. told' => "FIN_RCVD" \in d.flags
                BY <1>1, <1>5, <4>1 DEF Receiver
            <4> QED BY <1>1, <1>5, <2>3, <2>6, <4>4, <4>5, ReceiverStays
        <3>2. CASE ~Connected(b)
            <4>1. b.state = "CLOSED" /\ d = c
                BY <1>1, <1>2, <3>2 DEF Typed, States, Connected, d
            <4>2. b'.state = "CLOSED" /\ b'.rcvbuf = c.rcvbuf
                BY <1>1, <1>5, <4>1, LeavesReceiver
            <4>3. Len(got') + Len(c.rcvbuf) = k + l
                <5> HIDE DEF k, l
                <5> QED BY <1>2, <1>3, <1>4, <2>1, <2>3, SMT
            <4>4. \A i \in 1 .. Len(c.rcvbuf) : c.rcvbuf[i] = Len(got') + i
                <5> SUFFICES ASSUME NEW i \in 1 .. l - n PROVE c.rcvbuf[i] = Len(got') + i
                    BY <1>4
                <5>1. n + i \in 1 .. l /\ k + (n + i) = (k + n) + i
                    <6> HIDE DEF k, l
                    <6> QED BY <1>2, <1>3, <2>1, SMT
                <5>2. b.rcvbuf[n + i] = k + (n + i)
                    BY <2>2, <5>1 DEF After
                <5> QED BY <1>4, <2>3, <5>1, <5>2
            <4>5. Len(got)' + Len(b'.rcvbuf) <= InLen
                BY <2>4, <4>2, <4>3
            <4>6. After(b)'
                BY <4>2, <4>4, <4>5 DEF After
            <4> QED BY <4>2, <4>6 DEF Phase, Connected
        <3> QED BY <3>1, <3>2
    <2> QED BY <1>9, <2>3, <2>5, <2>6, <2>7 DEF Reading, Comes, Sound
<1> QED BY <1>8, <1>9

(* Bytes of the server, from the n'th on *)
LEMMA ServerNumber ==
    ASSUME NEW n \in Nat
    PROVE  /\ Wrap(ServerISN + n) \in Seqs
           /\ n < SeqSpace => From(Wrap(ServerISN + n)) = n
<1>1. ServerISN \in Seqs /\ ServerISN + n \in Int
    <2>1. ServerISN \in Seqs
        BY TcpAssumption DEF Seqs
    <2> QED BY <2>1, NumbersAreInts, SMT
<1>2. From(ServerISN) = 0
    BY <1>1, NoDistance DEF From
<1>3. Wrap(ServerISN + n) \in Seqs
    BY <1>1, WrapInRange
<1>4. ASSUME n < SeqSpace PROVE From(Wrap(ServerISN + n)) = n
    <2>1. From(Wrap(ServerISN + n)) = From(ServerISN) + n
        BY <1>1, <1>2, <1>4, FromIs
    <2> QED BY <1>2, <2>1
<1> QED BY <1>3, <1>4

(* A segment of the server                                                 *)
LEMMA ReplyIs ==
    ASSUME Len(delivered) \in Nat, NEW n \in Nat, NEW data \in Seq(1 .. InLen), NEW flags \in SUBSET Bits, NEW wnd \in Nat
    PROVE  LET s == Reply(n, data, flags, wnd)
           IN  s \in InSegments /\ s.seq = Wrap(ServerISN + n) /\ s.data = data /\ s.flags = flags
<1>1. Wrap(ServerISN + n) \in Seqs /\ Wrap(BoardISN + 1 + Len(delivered)) \in Seqs
    <2>1. BoardISN + 1 + Len(delivered) \in Int
        <3>1. BoardISN \in Seqs
            BY TcpAssumption DEF Seqs
        <3>2. BoardISN \in Nat
            BY <3>1, NumbersAreInts
        <3> QED BY <3>2, SMT
    <2> QED BY <2>1, ServerNumber, WrapInRange
<1> DEFINE x == Wrap(ServerISN + n)
           y == Wrap(BoardISN + 1 + Len(delivered))
           s == [seq |-> x, data |-> data, flags |-> flags, wnd |-> wnd, ack |-> y]
<1>2. Reply(n, data, flags, wnd) = s
    BY DEF Reply
<1> HIDE DEF x, y
<1>3. s \in InSegments
    BY <1>1 DEF InSegments, x, y
<1> QED BY <1>2, <1>3 DEF x

(* A segment of the server comes to the board. *)
LEMMA ComesBoth ==
    ASSUME Shapes, NEW s \in InSegments, ToBoard(s),
           Short => Comes(s) /\ ("SYN" \in s.flags => From(s.seq) = 0)
    PROVE  Shapes' /\ (Reading => Reading')
<1>1. UNCHANGED <<b, toServer, accepted, got, told, server>> /\ toBoard' \in Carried(toBoard, {s})
    BY DEF ToBoard
<1>2. \A r \in toBoard' : r \in toBoard \/ r = s
    BY <1>1 DEF Carried
<1>3. knows' = knows /\ shut' = shut /\ edge' = edge
    BY <1>1 DEF server
<1>4. Shapes'
    BY <1>1, <1>2, <1>3 DEF Shapes, Typed, Reopens
<1>5. ASSUME Reading PROVE Reading'
    <2>1. Phase(b)'
        BY <1>1, <1>3, <1>5, PhaseStays DEF Reading
    <2>2. \A r \in toBoard' : Comes(r) /\ ("SYN" \in r.flags => From(r.seq) = 0)
        BY <1>2, <1>5 DEF Reading
    <2> QED BY <1>1, <1>3, <1>5, <2>1, <2>2 DEF Reading, Comes, Sound
<1> QED BY <1>4, <1>5

(* The server sends a piece of its stream, at the most up to the edge of   *)
(* the window it knows.                                                    *)
LEMMA ServerSendsBoth == ASSUME IInv, Shapes, ServerSends PROVE Shapes' /\ (Reading => Reading')
<1>1. Len(delivered) \in Nat /\ InLen \in Nat /\ edge \in Nat /\ Windows \subseteq Nat
    <2>1. Len(delivered) \in Nat /\ edge \in Nat
        BY DEF IInv, Numbers, Shapes
    <2>2. InLen \in Nat /\ Windows \subseteq Nat
        BY TcpAssumption
    <2> QED BY <2>1, <2>2
<1>2. Short => InLen + 2 < SeqSpace
    <2> DEFINE e == SeqSpace \div 8
    <2>1. e \in Nat /\ 8 * e <= SeqSpace /\ SeqSpace \in Nat \ {0}
        BY Eighth
    <2>2. Short => InLen + 2 <= e
        BY DEF Short
    <2> HIDE DEF e
    <2> QED BY <1>1, <2>1, <2>2, SMT
<1>3. <<>> \in Seq(1 .. InLen) /\ Len(<<>>) = 0
    OBVIOUS
<1>4. ASSUME NEW wnd \in Windows, ToBoard(Reply(0, <<>>, {"SYN", "ACK"}, wnd)) PROVE Shapes' /\ (Reading => Reading')
    <2> DEFINE none == <<>>
               flags == {"SYN", "ACK"}
               s == Reply(0, none, flags, wnd)
    <2>1. flags \in SUBSET Bits /\ "SYN" \in flags /\ 0 \in Nat /\ wnd \in Nat /\ none \in Seq(1 .. InLen)
        BY <1>1, <1>3, SMT DEF Bits
    <2>2. ToBoard(s)
        BY <1>4
    <2> HIDE DEF none, flags
    <2>4. s \in InSegments /\ s.seq = Wrap(ServerISN + 0) /\ s.flags = flags
        BY <1>1, <2>1, ReplyIs
    <2> HIDE DEF s
    <2>3. From(s.seq) = 0
        <3>1. 0 < SeqSpace
            BY Small, SMT
        <3> QED BY <2>1, <2>4, <3>1, ServerNumber
    <2> QED BY <2>1, <2>2, <2>3, <2>4, ComesBoth DEF Comes
(* A piece that is sound when it is short *)
<1>5. ASSUME NEW n \in 1 .. InLen + 2, NEW data \in Seq(1 .. InLen), NEW flags \in {{"ACK"}, {"ACK", "FIN"}}, NEW wnd \in Windows,
             \A i \in 1 .. Len(data) : data[i] = n - 1 + i, data # <<>> => n + Len(data) <= InLen + 1,
             "FIN" \in flags => n + Len(data) = InLen + 1 /\ InLen <= edge,
             ToBoard(Reply(n, data, flags, wnd))
      PROVE  Shapes' /\ (Reading => Reading')
    <2> DEFINE s == Reply(n, data, flags, wnd)
    <2>1. flags \in SUBSET Bits /\ flags \subseteq {"ACK", "FIN"} /\ "SYN" \notin flags /\ wnd \in Nat
        BY <1>1 DEF Bits
    <2>2. n \in Nat /\ n <= InLen + 2
        BY <1>1, SMT
    <2>3. s \in InSegments /\ s.seq = Wrap(ServerISN + n) /\ s.data = data /\ s.flags = flags
        BY <1>1, <2>1, <2>2, ReplyIs
    <2> HIDE DEF s
    <2>4. ASSUME Short PROVE Sound(s)
        <3>1. n < SeqSpace
            <4>1. InLen + 2 < SeqSpace /\ SeqSpace \in Nat
                BY <1>2, <2>4, Small, SMT
            <4> QED BY <1>1, <2>2, <4>1, SMT
        <3>2. From(s.seq) = n
            BY <2>2, <2>3, <3>1, ServerNumber
        <3> QED BY <1>5, <2>1, <2>3, <3>2 DEF Sound
    <2> QED BY <1>5, <2>1, <2>3, <2>4, ComesBoth DEF Comes, s
<1>6. ASSUME NEW wnd \in Windows, edge > 0, NEW i \in 0 .. Least(InLen, edge), NEW j \in i .. Least(InLen, edge),
             NEW flags \in {{"ACK"}} \cup IF Closes /\ j = InLen THEN {{"ACK", "FIN"}} ELSE {},
             ToBoard(Reply(i + 1, [k \in 1 .. j - i |-> i + k], flags, wnd))
      PROVE  Shapes' /\ (Reading => Reading')
    <2> DEFINE data == [k \in 1 .. j - i |-> i + k]
               n == i + 1
    <2>1. i \in Nat /\ j \in Nat /\ i <= j /\ j <= InLen /\ j <= edge
        BY <1>1, SMT DEF Least
    <2>2. data \in Seq(1 .. InLen) /\ Len(data) = j - i /\ \A k \in 1 .. j - i : data[k] = i + k
        <3>1. j - i \in Nat /\ \A k \in 1 .. j - i : i + k \in 1 .. InLen
            BY <1>1, <2>1, SMT
        <3> DEFINE T == 1 .. InLen
        <3> HIDE DEF T
        <3>2. \A k \in 1 .. j - i : i + k \in T
            BY <3>1 DEF T
        <3>3. data \in Seq(T) /\ Len(data) = j - i
            BY <3>1, <3>2
        <3> QED BY <3>3 DEF T
    <2> HIDE DEF data
    <2>3. n \in 1 .. InLen + 2 /\ n + Len(data) <= InLen + 1 /\ (j = InLen => n + Len(data) = InLen + 1 /\ InLen <= edge)
        BY <1>1, <2>1, <2>2, SMT
    <2>4. \A k \in 1 .. Len(data) : data[k] = n - 1 + k
        <3> SUFFICES ASSUME NEW k \in 1 .. j - i PROVE data[k] = n - 1 + k
            BY <2>2
        <3>1. n - 1 + k = i + k
            BY <2>1, SMT
        <3> QED BY <2>2, <3>1
    <2>5. flags = {"ACK"} \/ (flags = {"ACK", "FIN"} /\ j = InLen)
        BY <1>6
    <2>6. ToBoard(Reply(n, data, flags, wnd))
        BY <1>6 DEF data
    <2> HIDE DEF n
    <2>7. "FIN" \in flags => n + Len(data) = InLen + 1 /\ InLen <= edge
        BY <2>3, <2>5
    <2> QED BY <2>2, <2>3, <2>4, <2>5, <2>6, <2>7, <1>5
<1>7. ASSUME NEW wnd \in Windows, edge < InLen, ToBoard(Reply(edge + 1, <<edge + 1>>, {"ACK"}, wnd))
      PROVE  Shapes' /\ (Reading => Reading')
    <2> DEFINE n == edge + 1
               data == <<n>>
    <2>1. n \in 1 .. InLen + 2 /\ n \in 1 .. InLen /\ n + 1 <= InLen + 1 /\ n - 1 + 1 = n
        BY <1>1, <1>7, SMT
    <2> HIDE DEF n
    <2>2. data \in Seq(1 .. InLen) /\ Len(data) = 1 /\ data[1] = n
        BY <2>1
    <2> HIDE DEF data
    <2>3. \A i \in 1 .. Len(data) : data[i] = n - 1 + i
        BY <2>1, <2>2, SMT
    <2>4. n + Len(data) <= InLen + 1 /\ ToBoard(Reply(n, data, {"ACK"}, wnd)) /\ "FIN" \notin {"ACK"}
        BY <1>7, <2>1, <2>2 DEF n, data
    <2> QED BY <2>1, <2>2, <2>3, <2>4, <1>5
<1>8. ASSUME NEW wnd \in Windows, ToBoard(Reply(InLen + 2, <<>>, {"ACK"}, wnd)) PROVE Shapes' /\ (Reading => Reading')
    <2>1. InLen + 2 \in 1 .. InLen + 2 /\ "FIN" \notin {"ACK"} /\ \A i \in 1 .. 0 : FALSE
        BY <1>1
    <2>2. \A i \in 1 .. Len(<<>>) : <<>>[i] = InLen + 2 - 1 + i
        BY <1>3, <2>1
    <2> QED BY <1>3, <1>8, <2>1, <2>2, <1>5
<1>9. ASSUME NEW flags \in Resets, NEW i \in 0 .. Least(InLen, edge), ToBoard(Reply(i + 1, <<>>, flags, 0))
      PROVE  Shapes' /\ (Reading => Reading')
    <2> DEFINE none == <<>>
               s == Reply(i + 1, none, flags, 0)
    <2>1. flags \in {{"RST"}, {"RST", "ACK"}}
        BY TcpAssumption
    <2>2. flags \in SUBSET Bits /\ "RST" \in flags /\ "SYN" \notin flags
        BY <2>1 DEF Bits
    <2>3. i + 1 \in Nat /\ 0 \in Nat /\ none \in Seq(1 .. InLen) /\ ToBoard(s)
        BY <1>1, <1>3, <1>9
    <2> HIDE DEF none
    <2>4. s \in InSegments /\ s.flags = flags
        BY <1>1, <2>2, <2>3, ReplyIs
    <2> HIDE DEF s
    <2> QED BY <2>2, <2>3, <2>4, ComesBoth DEF Comes
<1> QED BY <1>4, <1>6, <1>7, <1>8, <1>9, Zenon DEF ServerSends

(* The server learns of a window: one that the board keeps open. *)
LEMMA ServerReceivesBoth ==
    ASSUME IInv, Shapes, NEW s \in toServer, ServerReceives(s) PROVE Shapes' /\ (Reading => Reading')
<1>1. /\ UNCHANGED <<b, toServer, toBoard, accepted, got, told>>
      /\ (edge' = edge \/ (s.flags = {"ACK"} /\ edge' = Most(edge, Offered(s))))
      /\ knows' \in BOOLEAN /\ shut' \in BOOLEAN
    BY DEF ServerReceives, server, Shapes
<1>2. Offered(s) \in Int /\ edge \in Nat
    <2>1. s.ack \in Seqs /\ s.wnd \in Nat /\ ServerISN \in Seqs
        BY TcpAssumption DEF Shapes, OutSegments, Seqs
    <2>2. s.ack + s.wnd \in Int
        <3>1. s.ack \in Nat
            BY <2>1, NumbersAreInts
        <3> QED BY <2>1, <3>1
    <2>3. getsize(ServerISN, Wrap(s.ack + s.wnd)) \in Nat
        BY <2>1, <2>2, WrapInRange, SizeInRange
    <2> QED BY <2>3, SMT DEF Offered, Shapes
<1>3. edge' \in Nat /\ edge <= edge' /\ (edge' = edge \/ (s.flags = {"ACK"} /\ edge' = Offered(s)))
    BY <1>1, <1>2, SMT DEF Most
<1>4. Shapes'
    BY <1>1, <1>3 DEF Shapes, Typed, Reopens
<1>5. ASSUME Reading PROVE Reading'
    <2>1. ASSUME NEW r, Sound(r) PROVE Sound(r)'
        <3>1. InLen \in Nat
            BY TcpAssumption
        <3>2. InLen <= edge => InLen <= edge'
            BY <1>2, <1>3, <3>1, SMT
        <3> QED BY <2>1, <3>2 DEF Sound, From
    <2>2. CASE b.state \in {"IDLE", "SYN_SENT"}
        <3>1. Before(b)
            BY <1>5, <2>2 DEF Reading, Phase
        <3>2. s.flags # {"ACK"}
            BY <3>1 DEF Before
        <3>3. Before(b)'
            BY <1>1, <1>3, <3>1, <3>2 DEF Before
        <3>4. Phase(b)'
            BY <1>1, <2>2, <3>3 DEF Phase, Connected
        <3> QED BY <1>1, <1>5, <2>1, <3>4 DEF Reading, Comes, From
    <2>3. CASE Connected(b)
        <3>1. Receiver(b, Len(got))
            BY <1>5, <2>3 DEF Reading, Phase
        <3>2. Opens(b, Len(got), edge')
            BY <1>3, <3>1 DEF Receiver
        <3>3. Receiver(b, Len(got))'
            BY <1>1, <2>1, <3>1, <3>2 DEF Receiver, Connected, Opens, Taken, FinSeen, FreeRoom, Brings, Offered, From
        <3>4. Phase(b)'
            BY <1>1, <2>3, <3>3 DEF Phase, Connected
        <3> QED BY <1>1, <1>5, <2>1, <3>4 DEF Reading, Comes, From
    <2>4. CASE b.state = "CLOSED"
        <3>1. Phase(b)'
            BY <1>1, <1>5, <2>4 DEF Reading, Phase, After, Connected
        <3> QED BY <1>1, <1>5, <2>1, <3>1 DEF Reading, Comes, From
    <2> QED BY <2>2, <2>3, <2>4 DEF Shapes, Typed, States, Connected
<1> QED BY <1>4, <1>5

(* Both hold at the start, *)
LEMMA FreshIsTyped == Typed(Fresh) /\ Fresh.state = "IDLE" /\ Fresh.rcvbuf = <<>> /\ Fresh.chain = <<>>
                      /\ Fresh.flags = {} /\ Fresh.rcvwnd = 0 /\ Fresh.sent = {}
<1> DEFINE d == Fresh
<1>1. /\ DOMAIN d = Fields /\ d.state = "IDLE" /\ d.rcvbuf = <<>> /\ d.sent = {}
      /\ d.sndseq = 0 /\ d.rcvack = 0 /\ d.maxrcvack = 0 /\ d.sndack = 0 /\ d.sndwnd = 0 /\ d.maxwnd = 0 /\ d.cwnd = 0
      /\ d.ssthresh = SeqSpace /\ d.pcount = 0 /\ d.repeats = 0 /\ d.rcvwnd = 0 /\ d.newfree = 0 /\ d.sndbuf = <<>>
      /\ d.chain = <<>> /\ d.count = 0 /\ d.timers = {} /\ d.flags = {}
    BY SMT DEF Fresh, Fields
<1> HIDE DEF d
<1>2. 0 \in Seqs /\ SeqSpace \in Nat /\ 0 \in Nat /\ 0 \in Int /\ 0 \in 0 .. 4 /\ 0 <= SndMax
    BY Small, SMT DEF Seqs
<1>3. <<>> \in Seq(1 .. OutLen) /\ <<>> \in Seq(InSegments) /\ <<>> \in Seq(1 .. InLen) /\ Len(<<>>) = 0
    OBVIOUS
<1>4. "IDLE" \in States
    BY DEF States
<1>5. /\ d.sndbuf \in Seq(1 .. OutLen) /\ Len(d.sndbuf) <= SndMax /\ d.rcvbuf \in Seq(1 .. InLen)
      /\ d.chain \in Seq(InSegments) /\ d.timers \subseteq Timers /\ d.flags \subseteq Flags /\ d.sent \subseteq OutSegments
    BY <1>1, <1>2, <1>3
<1>6. d.state \in States /\ d.sndseq \in Seqs /\ d.rcvack \in Seqs /\ d.maxrcvack \in Seqs /\ d.sndack \in Seqs
    BY <1>1, <1>2, <1>4
<1>7. /\ d.sndwnd \in Nat /\ d.maxwnd \in Nat /\ d.cwnd \in Nat /\ d.ssthresh \in Nat /\ d.pcount \in Nat
      /\ d.rcvwnd \in Nat /\ d.newfree \in Nat /\ d.repeats \in 0 .. 4 /\ d.count \in Int
    BY <1>1, <1>2
<1>8. Typed(d)
    BY <1>1, <1>5, <1>6, <1>7 DEF Typed
<1> QED BY <1>1, <1>8 DEF d

(* The invariant holds at first                                            *)
LEMMA ReadingInit == Init => Shapes /\ (Short => Reading)
<1> SUFFICES ASSUME Init PROVE Shapes /\ (Short => Reading)
    OBVIOUS
<1>1. /\ b = Fresh /\ toServer = {} /\ toBoard = {} /\ accepted = 0 /\ got = <<>> /\ told = FALSE
      /\ delivered = <<>> /\ knows = FALSE /\ edge = 0 /\ shut = FALSE
    BY DEF Init
<1>2. Typed(b) /\ b.state = "IDLE" /\ b.rcvbuf = <<>> /\ b.chain = <<>> /\ b.flags = {} /\ b.rcvwnd = 0 /\ b.sent = {}
    BY <1>1, FreshIsTyped
<1>3. 0 \in 0 .. OutLen /\ 0 \in Nat /\ 0 <= RcvMax /\ OutLen \in Nat
    BY TcpAssumption, Small, SMT
<1>4. Shapes
    BY <1>1, <1>2, <1>3 DEF Shapes
<1>5. ASSUME Short PROVE Reading
    <2>1. Before(b)
        BY <1>1, <1>2, <1>3 DEF Before
    <2>2. Phase(b)
        BY <1>2, <2>1 DEF Phase, Connected
    <2>3. got \in Seq(Nat) /\ Len(got) = 0 /\ \A i \in 1 .. Len(got) : got[i] = i
        <3>1. got \in Seq(Nat) /\ Len(got) = 0
            BY <1>1
        <3> QED BY <3>1, SMT
    <2> QED BY <1>1, <1>5, <2>2, <2>3 DEF Reading
<1> QED BY <1>4, <1>5

(* No keep-alive probe announces a window wider than tcpcb_rcvwnd.  Every  *)
(* other sender of segments notes what it announces; fnet_tcp_ktimeo does  *)
(* not, and the run tcp_keepalive shows what is lost by it.                *)
Quiet == ktimeo => getrcvwnd(b) <= b.rcvwnd

(* and every step keeps the types, and, if it is quiet, what makes the     *)
(* stream right.                                                           *)
LEMMA ReadingNext ==
    ASSUME IInv, Shapes, [Next]_vars
    PROVE  Shapes' /\ (Reading /\ [Quiet]_vars => Reading')
<1>1. CASE connect \/ snd \/ rcv \/ close
    BY <1>1, ConnectBoth, SndBoth, RcvBoth, CloseBoth
<1>2. CASE rtimeo \/ ptimeo \/ delayed_ack \/ abort
    BY <1>2, RtimeoBoth, PtimeoBoth, DelayedAckBoth, AbortBoth
<1>3. CASE UNCHANGED vars
    <2>1. UNCHANGED <<b, toServer, toBoard, accepted, got, told>> /\ knows' = knows /\ shut' = shut /\ edge' = edge
        BY <1>3 DEF vars, server
    <2>2. Shapes'
        BY <2>1 DEF Shapes, Typed, Reopens
    <2>3. ASSUME Reading PROVE Reading'
        <3>1. Phase(b)'
            BY <2>1, <2>3, PhaseStays DEF Reading
        <3> QED BY <2>1, <2>3, <3>1 DEF Reading, Comes, Sound, From
    <2> QED BY <2>2, <2>3
<1>4. CASE ktimeo /\ ~UNCHANGED vars
    BY <1>4, KtimeoBoth DEF Quiet
<1>5. CASE \E s \in toBoard : input(s)
    BY <1>5, InputBoth
<1>6. CASE ServerSends
    BY <1>6, ServerSendsBoth
<1>7. CASE \E s \in toServer : ServerReceives(s)
    BY <1>7, ServerReceivesBoth
<1> QED BY <1>1, <1>2, <1>3, <1>4, <1>5, <1>6, <1>7 DEF Next

(* Types are kept whatever happens.                                        *)
LEMMA TcpShapes == Spec => []Shapes
<1>1. Init => Shapes
    BY ReadingInit
<1>2. IInv /\ Shapes /\ [Next]_vars => Shapes'
    BY ReadingNext
<1> QED BY <1>1, <1>2, TcpInv, PTL DEF Spec

(* The receiver is right while keep-alive probes announce no more than the *)
(* board notes.                                                            *)
LEMMA TcpReading == Short /\ Spec /\ [][Quiet]_vars => []Reading
<1>1. Short /\ Init => Reading
    BY ReadingInit
<1>2. IInv /\ Shapes /\ Reading /\ [Next]_vars /\ [Quiet]_vars => Reading'
    BY ReadingNext
<1> QED BY <1>1, <1>2, TcpInv, TcpShapes, PTL DEF Spec
-----------------------------------------------------------------------------
(* What a recv() adds to what was read, and when it tells of the end *)
LEMMA RcvReads ==
    ASSUME IInv, Shapes, Reading, rcv
    PROVE  /\ \E n \in Nat : got' = got \o [i \in 1 .. n |-> Len(got) + i] /\ Len(got) + n <= InLen
           /\ told' = told \/ (told' = TRUE /\ ~told /\ got' = got /\ Len(got) = InLen)
           /\ told => got' = got
<1> DEFINE l == Len(b.rcvbuf)
           k == Len(got)
           n == Least(ReadMax, l)
           fin == n = 0 /\ Connected(b) /\ "FIN_RCVD" \in b.flags
<1>1. b.state \notin {"IDLE", "SYN_SENT"} /\ got' = got \o SubSeq(b.rcvbuf, 1, n) /\ told' = (told \/ fin)
    BY Zenon DEF rcv
<1>2. Typed(b) /\ b.rcvbuf \in Seq(1 .. InLen) /\ l \in Nat
    BY DEF Shapes, Typed
<1>3. n \in Nat /\ n <= l /\ (n = 0 <=> l = 0)
    <2>1. ReadMax \in Nat \ {0}
        BY TcpAssumption
    <2> HIDE DEF l
    <2> QED BY <2>1, <1>2, SMT DEF Least
<1> HIDE DEF n
<1>4. got \in Seq(Nat) /\ (\A i \in 1 .. k : got[i] = i) /\ (told => k = InLen) /\ k \in Nat /\ InLen \in Nat
    <2>1. got \in Seq(Nat) /\ (\A i \in 1 .. Len(got) : got[i] = i) /\ (told => Len(got) = InLen)
        BY DEF Reading
    <2>2. k \in Nat
        BY <2>1
    <2> QED BY <2>1, <2>2, TcpAssumption, Zenon
<1>5. k + l <= InLen /\ (\A i \in 1 .. l : b.rcvbuf[i] = k + i) /\ (fin => k + l = InLen)
    BY <1>1, <1>2 DEF Reading, Phase, Receiver, After, Typed, States, Connected
<1>6. SubSeq(b.rcvbuf, 1, n) = [i \in 1 .. n |-> k + i]
    BY <1>2, <1>3, <1>4, <1>5, ReadIs
<1>7. got' = got \o [i \in 1 .. n |-> k + i]
    BY <1>1, <1>6
<1>8. k + n <= InLen
    <2> HIDE DEF k, l
    <2> QED BY <1>2, <1>3, <1>4, <1>5, SMT
<1>9. n = 0 => got' = got
    <2> SUFFICES ASSUME n = 0 PROVE got' = got
        OBVIOUS
    <2>1. [i \in 1 .. n |-> k + i] = <<>>
        OBVIOUS
    <2> QED BY <1>4, <1>7, <2>1
<1>10. told => n = 0
    <2> HIDE DEF k, l
    <2> QED BY <1>2, <1>3, <1>4, <1>5, SMT
<1>11. fin => k = InLen
    <2> SUFFICES ASSUME fin PROVE k = InLen
        OBVIOUS
    <2>1. l = 0 /\ k + l = InLen
        BY <1>3, <1>5
    <2> HIDE DEF k, l
    <2> QED BY <1>4, <2>1, SMT
<1>12. told \in BOOLEAN
    BY DEF Shapes
<1>13. told' = told \/ (told' = TRUE /\ ~told /\ got' = got /\ k = InLen)
    <2>1. CASE told
        BY <1>1, <1>12, <2>1
    <2>2. CASE ~told /\ fin
        BY <1>1, <1>9, <1>11, <2>2
    <2>3. CASE ~told /\ ~fin
        BY <1>1, <1>12, <2>3
    <2> QED BY <2>1, <2>2, <2>3
<1> QED BY <1>3, <1>7, <1>8, <1>9, <1>10, <1>13

(* Every field of the socket and of the segments stays within its type,    *)
(* whatever the server and the network do: no number leaves its range, no  *)
(* buffer its limit (fnet_tcp.c).                                          *)
THEOREM TcpTypesCorrect == Spec => []TypeOK
<1>1. Shapes => TypeOK
    <2> SUFFICES ASSUME Shapes PROVE TypeOK
        OBVIOUS
    <2> DEFINE m == Most(OutLen, InLen)
    <2>1. m \in Nat /\ 1 .. InLen \subseteq 0 .. m
        BY TcpAssumption, SMT DEF Most
    <2>2. Segments = [seq : Seqs, ack : Seqs, wnd : Nat, data : Seq(0 .. m), flags : SUBSET Bits]
        BY DEF Segments, Seqs, Bits
    <2>3. OutSegments \subseteq Segments
        BY <2>2 DEF OutSegments, Data
    <2>4. InSegments \subseteq Segments
        <3> SUFFICES ASSUME NEW s \in InSegments PROVE s \in Segments
            OBVIOUS
        <3>1. s.data \in Seq(0 .. m)
            <4>1. s.data \in Seq(1 .. InLen)
                BY DEF InSegments
            <4> QED BY <4>1, DataIsAny DEF Data
        <3> HIDE DEF m
        <3> QED BY <2>2, <3>1 DEF InSegments
    <2>5. toServer \cup toBoard \subseteq Segments
        BY <2>3, <2>4 DEF Shapes
    <2>6. Typed(b) /\ accepted \in 0 .. OutLen /\ told \in BOOLEAN /\ knows \in BOOLEAN /\ shut \in BOOLEAN /\ edge \in Nat
        BY DEF Shapes
    <2> QED BY <2>5, <2>6 DEF TypeOK, Typed, States, Timers, Flags, Seqs
<1> QED BY <1>1, TcpShapes, PTL

(* A board that has read everything advertises a window: a server that     *)
(* waits for one is not left waiting (fnet_tcp_rcv, fnet_tcp_getrcvwnd).   *)
THEOREM TcpWindowReopens == Spec => []WindowReopens
<1>1. Shapes => WindowReopens
    BY DEF Shapes, WindowReopens, Reopens, Connected
<1> QED BY <1>1, TcpShapes, PTL

(* What the board acknowledges is in the receive buffer, or was read,      *)
(* whatever arrives out of order, twice or cut (fnet_tcp_addinpbuf).  The  *)
(* model's network brings segments of any age, so the stream is short; and *)
(* the probes are quiet, for a FIN behind bytes cut off is not.            *)
THEOREM TcpAcknowledgedIsThere == Short /\ Spec /\ [][Quiet]_vars => []AcknowledgedIsThere
<1>1. Shapes /\ Reading => AcknowledgedIsThere
    <2> SUFFICES ASSUME Shapes, Reading, Connected(b)
                 PROVE  getsize(Wrap(ServerISN + 1), b.sndack) = Taken(b, Len(got))
        BY DEF AcknowledgedIsThere, Taken, FinSeen
    <2> DEFINE k == Len(got)
               first == Wrap(ServerISN + 1)
               e == SeqSpace \div 8
    <2>1. Typed(b) /\ Receiver(b, k) /\ Short /\ k \in Nat /\ b.sndack \in Seqs
        BY DEF Shapes, Reading, Phase, Typed
    <2>2. From(b.sndack) = Taken(b, k) + 1 /\ From(b.sndack) \in Nat /\ From(b.sndack) <= e /\ Taken(b, k) \in Nat
        BY <2>1, SndackIs, TakenIsSmall
    <2>3. e \in Nat /\ 8 * e <= SeqSpace /\ SeqSpace \in Nat /\ InLen \in Nat /\ InLen + 2 <= e
        BY <2>1, Eighth, TcpAssumption DEF Short
    <2>4. 1 <= e /\ 1 < SeqSpace
        <3> HIDE DEF e
        <3> QED BY <2>3, SMT
    <2>5. first \in Seqs /\ From(first) = 1
        BY <2>4, ServerNumber
    <2> HIDE DEF first
    <2>6. From(first) <= From(b.sndack)
        BY <2>2, <2>5, SMT
    <2>7. getsize(first, b.sndack) = From(b.sndack) - From(first)
        BY <2>1, <2>2, <2>4, <2>5, <2>6, FromOrders
    <2>8. getsize(first, b.sndack) = Taken(b, k)
        BY <2>2, <2>5, <2>7, SMT
    <2> QED BY <2>8 DEF first
<1> QED BY <1>1, TcpShapes, TcpReading, PTL

(* What the application reads is the stream the server wrote: each byte    *)
(* once and in order, and the end only after the last of them, whatever    *)
(* the network loses, doubles, or brings late: Tcp implements Stream       *)
(* towards the board.  Without Quiet the run tcp_keepalive refutes it.     *)
THEOREM TcpIncomingIsStream == Short /\ Spec /\ [][Quiet]_vars => IncomingIsStream
<1> DEFINE ivars == <<InLen, got, told>>
<1>1. Init => Incoming!Init
    BY TcpAssumption DEF Init, Incoming!Init
<1>2. IInv /\ Shapes /\ Reading /\ [Next]_vars => [Incoming!Next]_ivars
    <2> SUFFICES ASSUME IInv, Shapes, Reading, [Next]_vars PROVE [Incoming!Next]_ivars
        OBVIOUS
    <2>1. CASE rcv
        <3>1. PICK n \in Nat : got' = got \o [i \in 1 .. n |-> Len(got) + i] /\ Len(got) + n <= InLen
            BY <2>1, RcvReads
        <3>2. CASE told' = told /\ (told \/ n = 0)
            <4>1. got \in Seq(Nat)
                BY DEF Reading
            <4>2. got' = got
                <5>1. CASE told
                    BY <2>1, <5>1, RcvReads
                <5>2. CASE n = 0
                    <6>1. [i \in 1 .. n |-> Len(got) + i] = <<>>
                        BY <5>2
                    <6>2. got \o <<>> = got
                        BY <4>1
                    <6>3. got' = got \o <<>>
                        BY <3>1, <6>1, Zenon
                    <6> QED BY <6>2, <6>3, Zenon
                <5> QED BY <3>2, <5>1, <5>2
            <4> QED BY <3>2, <4>2
        <3>3. CASE told' = told /\ ~told /\ n # 0
            <4>1. n \in 1 .. InLen - Len(got)
                <5>1. Len(got) \in Nat /\ InLen \in Nat
                    BY TcpAssumption DEF Reading
                <5> QED BY <3>1, <3>3, <5>1, SMT
            <4> QED BY <3>1, <3>3, <4>1, Zenon DEF Incoming!Next, Incoming!Read
        <3>4. CASE ~(told' = told)
            BY <2>1, <3>4, RcvReads, Zenon DEF Incoming!Next, Incoming!End
        <3> QED BY <3>2, <3>3, <3>4
    <2>2. CASE connect \/ snd \/ close \/ rtimeo \/ ktimeo \/ ptimeo \/ delayed_ack \/ abort
        <3>1. UNCHANGED <<got, told>>
            BY <2>2, Zenon DEF connect, snd, close, rtimeo, ktimeo, ptimeo, delayed_ack, abort, RunsOut
        <3> QED BY <3>1
    <2>3. CASE (\E s \in toBoard : input(s)) \/ ServerSends \/ \E s \in toServer : ServerReceives(s)
        <3>1. UNCHANGED <<got, told>>
            BY <2>3 DEF input, ServerSends, ToBoard, ServerReceives
        <3> QED BY <3>1
    <2>4. CASE UNCHANGED vars
        BY <2>4 DEF vars
    <2> QED BY <2>1, <2>2, <2>3, <2>4 DEF Next
<1> QED BY <1>1, <1>2, TcpInv, TcpShapes, TcpReading, PTL DEF Spec, IncomingIsStream, Incoming!Spec

(* What recv() gave to the application is at any time the beginning of     *)
(* what the server wrote, and all of it once recv() reported the end.      *)
THEOREM TcpIncomingInOrder == Short /\ Spec /\ [][Quiet]_vars => []Incoming!InOrder
BY TcpIncomingIsStream, IncomingInOrder, PTL
=============================================================================
