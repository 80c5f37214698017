--------------------------------- MODULE Tcp -------------------------------
(***************************************************************************)
(* FNET's TCP (fnet_tcp.c) as a board uses it: a client connection that is *)
(* opened by connect(), works with send() and recv(), and is given up with *)
(* a hard close.  The network loses, duplicates and reorders segments; the *)
(* server is external and does what any TCP may.                           *)
(*                                                                         *)
(* An action is one call into the stack: what the application calls, a     *)
(* segment that arrives, a timer that runs out.  Each holds the stack's    *)
(* lock to its end (see IsrLock).  Times are left open: a timer that is on *)
(* may run out at any moment.                                              *)
(***************************************************************************)
EXTENDS Integers, Sequences, FiniteSets, SequencesExt

CONSTANTS
    SeqSpace,       \* how many sequence numbers there are
    BoardISN,       \* fnet_tcp_isntime at connect(), and
    ServerISN,      \* the server's
    SndMss,         \* tcpcb_sndmss
    RcvMss,         \* tcpcb_rcvmss
    SndMax,         \* count_max of the send buffer
    RcvMax,         \* tcpcb_rcvcountmax
    Header,         \* bytes of a segment's header
    ReadMax,        \* what the application reads with one recv()
    NullLength,     \* total_length of the buffer at address 0
    NoDelay,        \* TCP_NODELAY
    Memory,         \* may allocations fail?  {TRUE}: never
    OutLen,         \* bound: bytes the application sends
    InLen,          \* bytes the server sends
    Closes,         \* and does it send FIN then?
    Windows,        \* windows the server may offer
    Resets,         \* flags of segments with which the server may give up
    Capacity        \* bound: segments under way in a direction

ASSUME TcpAssumption ==
    /\ {SndMss, RcvMss, SndMax, RcvMax, Header, ReadMax} \subseteq Nat \ {0} /\ SeqSpace \in Nat /\ SeqSpace >= 8
    /\ {OutLen, InLen} \subseteq Nat /\ OutLen + 1 < SeqSpace
    /\ {BoardISN, ServerISN} \subseteq 0 .. SeqSpace - 1
    /\ SndMax + RcvMax < SeqSpace \div 8 /\ Memory \subseteq BOOLEAN /\ Closes \in BOOLEAN /\ Windows \subseteq Nat
    /\ Resets \subseteq {{"RST"}, {"RST", "ACK"}} /\ NullLength \in Nat

VARIABLES
    b,              \* the socket and its control block
    toServer,       \* segments on their way to the server
    toBoard,        \* and to the board
    accepted,       \* bytes send() has accepted
    got,            \* bytes recv() has returned
    told,           \* has recv() said that the server closed?
    delivered,      \* bytes the server's TCP has received in order
    knows,          \* has the server seen the board's SYN?
    edge,           \* the last byte, of its own, the server knows a window for
    shut            \* was it told that all of them are there, and no window is left?

server == <<delivered, knows, edge, shut>>
vars   == <<b, toServer, toBoard, accepted, got, told, server>>

Connected(c) == c.state \in {"ESTABLISHED", "CLOSE_WAIT"}
-----------------------------------------------------------------------------
(* Sequence numbers *)

Wrap(x) == x % SeqSpace

hit(first, last, x) == IF last >= first THEN first <= x /\ x <= last ELSE first <= x \/ x <= last
Above(x, y)    == hit(Wrap(y + 1), Wrap(y + SeqSpace \div 8), x)    \* FNET_TCP_COMP_G
NotBelow(x, y) == hit(y, Wrap(y + SeqSpace \div 8), x)              \* FNET_TCP_COMP_GE
getsize(x, y)  == IF x <= y THEN y - x ELSE SeqSpace - x + y

Least(x, y) == IF x < y THEN x ELSE y
Most(x, y)  == IF x < y THEN y ELSE x
Drop(s, n)  == SubSeq(s, n + 1, Len(s))

Flight(c) == getsize(c.rcvack, c.sndseq)        \* bytes sent, not acknowledged
End(s)    == Wrap(s.seq + Len(s.data))
-----------------------------------------------------------------------------
(* Sending.  An operator takes the socket as it is and returns it as the   *)
(* function leaves it; what was sent gathers in the field sent.            *)

On(c, t)  == [c EXCEPT !.timers = @ \cup {t}]
Off(c, t) == [c EXCEPT !.timers = @ \ {t}]

(* slip: the buffer is never over its limit *)
Difference(c) == RcvMax - Len(c.rcvbuf)
FreeRoom(c)   == Most(RcvMax - Len(c.rcvbuf), 0)

(* The window opens by a segment, by half the buffer, or from nothing. *)
getrcvwnd(c) ==
    LET wnd  == FreeRoom(c)
        more == wnd - c.rcvwnd
    IN  IF more <= 0 \/ more >= Least(RcvMss, RcvMax \div 2) \/ c.rcvwnd = 0 THEN wnd ELSE c.rcvwnd

(* slip: the highest number sent forgets what was unsent *)
LastSent(c, next) == next
Farthest(c, next) == IF Above(next, c.maxrcvack) THEN next ELSE c.maxrcvack

(* A segment that occupies n sequence numbers *)
sendseg(c, data, flags, n) ==
    LET next == Wrap(c.sndseq + n)
        wnd  == getrcvwnd(c)
    IN  [Off(c, "delayed_ack") EXCEPT
            !.sent = @ \cup {[seq |-> c.sndseq, data |-> data, flags |-> flags, wnd |-> wnd,
                              ack |-> IF "ACK" \in flags THEN c.sndack ELSE 0]},
            !.rcvwnd = wnd, !.newfree = 0, !.sndseq = next,
            !.maxrcvack = Farthest(c, next)]

sendsyn(c)  == sendseg(c, <<>>, {"SYN"}, 1)
sendack(c)  == sendseg(c, <<>>, {"ACK"}, 0)

(* slip: the copy starts at the first byte of the buffer *)
FromStart(c, n) == SubSeq(c.sndbuf, 1, n)
Unsent(c, n)    == SubSeq(c.sndbuf, Flight(c) + 1, Flight(c) + n)

(* Without memory the numbers are used up all the same. *)
senddataseg(c, size) ==
    LET n == Least(size, Len(c.sndbuf) - Flight(c))
    IN  IF n > 0 /\ ~c.memory
        THEN [c EXCEPT !.rcvwnd = getrcvwnd(c), !.sndseq = Wrap(@ + n)]
        ELSE sendseg(c, Unsent(c, n), {"ACK"}, n)

(* slip: what is under way stays so when the window closes *)
NotShrunk(c) == [c EXCEPT !.flags = @ \ {"SEND_TIMEOUT"}]

(* The server's window has shrunk below what was sent: that is unsent.     *)
Shrunk(c) ==
    [c EXCEPT !.flags = @ \ {"SEND_TIMEOUT"},
              !.sndseq = Wrap(@ - Most(Flight(c) - c.sndwnd, 0))]

(* Whole segments.  A congestion window below what is under way is a large *)
(* one: the difference is unsigned.                                        *)
Room(c) == IF c.cwnd < Flight(c) THEN c.sndwnd - Flight(c)
           ELSE Least(c.sndwnd - Flight(c), ((c.cwnd - Flight(c)) \div SndMss) * SndMss)

Left(c)    == Len(c.sndbuf) - Flight(c)
Allowed(c) == Most(Least(Room(c), Left(c)), 0)
Idle(c)    == NoDelay \/ c.rcvack = c.sndseq

(* What is less than a segment goes, is held back, or waits for an         *)
(* acknowledgment.                                                         *)
Remainder(c, rest, force) ==
    IF rest > 0 /\ (rest > c.maxwnd \div 2 \/ force \/ (Idle(c) /\ rest = Left(c)))
    THEN senddataseg(c, rest)
    ELSE IF rest > 0 /\ Idle(c) THEN [On(c, "persist") EXCEPT !.flags = @ \cup {"SEND_TIMEOUT"}]
    ELSE c

Whole(n, oneexec) == IF oneexec THEN Least(n \div SndMss, 1) ELSE n \div SndMss
Rest(n, oneexec)  == IF oneexec /\ n >= SndMss THEN 0 ELSE n % SndMss

(* The socket after k whole segments *)
Burst(c) == LET burst[k \in Nat] == IF k = 0 THEN c ELSE senddataseg(burst[k - 1], SndMss)
            IN  burst

Timed(before, c) == IF c.sndseq = before.sndseq THEN c ELSE On(Off(c, "persist"), "retransmission")

Sent(c, n, oneexec, force) ==
    Timed(c, Remainder(Burst(c)[Whole(n, oneexec)], Rest(n, oneexec), force))

Filled(c, oneexec, force)       == Sent(c, Allowed(c), oneexec, force)
sendanydata(c, oneexec, force)  == Filled(Shrunk(c), oneexec, force)

(* The control block of a closed socket is never read again; what it       *)
(* received is.                                                            *)
Fresh == [state |-> "IDLE", sndseq |-> 0, rcvack |-> 0, maxrcvack |-> 0, sndack |-> 0,
          sndwnd |-> 0, maxwnd |-> 0, cwnd |-> 0, ssthresh |-> SeqSpace, pcount |-> 0, repeats |-> 0,
          rcvwnd |-> 0, newfree |-> 0, sndbuf |-> <<>>, rcvbuf |-> <<>>, chain |-> <<>>, count |-> 0,
          timers |-> {}, flags |-> {}, sent |-> {}, owes |-> {}, memory |-> TRUE]
closesk(c) == [Fresh EXCEPT !.state = "CLOSED", !.rcvbuf = c.rcvbuf, !.sent = c.sent]

sendrst(c, seq) == [c EXCEPT !.sent = @ \cup {[seq |-> seq, data |-> <<>>, flags |-> {"RST"}, wnd |-> 0, ack |-> 0]}]
abortsk(c)      == closesk(IF Connected(c) THEN sendrst(c, c.rcvack) ELSE c)
-----------------------------------------------------------------------------
(* Receiving *)

total_length(s) == Header + Len(s.data)
Owes(c, how)    == [c EXCEPT !.owes = @ \cup {how}]

finprocessing(c) ==
    IF c.state = "ESTABLISHED" THEN [c EXCEPT !.state = "CLOSE_WAIT", !.flags = @ \cup {"FIN_RCVD"}] ELSE c

(* slip: an overlap is received twice *)
AllOf(s, skip)   == s.data
NewData(s, skip) == Drop(s.data, skip)

(* Put s's data behind what was received: its first skip bytes are there. *)
Take(c, s, skip) ==
    LET fin == "FIN" \in s.flags
        c1  == IF fin THEN Owes(finprocessing(c), "FIN_ACK") ELSE c
    IN  [c1 EXCEPT !.rcvbuf = @ \o NewData(s, skip),
                   !.sndack = Wrap(End(s) + IF fin THEN 1 ELSE 0)]

(* Before the first segment that begins above it, if there is one *)
Higher(chain, s) == {i \in 1 .. Len(chain) : Above(chain[i].seq, s.seq)}
Place(chain, s)  == IF Higher(chain, s) = {} THEN Len(chain) + 1 ELSE Min(Higher(chain, s))
Insert(chain, s) == InsertAt(chain, Place(chain, s), s)

(* The first segment of the temporary buffer, if it is due: it is taken,   *)
(* or deleted when all of it was received.  Deleting it takes the size of  *)
(* the next one off the count, or of what is at address 0.                 *)
FromChain(c) ==
    LET s    == Head(c.chain)
        rest == Tail(c.chain)
    IN  IF c.chain = <<>> \/ ~NotBelow(c.sndack, s.seq) THEN c
        ELSE IF NotBelow(End(s), c.sndack)
        THEN Take([c EXCEPT !.chain = rest, !.count = @ - total_length(s)], s, getsize(s.seq, c.sndack))
        ELSE [c EXCEPT !.chain = rest,
                       !.count = @ - IF rest = <<>> THEN NullLength ELSE total_length(Head(rest))]

(* count is unsigned *)
Fits(c, s) == c.count + total_length(s) \in 0 .. RcvMax

Kept(c, s) == Owes([c EXCEPT !.chain = Insert(@, s), !.count = @ + total_length(s)], "IMMEDIATELY")

Draining(c) == LET draining[k \in Nat] == IF k = 0 THEN c ELSE FromChain(draining[k - 1])
               IN  draining
Drained(c)  == Draining(c)[Len(c.chain)]

addinpbuf(c, s) ==
    LET inorder == s.seq = c.sndack
    IN  IF s.data = <<>> /\ "FIN" \notin s.flags THEN c
        ELSE IF inorder /\ c.count = 0
        THEN Take(IF s.data # <<>> THEN Owes(c, "DELAY") ELSE c, s, 0)
        ELSE IF inorder THEN Drained(Kept(c, s))
        ELSE IF Fits(c, s) THEN Kept(c, s) ELSE c
-----------------------------------------------------------------------------
(* Acknowledgments *)

Halved(c) == Most(Least(c.cwnd, c.sndwnd) \div 2, 2 * SndMss)

(* The third repeated acknowledgment sends the first segment again. *)
FastRetransmit(c) ==
    LET c1 == senddataseg([c EXCEPT !.sndseq = c.rcvack], SndMss)
    IN  Owes([c1 EXCEPT !.sndseq = c.sndseq, !.ssthresh = Halved(c), !.cwnd = Halved(c)], "NO_SENDING")

Repeated(c) ==
    IF c.sndseq = c.rcvack \/ c.sndbuf = <<>> THEN c
    ELSE IF c.repeats = 2 THEN FastRetransmit([c EXCEPT !.repeats = 4])
    ELSE [c EXCEPT !.repeats = Least(@ + 1, 4)]

(* Slow start up to the threshold, then congestion avoidance *)
Opened(c, size) ==
    LET over   == c.cwnd + size - c.ssthresh
        c1     == IF c.cwnd > c.ssthresh THEN [c EXCEPT !.pcount = @ + size]
                  ELSE IF over > 0 THEN [c EXCEPT !.pcount = @ + over, !.cwnd = c.ssthresh]
                  ELSE [c EXCEPT !.cwnd = @ + size]
    IN  IF c1.pcount >= c1.cwnd THEN [c1 EXCEPT !.pcount = @ - c1.cwnd, !.cwnd = @ + SndMss] ELSE c1

Acknowledged(c, ack) ==
    LET size == Least(getsize(c.rcvack, ack), Len(c.sndbuf))
    IN  [Opened(c, size) EXCEPT !.sndbuf = Drop(@, size), !.rcvack = ack, !.repeats = 0,
                                !.sndseq = IF Above(ack, @) THEN ack ELSE @]

(* slip: a closed window does not start the persist timer *)
OnlyHeldBack(c) == IF "SEND_TIMEOUT" \in c.flags THEN c ELSE Off(c, "persist")
Persisting(c) ==
    IF c.sndwnd = 0 /\ c.sndbuf # <<>> THEN On(c, "persist")
    ELSE IF "SEND_TIMEOUT" \in c.flags THEN c ELSE Off(c, "persist")

Acked(c, s) == IF c.rcvack = s.ack THEN Repeated(c) ELSE Acknowledged(c, s.ack)

(* After a FIN nothing more is received. *)
Received(c, s) ==
    IF "FIN_RCVD" \notin c.flags THEN addinpbuf(c, s)
    ELSE IF s.data # <<>> THEN Owes(c, "IMMEDIATELY") ELSE c

AckedAtOnce(c, push) == IF "FIN_ACK" \in c.owes \/ push THEN sendack(c) ELSE c

(* New data carries the acknowledgment. *)
Carrying(before, c) == IF c.sndseq # before.sndseq THEN Owes(c, "NO_SENDING") ELSE c
MoreSent(c)         == Carrying(Shrunk(c), sendanydata(c, "INSND" \in c.flags, FALSE))

Retransmitting(c) == IF c.rcvack # c.sndseq THEN On(c, "retransmission") ELSE Off(c, "retransmission")

Answered(c) ==
    IF c.owes \cap {"NO_SENDING", "FIN_ACK"} # {} THEN c
    ELSE IF "IMMEDIATELY" \in c.owes THEN sendack(c)
    ELSE IF "DELAY" \in c.owes THEN On(c, "delayed_ack")
    ELSE c

(* push: the flags are read after the header was cut off.  What is taken   *)
(* for PSH is then a bit of the data, or of whatever the buffer became.    *)
dataprocess(c, s, push) ==
    LET acked    == Acked(Off(On(c, "keepalive"), "abort"), s)
        received == AckedAtOnce(Received(acked, s), push)
    IN  Answered(Retransmitting(Persisting(MoreSent(received))))

(* slip: the number is moved to the window, the data is not cut *)
Moved(c, s)    == [s EXCEPT !.seq = c.sndack]
(* What of s lies in the window: its data, cut on both sides *)
CutLeft(c, s)  == [s EXCEPT !.seq = c.sndack, !.data = Drop(@, getsize(s.seq, c.sndack))]
RightEdge(c)   == Wrap(c.sndack + c.rcvwnd)
CutRight(c, s) == [s EXCEPT !.data = SubSeq(@, 1, Len(@) - getsize(RightEdge(c), End(s)))]

SetWindow(c, s) == [c EXCEPT !.sndwnd = s.wnd, !.maxwnd = Most(@, s.wnd)]

(* A segment in a state other than SYN_SENT, its sequence number checked *)
Checked(c, s, push) ==
    IF "RST" \in s.flags THEN IF "ACK" \in s.flags THEN c ELSE closesk(c)
    ELSE IF "SYN" \in s.flags THEN closesk(sendrst(c, s.ack))
    ELSE IF "ACK" \notin s.flags THEN c
    ELSE IF hit(c.rcvack, c.maxrcvack, s.ack) THEN dataprocess(SetWindow(c, s), s, push)
    ELSE IF Above(s.ack, c.maxrcvack) THEN sendack(c) ELSE c

InWindow(c, s, push) ==
    LET beyond == Above(End(s), RightEdge(c))
    IN  IF Above(s.seq, RightEdge(c)) THEN sendack(c)
        ELSE Checked(IF beyond THEN Owes(c, "IMMEDIATELY") ELSE c, IF beyond THEN CutRight(c, s) ELSE s, push)

Answering(c, s) ==
    [SetWindow(c, s) EXCEPT !.sndack = Wrap(s.seq + 1), !.rcvack = s.ack, !.cwnd = SndMss,
                            !.timers = (@ \ {"retransmission", "connection"}) \cup {"keepalive"}]

Opening(c, s) ==
    IF {"RST", "ACK"} \subseteq s.flags THEN closesk(c)
    ELSE IF {"SYN", "ACK"} \subseteq s.flags /\ s.ack = c.sndseq
    THEN [sendack(Answering(c, s)) EXCEPT !.state = "ESTABLISHED"]
    ELSE c

inputsk(c, s, push) ==
    LET old == Above(c.sndack, s.seq)
    IN  IF c.state = "SYN_SENT" THEN Opening(c, s)
        ELSE IF old /\ ~Above(End(s), c.sndack) THEN sendack(c)
        ELSE InWindow(IF old THEN Owes(c, "IMMEDIATELY") ELSE c, IF old THEN CutLeft(c, s) ELSE s, push)
-----------------------------------------------------------------------------
(* The application's calls *)

Segments == UNION {[seq : 0 .. SeqSpace - 1, ack : 0 .. SeqSpace - 1, wnd : Nat, data : Seq(0 .. n),
                    flags : SUBSET {"SYN", "ACK", "FIN", "RST"}] : n \in {Most(OutLen, InLen)}}

TypeOK ==
    /\ b.state \in {"IDLE", "SYN_SENT", "ESTABLISHED", "CLOSE_WAIT", "CLOSED"}
    /\ {b.sndseq, b.rcvack, b.maxrcvack, b.sndack} \subseteq 0 .. SeqSpace - 1
    /\ {b.sndwnd, b.maxwnd, b.cwnd, b.ssthresh, b.pcount, b.rcvwnd, b.newfree} \subseteq Nat
    /\ b.repeats \in 0 .. 4 /\ b.count \in Int
    /\ b.sndbuf \in Seq(1 .. OutLen) /\ Len(b.sndbuf) <= SndMax /\ b.rcvbuf \in Seq(1 .. InLen)
    /\ b.timers \subseteq {"abort", "keepalive", "connection", "retransmission", "persist", "delayed_ack"}
    /\ b.flags \subseteq {"FIN_RCVD", "SEND_TIMEOUT", "INSND"}
    /\ toServer \cup toBoard \subseteq Segments
    /\ accepted \in 0 .. OutLen /\ told \in BOOLEAN /\ {knows, shut} \subseteq BOOLEAN /\ edge \in Nat

Init ==
    /\ b = Fresh
    /\ toServer = {} /\ toBoard = {} /\ accepted = 0 /\ got = <<>> /\ told = FALSE
    /\ delivered = <<>> /\ knows = FALSE /\ edge = 0 /\ shut = FALSE

(* A segment under way may arrive any number of times, or never, until     *)
(* later ones take its place: so it is lost, doubled, or overtaken.        *)
Carried(net, new) ==
    {s \in SUBSET (net \cup new) : /\ new \subseteq s
                                  /\ Cardinality(s) = Most(Least(Capacity, Cardinality(net \cup new)), Cardinality(new))}

Leaves(c) ==
    /\ b' = [c EXCEPT !.sent = {}, !.owes = {}, !.memory = TRUE]
    /\ toServer' \in Carried(toServer, c.sent)

connect ==
    /\ b.state = "IDLE"
    /\ LET c == [b EXCEPT !.sndseq = BoardISN, !.maxrcvack = Wrap(BoardISN + 1),
                          !.timers = {"retransmission", "connection"}]
       IN  Leaves([sendsyn(c) EXCEPT !.state = "SYN_SENT"])
    /\ UNCHANGED <<toBoard, accepted, got, told, server>>

(* send()'s loop: a segment at a time, as long as one goes; after SndMax    *)
(* times none does.                                                        *)
Pushed(c) == LET pushed[k \in Nat] == IF k = 0 THEN c ELSE sendanydata(pushed[k - 1], TRUE, FALSE)
             IN  pushed

(* send() of n bytes: as many are accepted as there is room for.  With a   *)
(* closed window, or without memory, INSND is left set.                    *)
snd ==
    /\ Connected(b)
    /\ \E n \in 1 .. OutLen - accepted, memory \in Memory :
        LET m == IF memory THEN Least(n, SndMax - Len(b.sndbuf)) ELSE 0
            c == [b EXCEPT !.sndbuf = @ \o [i \in 1 .. m |-> accepted + i], !.flags = @ \cup {"INSND"}]
        IN  /\ accepted' = accepted + m
            /\ \/ SndMax = Len(b.sndbuf) /\ UNCHANGED <<b, toServer>>
               \/ SndMax # Len(b.sndbuf) /\ m = 0 /\ b' = c /\ UNCHANGED toServer
               \/ m > 0 /\ c.sndwnd = 0 /\ Leaves(On(c, "persist"))
               \/ /\ m > 0 /\ c.sndwnd > 0
                  /\ \E sends \in Memory :
                         Leaves([Pushed([c EXCEPT !.memory = sends])[SndMax] EXCEPT !.flags = @ \ {"INSND"}])
    /\ UNCHANGED <<toBoard, got, told, server>>

(* slip: two segments of room, whatever the buffer holds *)
TwoSegments(c) == c.newfree >= 2 * RcvMss
Announces(c)   == c.newfree >= Least(2 * RcvMss, RcvMax \div 2) \/ (c.rcvwnd = 0 /\ c.newfree > 0)

(* recv(): the window is announced again once enough of it is free. *)
rcv ==
    /\ b.state \notin {"IDLE", "SYN_SENT"}
    /\ LET n == Least(ReadMax, Len(b.rcvbuf))
           c == [b EXCEPT !.rcvbuf = Drop(@, n), !.newfree = @ + n]
       IN  /\ got' = got \o SubSeq(b.rcvbuf, 1, n)
           /\ told' = (told \/ (n = 0 /\ Connected(b) /\ "FIN_RCVD" \in b.flags))
           /\ Leaves(IF Connected(b) /\ Announces(c) THEN sendack(c) ELSE c)
    /\ UNCHANGED <<toBoard, accepted, server>>

(* netprot_goodbye(): SO_LINGER is 0, so that close() resets the connection. *)
close ==
    /\ b.state \notin {"IDLE", "CLOSED"}
    /\ Leaves([abortsk(b) EXCEPT !.rcvbuf = <<>>])
    /\ UNCHANGED <<toBoard, accepted, got, told, server>>
-----------------------------------------------------------------------------
(* Timers (fnet_tcp_slowtimosk, fnet_tcp_fasttimosk) *)

RunsOut(t) ==
    /\ t \in b.timers /\ b.state # "CLOSED"
    /\ UNCHANGED <<toBoard, accepted, got, told, server>>

rtimeo ==
    /\ RunsOut("retransmission")
    /\ \E memory \in Memory :
        IF b.state = "SYN_SENT" THEN Leaves(sendsyn([b EXCEPT !.sndseq = Wrap(@ - 1)]))
        ELSE LET c == [On(Off(b, "retransmission"), "abort") EXCEPT
                          !.sndseq = b.rcvack, !.ssthresh = Halved(b), !.cwnd = SndMss, !.memory = memory]
             IN  Leaves(On(sendanydata(c, FALSE, TRUE), "retransmission"))

(* A byte before the first one that is not acknowledged.  Nothing of the   *)
(* control block changes but the timers; without memory the timer is off.  *)
ktimeo ==
    /\ RunsOut("keepalive")
    /\ \E memory \in Memory :
        IF memory THEN Leaves([On(b, "abort") EXCEPT !.sent =
            {[seq |-> Wrap(b.rcvack - 1), data |-> <<0>>, flags |-> {"ACK"}, wnd |-> getrcvwnd(b), ack |-> b.sndack]}])
        ELSE Leaves(Off(b, "keepalive"))

(* A closed window is probed with one byte; else what was held back goes.  *)
ptimeo ==
    /\ RunsOut("persist")
    /\ \E memory \in Memory :
        LET c == [Off(b, "persist") EXCEPT !.memory = memory]
            p == senddataseg(c, 1)
        IN  Leaves(IF b.sndwnd = 0
                   THEN On(On([p EXCEPT !.sndseq = Wrap(@ - 1)], "persist"), "abort")
                   ELSE sendanydata(c, FALSE, TRUE))

delayed_ack == RunsOut("delayed_ack") /\ Leaves(sendack(b))

abort ==
    /\ RunsOut("abort") \/ RunsOut("connection")
    /\ Leaves(closesk(b))
-----------------------------------------------------------------------------
(* The network and the server *)

input(s) ==
    /\ s \in toBoard /\ b.state \notin {"IDLE", "CLOSED"}
    /\ \E memory \in Memory, push \in BOOLEAN :
        /\ push => s.data # <<>> \/ "FIN" \in s.flags
        /\ Leaves(inputsk([b EXCEPT !.memory = memory], s, push))
    /\ UNCHANGED <<toBoard, accepted, got, told, server>>

Reply(seq, data, flags, wnd) ==
    [seq |-> Wrap(ServerISN + seq), data |-> data, flags |-> flags, wnd |-> wnd,
     ack |-> Wrap(BoardISN + 1 + Len(delivered))]

(* The server's TCP takes what continues what it has, beginning at any     *)
(* byte, and learns of a window.                                           *)
Extended(s) ==
    LET have == getsize(s.seq, Wrap(BoardISN + 1 + Len(delivered)))
    IN  IF have < Len(s.data) THEN delivered \o Drop(s.data, have) ELSE delivered

Offered(s) == getsize(ServerISN, Wrap(s.ack + s.wnd)) - 1

ServerReceives(s) ==
    /\ s \in toServer
    /\ \/ "SYN" \in s.flags /\ knows' = TRUE /\ UNCHANGED <<delivered, edge, shut>>
       \/ "RST" \in s.flags /\ UNCHANGED server
       \/ /\ s.flags = {"ACK"}
          /\ delivered' = Extended(s) /\ edge' = Most(edge, Offered(s))
          /\ shut' = IF Offered(s) = edge' /\ s.wnd = 0 THEN TRUE ELSE shut /\ edge' = edge
          /\ UNCHANGED knows
    /\ UNCHANGED <<b, toServer, toBoard, accepted, got, told>>

ToBoard(s) ==
    /\ b.state # "CLOSED"
    /\ toBoard' \in Carried(toBoard, {s})
    /\ UNCHANGED <<b, toServer, accepted, got, told, server>>

(* Any piece of its bytes 1 .. InLen that its window allows, in any order, *)
(* cut in any way, FIN with the last or alone; one byte that probes a      *)
(* closed window. No byte: an acknowledgment.                              *)
ServerSends ==
    /\ knows
    /\ \E wnd \in Windows :
        \/ ToBoard(Reply(0, <<>>, {"SYN", "ACK"}, wnd))
        \/ edge > 0 /\ \E i \in 0 .. Least(InLen, edge) : \E j \in i .. Least(InLen, edge) :
               \E flags \in {{"ACK"}} \cup IF Closes /\ j = InLen THEN {{"ACK", "FIN"}} ELSE {} :
                   ToBoard(Reply(i + 1, [k \in 1 .. j - i |-> i + k], flags, wnd))
        \/ shut /\ edge < InLen /\ ToBoard(Reply(edge + 1, <<edge + 1>>, {"ACK"}, wnd))
        \/ Closes /\ edge > InLen /\ ToBoard(Reply(InLen + 2, <<>>, {"ACK"}, wnd))
        \/ \E flags \in Resets, i \in 0 .. Least(InLen, edge) : ToBoard(Reply(i + 1, <<>>, flags, 0))

Next ==
    \/ connect \/ snd \/ rcv \/ close
    \/ rtimeo \/ ktimeo \/ ptimeo \/ delayed_ack \/ abort
    \/ \E s \in toBoard : input(s)
    \/ ServerSends \/ \E s \in toServer : ServerReceives(s)

Spec == Init /\ [][Next]_vars
-----------------------------------------------------------------------------
(* Properties *)

Outgoing == INSTANCE Stream WITH written <- accepted, read <- delivered, ended <- FALSE
Incoming == INSTANCE Stream WITH written <- InLen, read <- got, ended <- told

ServerAck == Wrap(BoardISN + 1 + Len(delivered))

(* What send() accepted reaches the server's TCP in order, each byte once, *)
(* whatever is lost, doubled or late, and whatever the windows do.         *)
OutgoingIsStream == Outgoing!Spec

(* recv() returns the server's bytes in order, each once, and says that    *)
(* the server closed only after the last of them.                          *)
IncomingIsStream == Incoming!Spec

(* Data that was not acknowledged keeps a timer running: without one it    *)
(* would wait for ever for a server that says nothing.                     *)
NeverStuck == Connected(b) /\ b.sndbuf # <<>> => b.timers \cap {"retransmission", "persist"} # {}

(* What the server has is between what it acknowledged and the last byte   *)
(* ever sent: else all its segments would be dropped from now on.          *)
AcksAreAcceptable == Connected(b) => hit(b.rcvack, b.maxrcvack, ServerAck)

(* Never more under way than the window the server offered last, also when *)
(* it took some of it back, nor than the send buffer holds.                *)
WindowRespected == Connected(b) => Flight(b) <= b.sndwnd /\ Flight(b) <= Len(b.sndbuf)

(* Every byte the board acknowledged was given to the application, or will *)
(* be by its next recv(), also when it came out of order or in pieces.     *)
AcknowledgedIsThere ==
    Connected(b) => getsize(Wrap(ServerISN + 1), b.sndack)
                        = Len(got) + Len(b.rcvbuf) + IF "FIN_RCVD" \in b.flags THEN 1 ELSE 0

(* An application that has read everything leaves the server a window.     *)
WindowReopens == Connected(b) /\ b.rcvbuf = <<>> => b.rcvwnd > 0
=============================================================================
