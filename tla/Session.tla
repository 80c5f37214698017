------------------------------ MODULE Session ------------------------------
(***************************************************************************)
(* The main loop of a board (main.c) and the life of its connection to a   *)
(* server (netprot.c, bcast.c), over the part of FNET's socket layer they  *)
(* use: the descriptor table, the state of a TCP socket and the receive    *)
(* queue of the UDP socket that listens for broadcasts.                    *)
(*                                                                         *)
(* Main runs one call into the stack per step.  What the Ethernet and      *)
(* timer interrupts do to the sockets comes between any two of them.       *)
(* Trigger, sampling and packets are in module Capture: here a packet is   *)
(* waiting or not, and a command line is one that gets a reply.            *)
(***************************************************************************)
EXTENDS Integers, Sequences

CONSTANTS
    Servers,        \* servers on the network
    NoServer,
    Junk,           \* datagrams of 1 to 100 bytes that name no server
    Big,            \* datagrams that end bcast_flush: larger than its buffer, or empty
    MaxSock,        \* FNET_CFG_SOCKET_MAX
    Garbage,        \* what the uninitialized server_s of main can hold
    CaptureSupport, \* CONFIG_CAPTURE_SUPPORT
    MaxQueue,       \* bound: datagrams the listener's receive buffer can hold
    MaxRx,          \* bound: recv()s of 100 bytes the server's data can fill
    MaxReplies      \* bound: command lines one of them can hold

Desc   == 0 .. MaxSock - 1
DhcpS  == 0     \* fnet_dhcp_init made the first socket,
BcastS == 1     \* bcast_setup_listener the second
Invalid == -1   \* SOCKET_INVALID

ASSUME SessionAssumption ==
    /\ NoServer \notin Servers
    /\ Junk \cap Servers = {} /\ Big \cap Servers = {} /\ Junk \cap Big = {}
    /\ MaxSock \in Nat /\ MaxSock > 2
    /\ Garbage \subseteq Int
    /\ CaptureSupport \in BOOLEAN
    /\ MaxQueue \in Nat /\ MaxRx \in Nat /\ MaxReplies \in Nat

VARIABLES
    sock,        \* fnet_socket_desc: the socket of every descriptor
    lingering,   \* TCP sockets closed with a FIN, that outlived their descriptor
    queue,       \* receive buffer of the broadcast listener
    pc,          \* where main is
    server_s, connected, disconnect,    \* locals of main
    target,      \* server_sockaddr of netprot_connect: the broadcast acted on
    caller,      \* who called netprot_goodbye: netprot_hello or main
    replies      \* replies netprot_get_commands has yet to send

netVars  == <<sock, lingering, queue>>
mainVars == <<pc, server_s, connected, disconnect, target, caller, replies>>
vars == <<netVars, mainVars>>

Datagrams == Servers \cup Junk \cup Big
Kinds  == {"free", "dhcp", "bcast", "tcp"}
States == {"unconnected", "connecting", "connected"}

Socket(k) == [kind |-> k, state |-> "unconnected", linger |-> FALSE,
              fin |-> FALSE, rx |-> 0]

\* fnet_socket_desc_find
Valid(d) == d \in Desc /\ sock[d].kind # "free"
IsConnected(d) == Valid(d) /\ sock[d].state = "connected"

\* Where the steps of netprot_hello and of main's disconnection are.
HelloPCs == {"socket", "connect", "wait", "hello"}
ByePCs   == {"flush", "stop"}
Goodbye  == {"linger", "close"}
PCs == HelloPCs \cup ByePCs \cup Goodbye
       \cup {"idle", "services", "check", "capture", "cmds", "reply"}

Init ==
    /\ sock = [d \in Desc |-> IF d = DhcpS THEN Socket("dhcp")
                              ELSE IF d = BcastS THEN Socket("bcast")
                              ELSE Socket("free")]
    /\ lingering = 0
    /\ queue = <<>>
    /\ pc = "idle"
    /\ server_s \in Garbage
    /\ connected = FALSE /\ disconnect = FALSE
    /\ target = [from |-> NoServer, old |-> FALSE]
    /\ caller = "hello"
    /\ replies = 0

-----------------------------------------------------------------------------
(* The interrupts: UDP and TCP input, TCP timers *)

\* a datagram for the listener's port; `old` marks it once a disconnection follows,
\* until the flush ends without it
Broadcast(m) ==
    /\ sock[BcastS].kind = "bcast"
    /\ Len(queue) < MaxQueue
    /\ queue' = Append(queue, [from |-> m, old |-> FALSE])
    /\ UNCHANGED <<sock, lingering, mainVars>>

TcpEvent(d, s) ==
    /\ sock' = [sock EXCEPT ![d] = s]
    /\ UNCHANGED <<lingering, queue, mainVars>>

\* the server answers the SYN
Established(d) ==
    /\ sock[d].kind = "tcp" /\ sock[d].state = "connecting"
    /\ TcpEvent(d, [sock[d] EXCEPT !.state = "connected"])

\* fnet_tcp_closesk by a reset, a refusal or a timer: received data stays
Dropped(d) ==
    /\ sock[d].kind = "tcp" /\ sock[d].state # "unconnected"
    /\ TcpEvent(d, [sock[d] EXCEPT !.state = "unconnected"])

FinReceived(d) ==
    /\ sock[d].kind = "tcp" /\ IsConnected(d)
    /\ TcpEvent(d, [sock[d] EXCEPT !.fin = TRUE])

DataReceived(d) ==
    /\ sock[d].kind = "tcp" /\ IsConnected(d) /\ ~sock[d].fin
    /\ sock[d].rx < MaxRx
    /\ TcpEvent(d, [sock[d] EXCEPT !.rx = @ + 1])

-----------------------------------------------------------------------------
(* netprot_connect *)

Idle == pc = "idle" /\ sock[BcastS].kind = "bcast"

\* bcast_check_broadcast: nothing received
NoBroadcast ==
    /\ Idle /\ queue = <<>>
    /\ pc' = "services"
    /\ UNCHANGED <<netVars, server_s, connected, disconnect, target, caller, replies>>

\* too large for its buffer, empty, or bcast_parse_broadcast found no server in it
BadBroadcast ==
    /\ Idle /\ queue # <<>> /\ Head(queue).from \notin Servers
    /\ queue' = Tail(queue)
    /\ pc' = "services"
    /\ UNCHANGED <<sock, lingering, server_s, connected, disconnect, target,
                   caller, replies>>

\* a server: netprot_hello, which begins with netprot_goodbye
GoodBroadcast ==
    /\ Idle /\ queue # <<>> /\ Head(queue).from \in Servers
    /\ target' = Head(queue)
    /\ queue' = Tail(queue)
    /\ pc' = "linger" /\ caller' = "hello"
    /\ UNCHANGED <<sock, lingering, server_s, connected, disconnect, replies>>

\* the listener is gone: recv() fails, or reads what was sent to a TCP socket
ListenerLost ==
    /\ pc = "idle" /\ sock[BcastS].kind # "bcast"
    /\ sock' = [sock EXCEPT ![BcastS].rx = 0]
    /\ pc' = "services"
    /\ UNCHANGED <<lingering, queue, server_s, connected, disconnect, target,
                   caller, replies>>

AfterGoodbye == IF caller = "hello" THEN "socket" ELSE "flush"

\* linger flag and time after netprot_goodbye set them
GracefulClose(s) == s    \* slip: SO_LINGER not set
HardClose(s) == [s EXCEPT !.linger = TRUE]

SetLinger ==
    /\ pc = "linger"
    /\ IF Valid(server_s)
       THEN /\ sock' = [sock EXCEPT ![server_s] = HardClose(sock[server_s])]
            /\ pc' = "close"
       ELSE /\ UNCHANGED sock
            /\ pc' = AfterGoodbye
    /\ UNCHANGED <<lingering, queue, server_s, connected, disconnect, target,
                   caller, replies>>

\* fnet_tcp_close sends a FIN and keeps the socket, where it does not reset
Lingers(s) == s.kind = "tcp" /\ s.state = "connected" /\ ~s.linger

\* closesocket: frees the descriptor, and what the socket has received
CloseSocket ==
    /\ pc = "close"
    /\ sock' = [sock EXCEPT ![server_s] = Socket("free")]
    /\ lingering' = IF Lingers(sock[server_s]) THEN lingering + 1 ELSE lingering
    /\ queue' = IF sock[server_s].kind = "bcast" THEN <<>> ELSE queue
    /\ pc' = AfterGoodbye
    /\ UNCHANGED <<server_s, connected, disconnect, target, caller, replies>>

\* socket(): fnet_socket_desc_alloc takes the lowest free descriptor
OpenSocket(d) ==
    /\ pc = "socket"
    /\ ~Valid(d) /\ \A e \in Desc : e < d => Valid(e)
    /\ sock' = [sock EXCEPT ![d] = Socket("tcp")]
    /\ server_s' = d
    /\ pc' = "connect"
    /\ UNCHANGED <<lingering, queue, connected, disconnect, target, caller, replies>>

\* no descriptor, or no memory for the socket or its control block
OpenFails ==
    /\ pc = "socket"
    /\ server_s' = Invalid
    /\ pc' = "connect"
    /\ UNCHANGED <<netVars, connected, disconnect, target, caller, replies>>

ConnectStart ==
    /\ pc = "connect" /\ Valid(server_s)
    /\ sock' = [sock EXCEPT ![server_s].state = "connecting"]
    /\ pc' = "wait"
    /\ UNCHANGED <<lingering, queue, server_s, connected, disconnect, target,
                   caller, replies>>

\* bad descriptor, no route, an address TCP refuses, or no memory for the SYN
ConnectFails ==
    /\ pc = "connect"
    /\ pc' = "services"
    /\ UNCHANGED <<netVars, server_s, connected, disconnect, target, caller, replies>>

\* the poll of SO_STATE sees the connection
WaitConnected ==
    /\ pc = "wait" /\ IsConnected(server_s)
    /\ pc' = "hello"
    /\ UNCHANGED <<netVars, server_s, connected, disconnect, target, caller, replies>>

\* CONFIG_TIMEOUT is over; the socket is left as it is
NoTimeout == FALSE    \* slip: the interval is never compared
TimedOut == TRUE
HelloTimeout ==
    /\ pc = "wait" /\ ~IsConnected(server_s) /\ TimedOut
    /\ pc' = "services"
    /\ UNCHANGED <<netVars, server_s, connected, disconnect, target, caller, replies>>

\* send() of the HELLO accepts it, a part of it or nothing: main sees no difference
SendHello ==
    /\ pc = "hello" /\ IsConnected(server_s)
    /\ connected' = TRUE
    /\ pc' = "services"
    /\ UNCHANGED <<netVars, server_s, disconnect, target, caller, replies>>

SendHelloFails ==
    /\ pc = "hello" /\ ~IsConnected(server_s)
    /\ pc' = "services"
    /\ UNCHANGED <<netVars, server_s, connected, disconnect, target, caller, replies>>

\* fnet_poll_services: DHCP reads its descriptor, and that may be a server's by now
PollServices ==
    /\ pc = "services"
    /\ \E r \in 0 .. sock[DhcpS].rx : sock' = [sock EXCEPT ![DhcpS].rx = r]
    /\ pc' = IF connected THEN "check" ELSE "idle"
    /\ UNCHANGED <<lingering, queue, server_s, connected, disconnect, target, caller,
                   replies>>

-----------------------------------------------------------------------------
(* The connected branch of the main loop *)

\* main marks the connection as lost and goes round
Lost == disconnect' = TRUE /\ pc' = "check"

KeepRunning ==
    /\ pc = "check" /\ ~disconnect
    /\ pc' = IF CaptureSupport THEN "capture" ELSE "cmds"
    /\ UNCHANGED <<netVars, server_s, connected, disconnect, target, caller, replies>>

\* disconnect after main has acted on it
StillSet == disconnect    \* slip: disconnect = 0 forgotten
Acknowledged == FALSE

Disconnect ==
    /\ pc = "check" /\ disconnect
    /\ disconnect' = Acknowledged
    /\ pc' = "linger" /\ caller' = "main"
    /\ queue' = [i \in DOMAIN queue |-> [queue[i] EXCEPT !.old = TRUE]]
    /\ UNCHANGED <<sock, lingering, server_s, connected, target, replies>>

\* netprot_send_capture: no buffer is full
NoCapture ==
    /\ pc = "capture"
    /\ pc' = "cmds"
    /\ UNCHANGED <<netVars, server_s, connected, disconnect, target, caller, replies>>

\* a packet goes out, in as many send()s as it takes: no commands this time
SendCapture ==
    /\ pc = "capture" /\ IsConnected(server_s)
    /\ pc' = "check"
    /\ UNCHANGED <<netVars, server_s, connected, disconnect, target, caller, replies>>

SendCaptureFails ==
    /\ pc = "capture" /\ ~IsConnected(server_s)
    /\ Lost
    /\ UNCHANGED <<netVars, server_s, connected, target, caller, replies>>

AlwaysData == Valid(server_s)    \* slip: recvcount >= 0
HasData == Valid(server_s) /\ sock[server_s].rx > 0

\* recv() in netprot_get_commands: k lines in what it read
ReceiveCommands(k) ==
    /\ pc = "cmds" /\ HasData
    /\ sock' = [sock EXCEPT ![server_s].rx = @ - 1]
    /\ replies' = k
    /\ pc' = "reply"
    /\ UNCHANGED <<lingering, queue, server_s, connected, disconnect, target, caller>>

\* with nothing received recv() fails when the connection is gone or was closed
HalfClosed == FALSE    \* slip: the FIN is not looked at
PeerClosed == sock[server_s].fin
OnlyClosed == Valid(server_s) /\ PeerClosed    \* slip: a reset is not looked at
Gone == ~IsConnected(server_s) \/ PeerClosed

NoCommands ==
    /\ pc = "cmds" /\ ~HasData /\ ~Gone
    /\ pc' = "check"
    /\ UNCHANGED <<netVars, server_s, connected, disconnect, target, caller, replies>>

ReceiveFails ==
    /\ pc = "cmds" /\ ~HasData /\ Gone
    /\ Lost
    /\ UNCHANGED <<netVars, server_s, connected, target, caller, replies>>

SendReply ==
    /\ pc = "reply" /\ replies > 0 /\ IsConnected(server_s)
    /\ replies' = replies - 1
    /\ UNCHANGED <<netVars, pc, server_s, connected, disconnect, target, caller>>

RepliesSent ==
    /\ pc = "reply" /\ replies = 0
    /\ pc' = "check"
    /\ UNCHANGED <<netVars, server_s, connected, disconnect, target, caller, replies>>

\* the command lines after this one are not processed
SendReplyFails ==
    /\ pc = "reply" /\ replies > 0 /\ ~IsConnected(server_s)
    /\ Lost
    /\ replies' = 0
    /\ UNCHANGED <<netVars, server_s, connected, target, caller>>

-----------------------------------------------------------------------------
(* The rest of the disconnection: bcast_flush, and back to listening *)

\* recv() returned at least a byte of a datagram that fits the buffer: read the next one
NotFlushed(m) == FALSE    \* slip: one recv() instead of a loop
FlushGoesOn(m) == m \notin Big

Listening == sock[BcastS].kind = "bcast" /\ queue # <<>>

\* the queue without its first datagram; what is behind one that ends the flush is
\* taken for heard again, as the board cannot tell
Rest ==
    IF Head(queue).from \in Big
    THEN [i \in 1 .. Len(queue) - 1 |-> [queue[i + 1] EXCEPT !.old = FALSE]]
    ELSE Tail(queue)

Flush ==
    /\ pc = "flush" /\ Listening
    /\ queue' = Rest
    /\ pc' = IF FlushGoesOn(Head(queue).from) THEN "flush" ELSE "stop"
    /\ UNCHANGED <<sock, lingering, server_s, connected, disconnect, target,
                   caller, replies>>

FlushDone ==
    /\ pc = "flush" /\ ~Listening
    /\ pc' = "stop"
    /\ UNCHANGED <<netVars, server_s, connected, disconnect, target, caller, replies>>

\* trigger_isr_stop, capture_set_empty, connected = 0
Stop ==
    /\ pc = "stop"
    /\ connected' = FALSE
    /\ pc' = "idle"
    /\ UNCHANGED <<netVars, server_s, disconnect, target, caller, replies>>

-----------------------------------------------------------------------------
Hello ==
    \/ NoBroadcast \/ BadBroadcast \/ GoodBroadcast \/ ListenerLost
    \/ SetLinger \/ CloseSocket
    \/ \E d \in Desc : OpenSocket(d)
    \/ OpenFails \/ ConnectStart \/ ConnectFails
    \/ WaitConnected \/ HelloTimeout \/ SendHello \/ SendHelloFails
    \/ PollServices

Connection ==
    \/ KeepRunning \/ Disconnect
    \/ NoCapture \/ SendCapture \/ SendCaptureFails
    \/ \E k \in 0 .. MaxReplies : ReceiveCommands(k)
    \/ NoCommands \/ ReceiveFails
    \/ SendReply \/ RepliesSent \/ SendReplyFails
    \/ Flush \/ FlushDone \/ Stop

Main == Hello \/ Connection

Interrupts ==
    \/ \E m \in Datagrams : Broadcast(m)
    \/ \E d \in Desc : Established(d) \/ Dropped(d) \/ FinReceived(d) \/ DataReceived(d)

Next == Main \/ Interrupts

Spec == Init /\ [][Next]_vars

\* Nothing else runs on the board's one thread, and the hello timer runs out.
FairSpec == Spec /\ WF_vars(Main)

-----------------------------------------------------------------------------
(* Properties *)

SocketType == [kind : Kinds, state : States, linger : BOOLEAN, fin : BOOLEAN, rx : Nat]
HeardType  == [from : Datagrams \cup {NoServer}, old : BOOLEAN]

TypeOK ==
    /\ sock \in [Desc -> SocketType]
    /\ lingering \in Nat
    /\ queue \in Seq(HeardType)
    /\ pc \in PCs
    /\ server_s \in Int
    /\ connected \in BOOLEAN /\ disconnect \in BOOLEAN
    /\ target \in HeardType
    /\ caller \in {"hello", "main"}
    /\ replies \in Nat

InHello   == caller = "hello" /\ pc \in Goodbye \cup HelloPCs
Leaving   == caller = "main" /\ pc \in Goodbye \cup ByePCs
InSession == connected /\ ~Leaving

\* However often servers come, go, or fail to answer in time, one TCP socket at
\* most exists: the next hello resets the one a failed hello left open, a close
\* leaves nothing behind that would use up the heap or the descriptors.
OneTcpSocket ==
    /\ lingering = 0
    /\ \A d \in Desc : sock[d].kind = "tcp" => d = server_s /\ pc # "socket"

\* A connection is given up only when it is over: an error seen on one connection
\* is not acted on in the next.
NeverDropsLiveConnection ==
    disconnect \/ (Leaving /\ pc = "linger") => connected /\ Gone

\* A reset or timed out connection is noticed and left, whatever main was at.
DropIsNoticed == InSession /\ ~IsConnected(server_s) ~> pc = "flush"

Closed(d) == Valid(d) /\ sock[d].fin

\* Main notices the server's FIN behind all its commands, unless packets are ready
\* each time it goes round from some time on: it reads only when there is none.
FinIsNoticed == InSession /\ Closed(server_s) ~> (pc = "flush" \/ [](pc # "cmds"))

\* A board without a server comes to every server it has queued a broadcast of,
\* unless another one takes it, or its first hello closed the listener, which the
\* uninitialized server_s may name; no hello waits for ever.
ServerIsTried ==
    \A s \in Servers :
        pc = "idle" /\ (\E i \in DOMAIN queue : queue[i].from = s)
            ~> InSession \/ (InHello /\ target.from = s) \/ sock[BcastS].kind # "bcast"

-----------------------------------------------------------------------------
(* Session implements Board *)

Peer  == IF InSession THEN target.from ELSE NoServer
Fresh == {queue[i].from : i \in {j \in DOMAIN queue : ~queue[j].old}} \cap Servers
Heard == Fresh \cup (IF InHello /\ ~target.old THEN {target.from} ELSE {})

B == INSTANCE Board WITH peer <- Peer, heard <- Heard

\* The board connects only to a server it has heard since it lost the last one, or
\* whose broadcast stood behind a datagram that ended the flush (Big).
ImplementsBoard == B!Spec
=============================================================================
