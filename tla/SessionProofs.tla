--------------------------- MODULE SessionProofs ---------------------------
(***************************************************************************)
(* Proofs about Session, for any number of servers, datagrams, descriptors *)
(* and queue places and any value of the uninitialized server_s: types,    *)
(* OneTcpSocket, NeverDropsLiveConnection, and that Session implements     *)
(* Board.                                                                  *)
(***************************************************************************)
EXTENDS Session, TLAPS

\* Where main is says whether it is connected and who called netprot_goodbye.
ControlInv ==
    /\ connected => \/ pc \in {"services", "check", "capture", "cmds", "reply"}
                    \/ Leaving
    /\ pc \in ByePCs => caller = "main"
    /\ pc \in HelloPCs => caller = "hello"
    /\ Leaving \/ pc \in {"check", "capture", "cmds", "reply"} => connected
    /\ disconnect => pc = "check"

\* The only TCP socket is server_s; it is reset when it is closed, and it is there
\* when main waits for it or is in a session.
SocketInv ==
    /\ OneTcpSocket
    /\ pc = "close" => Valid(server_s) /\ sock[server_s].linger
    /\ pc = "connect" /\ Valid(server_s) => sock[server_s].kind = "tcp"
    /\ pc \in {"wait", "hello"} \/ InSession =>
           server_s \in Desc /\ sock[server_s].kind = "tcp"

\* An established connection only gets worse: main acts on a loss that lasts.
LossInv ==
    /\ InSession \/ pc = "hello" \/ (Leaving /\ pc = "linger") =>
           ~(server_s \in Desc /\ sock[server_s].state = "connecting")
    /\ disconnect \/ (Leaving /\ pc = "linger") => Gone

\* Stale broadcasts are in the queue only while main leaves a server.
QueueInv ==
    /\ sock[BcastS].kind # "bcast" => queue = <<>>
    /\ \A i \in DOMAIN queue : queue[i].old => Leaving /\ pc # "stop"
    /\ InHello => ~target.old
    /\ InHello \/ connected => target.from \in Servers

-----------------------------------------------------------------------------
\* The constants the steps use.
LEMMA SocketFacts ==
    /\ DhcpS \in Desc /\ BcastS \in Desc
    /\ \A k \in Kinds : Socket(k) \in SocketType
    /\ Invalid \notin Desc /\ Desc \subseteq Int
BY SessionAssumption DEF DhcpS, BcastS, Invalid, Desc, Socket, Kinds, States, SocketType

LEMMA SocketUpdate ==
    \A s \in SocketType :
        /\ \A x \in States : [s EXCEPT !.state = x] \in SocketType
        /\ [s EXCEPT !.linger = TRUE] \in SocketType
        /\ [s EXCEPT !.fin = TRUE] \in SocketType
        /\ \A r \in Nat : [s EXCEPT !.rx = r] \in SocketType
BY DEF SocketType

LEMMA HeardUpdate == \A h \in HeardType : [h EXCEPT !.old = TRUE] \in HeardType
BY DEF HeardType

LEMMA RestType == queue \in Seq(HeardType) /\ queue # <<>> => Rest \in Seq(HeardType)
<1> SUFFICES ASSUME queue \in Seq(HeardType), queue # <<>> PROVE Rest \in Seq(HeardType)
  OBVIOUS
<1> DEFINE n == Len(queue) - 1
           rest == [i \in 1 .. n |-> [queue[i + 1] EXCEPT !.old = FALSE]]
<1>1. n \in Nat
  OBVIOUS
<1>2. ASSUME NEW i \in 1 .. n PROVE [queue[i + 1] EXCEPT !.old = FALSE] \in HeardType
  <2>1. queue[i + 1] \in HeardType
    BY <1>1
  <2> QED BY <2>1 DEF HeardType
<1>3. rest \in [1 .. n -> HeardType]
  BY <1>2
<1>4. rest \in Seq(HeardType)
  BY <1>1, <1>3
<1>5. Tail(queue) \in Seq(HeardType)
  OBVIOUS
<1> QED BY <1>4, <1>5 DEF Rest

LEMMA TableUpdate ==
    ASSUME NEW T, NEW f \in [Desc -> T], NEW d, NEW s \in T
    PROVE  [f EXCEPT ![d] = s] \in [Desc -> T]
OBVIOUS

LEMMA TypeInit == Init => TypeOK
<1> USE SessionAssumption, SocketFacts
<1> SUFFICES ASSUME Init PROVE TypeOK
  OBVIOUS
<1>1. sock \in [Desc -> SocketType]
  BY DEF Init, Kinds
<1>2. target \in HeardType /\ queue \in Seq(HeardType)
  BY DEF Init, HeardType
<1> QED BY <1>1, <1>2 DEF Init, TypeOK, PCs

\* Types: what a step assigns has the type of its variable.
LEMMA TypeStep == TypeOK /\ [Next]_vars => TypeOK'
<1> SUFFICES ASSUME TypeOK, [Next]_vars PROVE TypeOK'
  OBVIOUS
<1> USE SessionAssumption, SocketFacts DEF TypeOK, netVars, mainVars, PCs, HelloPCs, ByePCs, Goodbye
<1>1. ASSUME NEW m \in Datagrams, Broadcast(m) PROVE TypeOK'
  <2>1. [from |-> m, old |-> FALSE] \in HeardType
    BY <1>1 DEF HeardType
  <2> QED BY <1>1, <2>1 DEF Broadcast
<1>2. ASSUME NEW d \in Desc, Established(d) PROVE TypeOK'
  <2>1. d \in Desc /\ sock[d] \in SocketType
    BY <1>2 DEF Established, TcpEvent
  <2>2. sock' = [sock EXCEPT ![d] = [sock[d] EXCEPT !.state = "connected"]]
    BY <1>2, <2>1 DEF Established, TcpEvent
  <2>3. [sock[d] EXCEPT !.state = "connected"] \in SocketType
    BY <1>2, <2>1, SocketUpdate DEF Established, TcpEvent, States
  <2>4. sock' \in [Desc -> SocketType]
    BY <2>2, <2>3, TableUpdate
  <2> QED BY <1>2, <2>4 DEF Established, TcpEvent
<1>3. ASSUME NEW d \in Desc, Dropped(d) PROVE TypeOK'
  <2>1. d \in Desc /\ sock[d] \in SocketType
    BY <1>3 DEF Dropped, TcpEvent
  <2>2. sock' = [sock EXCEPT ![d] = [sock[d] EXCEPT !.state = "unconnected"]]
    BY <1>3, <2>1 DEF Dropped, TcpEvent
  <2>3. [sock[d] EXCEPT !.state = "unconnected"] \in SocketType
    BY <1>3, <2>1, SocketUpdate DEF Dropped, TcpEvent, States
  <2>4. sock' \in [Desc -> SocketType]
    BY <2>2, <2>3, TableUpdate
  <2> QED BY <1>3, <2>4 DEF Dropped, TcpEvent
<1>4. ASSUME NEW d \in Desc, FinReceived(d) PROVE TypeOK'
  <2>1. d \in Desc /\ sock[d] \in SocketType
    BY <1>4 DEF FinReceived, TcpEvent
  <2>2. sock' = [sock EXCEPT ![d] = [sock[d] EXCEPT !.fin = TRUE]]
    BY <1>4, <2>1 DEF FinReceived, TcpEvent
  <2>3. [sock[d] EXCEPT !.fin = TRUE] \in SocketType
    BY <1>4, <2>1, SocketUpdate DEF FinReceived, TcpEvent
  <2>4. sock' \in [Desc -> SocketType]
    BY <2>2, <2>3, TableUpdate
  <2> QED BY <1>4, <2>4 DEF FinReceived, TcpEvent
<1>5. ASSUME NEW d \in Desc, DataReceived(d) PROVE TypeOK'
  <2>1. sock[d] \in SocketType
    OBVIOUS
  <2>2. sock[d].rx + 1 \in Nat
    BY <2>1 DEF SocketType
  <2>3. sock' = [sock EXCEPT ![d] = [sock[d] EXCEPT !.rx = sock[d].rx + 1]]
    BY <1>5 DEF DataReceived, TcpEvent
  <2>4. sock' \in [Desc -> SocketType]
    BY <2>1, <2>2, <2>3, SocketUpdate, TableUpdate
  <2> QED BY <1>5, <2>4 DEF DataReceived, TcpEvent
<1>6. CASE NoBroadcast
  BY <1>6 DEF NoBroadcast, Idle
<1>7. CASE BadBroadcast
  BY <1>7 DEF BadBroadcast, Idle
<1>8. CASE GoodBroadcast
  BY <1>8 DEF GoodBroadcast, Idle
<1>9. CASE ListenerLost
  <2>1. BcastS \in Desc /\ sock[BcastS] \in SocketType
    BY <1>9 DEF ListenerLost
  <2>2. sock' = [sock EXCEPT ![BcastS] = [sock[BcastS] EXCEPT !.rx = 0]]
    BY <1>9, <2>1 DEF ListenerLost
  <2>3. [sock[BcastS] EXCEPT !.rx = 0] \in SocketType
    BY <1>9, <2>1, SocketUpdate DEF ListenerLost
  <2>4. sock' \in [Desc -> SocketType]
    BY <2>2, <2>3, TableUpdate
  <2> QED BY <1>9, <2>4 DEF ListenerLost
<1>10. CASE SetLinger
  <2>1. CASE Valid(server_s)
    <3>1. sock[server_s] \in SocketType
      BY <2>1 DEF Valid
    <3>2. sock' \in [Desc -> SocketType]
      BY <1>10, <2>1, <3>1, SocketUpdate, TableUpdate DEF SetLinger, HardClose
    <3> QED BY <1>10, <2>1, <3>2 DEF SetLinger
  <2>2. CASE ~Valid(server_s)
    BY <1>10, <2>2 DEF SetLinger, AfterGoodbye
  <2> QED BY <2>1, <2>2
<1>11. CASE CloseSocket
  <2>1. sock' \in [Desc -> SocketType]
    BY <1>11, TableUpdate DEF CloseSocket, Kinds
  <2>2. lingering' \in Nat
    BY <1>11 DEF CloseSocket
  <2>3. queue' \in Seq(HeardType)
    BY <1>11 DEF CloseSocket
  <2> QED BY <1>11, <2>1, <2>2, <2>3 DEF CloseSocket, AfterGoodbye
<1>12. ASSUME NEW d \in Desc, OpenSocket(d) PROVE TypeOK'
  <2>1. sock' \in [Desc -> SocketType] /\ server_s' \in Int
    BY <1>12, TableUpdate DEF OpenSocket, Kinds
  <2> QED BY <1>12, <2>1 DEF OpenSocket
<1>13. CASE OpenFails
  BY <1>13 DEF OpenFails, Invalid
<1>14. CASE ConnectStart
  <2>1. server_s \in Desc /\ sock[server_s] \in SocketType
    BY <1>14 DEF ConnectStart, Valid
  <2>2. sock' = [sock EXCEPT ![server_s] = [sock[server_s] EXCEPT !.state = "connecting"]]
    BY <1>14, <2>1 DEF ConnectStart
  <2>3. [sock[server_s] EXCEPT !.state = "connecting"] \in SocketType
    BY <1>14, <2>1, SocketUpdate DEF ConnectStart, States
  <2>4. sock' \in [Desc -> SocketType]
    BY <2>2, <2>3, TableUpdate
  <2> QED BY <1>14, <2>4 DEF ConnectStart
<1>15. CASE ConnectFails
  BY <1>15 DEF ConnectFails
<1>16. CASE WaitConnected
  BY <1>16 DEF WaitConnected
<1>17. CASE HelloTimeout
  BY <1>17 DEF HelloTimeout
<1>18. CASE SendHello
  BY <1>18 DEF SendHello
<1>19. CASE SendHelloFails
  BY <1>19 DEF SendHelloFails
<1>20. CASE PollServices
  <2>1. PICK r \in 0 .. sock[DhcpS].rx : sock' = [sock EXCEPT ![DhcpS].rx = r]
    BY <1>20 DEF PollServices
  <2>2. sock[DhcpS] \in SocketType
    OBVIOUS
  <2>3. r \in Nat
    BY <2>1, <2>2 DEF SocketType
  <2>4. sock' = [sock EXCEPT ![DhcpS] = [sock[DhcpS] EXCEPT !.rx = r]]
    BY <2>1
  <2>5. sock' \in [Desc -> SocketType]
    BY <2>2, <2>3, <2>4, SocketUpdate, TableUpdate
  <2> QED BY <1>20, <2>5 DEF PollServices
<1>21. CASE KeepRunning
  BY <1>21 DEF KeepRunning
<1>22. CASE Disconnect
  <2>1. \A i \in DOMAIN queue : [queue[i] EXCEPT !.old = TRUE] \in HeardType
    <3> TAKE i \in DOMAIN queue
    <3>1. queue[i] \in HeardType
      OBVIOUS
    <3> QED BY <3>1, HeardUpdate
  <2> DEFINE marked == [i \in DOMAIN queue |-> [queue[i] EXCEPT !.old = TRUE]]
  <2>2. marked \in Seq(HeardType)
    <3>1. DOMAIN queue = 1 .. Len(queue) /\ Len(queue) \in Nat
      OBVIOUS
    <3>2. marked \in [1 .. Len(queue) -> HeardType]
      BY <2>1, <3>1, Zenon
    <3> HIDE DEF marked
    <3> QED BY <3>1, <3>2
  <2>3. queue' = marked
    BY <1>22 DEF Disconnect
  <2> HIDE DEF marked
  <2> QED BY <1>22, <2>2, <2>3 DEF Disconnect, Acknowledged
<1>23. CASE NoCapture
  BY <1>23 DEF NoCapture
<1>24. CASE SendCapture
  BY <1>24 DEF SendCapture
<1>25. CASE SendCaptureFails
  BY <1>25 DEF SendCaptureFails, Lost
<1>26. ASSUME NEW k \in 0 .. MaxReplies, ReceiveCommands(k) PROVE TypeOK'
  <2>1. server_s \in Desc /\ sock[server_s] \in SocketType /\ sock[server_s].rx > 0
    BY <1>26 DEF ReceiveCommands, HasData, Valid
  <2>2. sock[server_s].rx - 1 \in Nat
    BY <2>1 DEF SocketType
  <2>3. sock' = [sock EXCEPT ![server_s] = [sock[server_s] EXCEPT !.rx = sock[server_s].rx - 1]]
    BY <1>26, <2>1 DEF ReceiveCommands
  <2>4. sock' \in [Desc -> SocketType]
    BY <2>1, <2>2, <2>3, SocketUpdate, TableUpdate
  <2> QED BY <1>26, <2>4 DEF ReceiveCommands
<1>27. CASE NoCommands
  BY <1>27 DEF NoCommands, HasData
<1>28. CASE ReceiveFails
  BY <1>28 DEF ReceiveFails, HasData, Lost
<1>29. CASE SendReply
  BY <1>29 DEF SendReply
<1>30. CASE RepliesSent
  BY <1>30 DEF RepliesSent
<1>31. CASE SendReplyFails
  BY <1>31 DEF SendReplyFails, Lost
<1>32. CASE Flush
  <2>1. queue' \in Seq(HeardType)
    BY <1>32, RestType DEF Flush, Listening
  <2> QED BY <1>32, <2>1 DEF Flush, FlushGoesOn
<1>33. CASE FlushDone
  BY <1>33 DEF FlushDone, Listening
<1>34. CASE Stop
  BY <1>34 DEF Stop
<1>35. CASE UNCHANGED vars
  BY <1>35 DEF vars
<1> QED
  BY <1>1, <1>2, <1>3, <1>4, <1>5, <1>6, <1>7, <1>8, <1>9, <1>10, <1>11,
     <1>12, <1>13, <1>14, <1>15, <1>16, <1>17, <1>18, <1>19, <1>20, <1>21,
     <1>22, <1>23, <1>24, <1>25, <1>26, <1>27, <1>28, <1>29, <1>30, <1>31,
     <1>32, <1>33, <1>34, <1>35
  DEF Next, Main, Hello, Connection, Interrupts

\* Control: pc, caller, connected and disconnect go together.
LEMMA ControlStep == TypeOK /\ ControlInv /\ [Next]_vars => ControlInv'
<1> SUFFICES ASSUME TypeOK, ControlInv, [Next]_vars PROVE ControlInv'
  OBVIOUS
<1> USE DEF TypeOK, ControlInv, Leaving, netVars, mainVars, HelloPCs, ByePCs, Goodbye
<1>1. ASSUME NEW m \in Datagrams, Broadcast(m) PROVE ControlInv'
  BY <1>1 DEF Broadcast
<1>2. ASSUME NEW d \in Desc, Established(d) PROVE ControlInv'
  BY <1>2 DEF Established, TcpEvent
<1>3. ASSUME NEW d \in Desc, Dropped(d) PROVE ControlInv'
  BY <1>3 DEF Dropped, TcpEvent
<1>4. ASSUME NEW d \in Desc, FinReceived(d) PROVE ControlInv'
  BY <1>4 DEF FinReceived, TcpEvent
<1>5. ASSUME NEW d \in Desc, DataReceived(d) PROVE ControlInv'
  BY <1>5 DEF DataReceived, TcpEvent
<1>6. CASE NoBroadcast
  BY <1>6 DEF NoBroadcast, Idle
<1>7. CASE BadBroadcast
  BY <1>7 DEF BadBroadcast, Idle
<1>8. CASE GoodBroadcast
  BY <1>8 DEF GoodBroadcast, Idle
<1>9. CASE ListenerLost
  BY <1>9 DEF ListenerLost
<1>10. CASE SetLinger
  BY <1>10 DEF SetLinger, AfterGoodbye, HardClose
<1>11. CASE CloseSocket
  BY <1>11 DEF CloseSocket, AfterGoodbye, Lingers
<1>12. ASSUME NEW d \in Desc, OpenSocket(d) PROVE ControlInv'
  BY <1>12 DEF OpenSocket
<1>13. CASE OpenFails
  BY <1>13 DEF OpenFails
<1>14. CASE ConnectStart
  BY <1>14 DEF ConnectStart
<1>15. CASE ConnectFails
  BY <1>15 DEF ConnectFails
<1>16. CASE WaitConnected
  BY <1>16 DEF WaitConnected
<1>17. CASE HelloTimeout
  BY <1>17 DEF HelloTimeout
<1>18. CASE SendHello
  BY <1>18 DEF SendHello
<1>19. CASE SendHelloFails
  BY <1>19 DEF SendHelloFails
<1>20. CASE PollServices
  BY <1>20 DEF PollServices
<1>21. CASE KeepRunning
  BY <1>21 DEF KeepRunning
<1>22. CASE Disconnect
  BY <1>22 DEF Disconnect, Acknowledged
<1>23. CASE NoCapture
  BY <1>23 DEF NoCapture
<1>24. CASE SendCapture
  BY <1>24 DEF SendCapture
<1>25. CASE SendCaptureFails
  BY <1>25 DEF SendCaptureFails, Lost
<1>26. ASSUME NEW k \in 0 .. MaxReplies, ReceiveCommands(k) PROVE ControlInv'
  BY <1>26 DEF ReceiveCommands, HasData
<1>27. CASE NoCommands
  BY <1>27 DEF NoCommands, HasData
<1>28. CASE ReceiveFails
  BY <1>28 DEF ReceiveFails, HasData, Lost
<1>29. CASE SendReply
  BY <1>29 DEF SendReply
<1>30. CASE RepliesSent
  BY <1>30 DEF RepliesSent
<1>31. CASE SendReplyFails
  BY <1>31 DEF SendReplyFails, Lost
<1>32. CASE Flush
  BY <1>32 DEF Flush, Listening, FlushGoesOn
<1>33. CASE FlushDone
  BY <1>33 DEF FlushDone, Listening
<1>34. CASE Stop
  BY <1>34 DEF Stop
<1>35. CASE UNCHANGED vars
  BY <1>35 DEF vars
<1> QED
  BY <1>1, <1>2, <1>3, <1>4, <1>5, <1>6, <1>7, <1>8, <1>9, <1>10, <1>11,
     <1>12, <1>13, <1>14, <1>15, <1>16, <1>17, <1>18, <1>19, <1>20, <1>21,
     <1>22, <1>23, <1>24, <1>25, <1>26, <1>27, <1>28, <1>29, <1>30, <1>31,
     <1>32, <1>33, <1>34, <1>35
  DEF Next, Main, Hello, Connection, Interrupts

\* Sockets: a hello resets the TCP socket it finds before it makes one.
LEMMA SocketStep == TypeOK /\ ControlInv /\ SocketInv /\ [Next]_vars => SocketInv'
<1> SUFFICES ASSUME TypeOK, ControlInv, SocketInv, [Next]_vars PROVE SocketInv'
  OBVIOUS
<1> USE SocketFacts DEF TypeOK, ControlInv, SocketInv, OneTcpSocket, InSession, Leaving, Valid,
       netVars, mainVars, HelloPCs, ByePCs, Goodbye
<1>1. ASSUME NEW m \in Datagrams, Broadcast(m) PROVE SocketInv'
  BY <1>1 DEF Broadcast
<1>2. ASSUME NEW d \in Desc, Established(d) PROVE SocketInv'
  BY <1>2 DEF Established, TcpEvent
<1>3. ASSUME NEW d \in Desc, Dropped(d) PROVE SocketInv'
  BY <1>3 DEF Dropped, TcpEvent
<1>4. ASSUME NEW d \in Desc, FinReceived(d) PROVE SocketInv'
  BY <1>4 DEF FinReceived, TcpEvent, IsConnected
<1>5. ASSUME NEW d \in Desc, DataReceived(d) PROVE SocketInv'
  BY <1>5 DEF DataReceived, TcpEvent, IsConnected
<1>6. CASE NoBroadcast
  BY <1>6 DEF NoBroadcast, Idle
<1>7. CASE BadBroadcast
  BY <1>7 DEF BadBroadcast, Idle
<1>8. CASE GoodBroadcast
  BY <1>8 DEF GoodBroadcast, Idle
<1>9. CASE ListenerLost
  BY <1>9 DEF ListenerLost
<1>10. CASE SetLinger
  <2>1. CASE Valid(server_s)
    <3>1. sock' = [sock EXCEPT ![server_s] = [sock[server_s] EXCEPT !.linger = TRUE]]
      BY <1>10, <2>1 DEF SetLinger, HardClose
    <3>2. sock[server_s] \in SocketType /\ server_s \in Desc
      BY <2>1
    <3>3. sock'[server_s].linger /\ \A d \in Desc : sock'[d].kind = sock[d].kind
      BY <3>1, <3>2 DEF SocketType
    <3>4. pc = "linger" /\ pc' = "close"
          /\ UNCHANGED <<lingering, server_s, connected, caller>>
      BY <1>10, <2>1 DEF SetLinger
    <3> QED BY <2>1, <3>2, <3>3, <3>4
  <2>2. CASE ~Valid(server_s)
    BY <1>10, <2>2 DEF SetLinger, AfterGoodbye
  <2> QED BY <2>1, <2>2
<1>11. CASE CloseSocket
  BY <1>11 DEF CloseSocket, AfterGoodbye, Lingers, Socket
<1>12. ASSUME NEW d \in Desc, OpenSocket(d) PROVE SocketInv'
  BY <1>12 DEF OpenSocket, Socket
<1>13. CASE OpenFails
  BY <1>13 DEF OpenFails
<1>14. CASE ConnectStart
  BY <1>14 DEF ConnectStart
<1>15. CASE ConnectFails
  BY <1>15 DEF ConnectFails
<1>16. CASE WaitConnected
  BY <1>16 DEF WaitConnected, IsConnected
<1>17. CASE HelloTimeout
  BY <1>17 DEF HelloTimeout, IsConnected
<1>18. CASE SendHello
  BY <1>18 DEF SendHello, IsConnected
<1>19. CASE SendHelloFails
  BY <1>19 DEF SendHelloFails, IsConnected
<1>20. CASE PollServices
  BY <1>20 DEF PollServices
<1>21. CASE KeepRunning
  BY <1>21 DEF KeepRunning
<1>22. CASE Disconnect
  BY <1>22 DEF Disconnect, Acknowledged
<1>23. CASE NoCapture
  BY <1>23 DEF NoCapture
<1>24. CASE SendCapture
  BY <1>24 DEF SendCapture, IsConnected
<1>25. CASE SendCaptureFails
  BY <1>25 DEF SendCaptureFails, Lost, IsConnected
<1>26. ASSUME NEW k \in 0 .. MaxReplies, ReceiveCommands(k) PROVE SocketInv'
  BY <1>26 DEF ReceiveCommands, HasData
<1>27. CASE NoCommands
  BY <1>27 DEF NoCommands, HasData
<1>28. CASE ReceiveFails
  BY <1>28 DEF ReceiveFails, HasData, Lost
<1>29. CASE SendReply
  BY <1>29 DEF SendReply, IsConnected
<1>30. CASE RepliesSent
  BY <1>30 DEF RepliesSent
<1>31. CASE SendReplyFails
  BY <1>31 DEF SendReplyFails, Lost, IsConnected
<1>32. CASE Flush
  BY <1>32 DEF Flush, Listening, FlushGoesOn
<1>33. CASE FlushDone
  BY <1>33 DEF FlushDone, Listening
<1>34. CASE Stop
  BY <1>34 DEF Stop
<1>35. CASE UNCHANGED vars
  BY <1>35 DEF vars
<1> QED
  BY <1>1, <1>2, <1>3, <1>4, <1>5, <1>6, <1>7, <1>8, <1>9, <1>10, <1>11,
     <1>12, <1>13, <1>14, <1>15, <1>16, <1>17, <1>18, <1>19, <1>20, <1>21,
     <1>22, <1>23, <1>24, <1>25, <1>26, <1>27, <1>28, <1>29, <1>30, <1>31,
     <1>32, <1>33, <1>34, <1>35
  DEF Next, Main, Hello, Connection, Interrupts

\* Losses: a connection that is over stays over, and main acts on no other.
LEMMA LossStep == TypeOK /\ ControlInv /\ SocketInv /\ LossInv /\ [Next]_vars => LossInv'
<1> SUFFICES ASSUME TypeOK, ControlInv, SocketInv, LossInv, [Next]_vars PROVE LossInv'
  OBVIOUS
<1> USE SocketFacts DEF TypeOK, ControlInv, SocketInv, OneTcpSocket, LossInv, Gone, PeerClosed,
       IsConnected, InSession, Leaving, Valid, netVars, mainVars, HelloPCs, ByePCs, Goodbye
<1>1. ASSUME NEW m \in Datagrams, Broadcast(m) PROVE LossInv'
  BY <1>1 DEF Broadcast
<1>2. ASSUME NEW d \in Desc, Established(d) PROVE LossInv'
  BY <1>2 DEF Established, TcpEvent
<1>3. ASSUME NEW d \in Desc, Dropped(d) PROVE LossInv'
  BY <1>3 DEF Dropped, TcpEvent
<1>4. ASSUME NEW d \in Desc, FinReceived(d) PROVE LossInv'
  BY <1>4 DEF FinReceived, TcpEvent
<1>5. ASSUME NEW d \in Desc, DataReceived(d) PROVE LossInv'
  BY <1>5 DEF DataReceived, TcpEvent
<1>6. CASE NoBroadcast
  BY <1>6 DEF NoBroadcast, Idle
<1>7. CASE BadBroadcast
  BY <1>7 DEF BadBroadcast, Idle
<1>8. CASE GoodBroadcast
  BY <1>8 DEF GoodBroadcast, Idle
<1>9. CASE ListenerLost
  BY <1>9 DEF ListenerLost
<1>10. CASE SetLinger
  BY <1>10 DEF SetLinger, AfterGoodbye, HardClose
<1>11. CASE CloseSocket
  BY <1>11 DEF CloseSocket, AfterGoodbye, Lingers, Socket
<1>12. ASSUME NEW d \in Desc, OpenSocket(d) PROVE LossInv'
  BY <1>12 DEF OpenSocket, Socket
<1>13. CASE OpenFails
  BY <1>13 DEF OpenFails
<1>14. CASE ConnectStart
  BY <1>14 DEF ConnectStart
<1>15. CASE ConnectFails
  BY <1>15 DEF ConnectFails
<1>16. CASE WaitConnected
  BY <1>16 DEF WaitConnected
<1>17. CASE HelloTimeout
  BY <1>17 DEF HelloTimeout
<1>18. CASE SendHello
  BY <1>18 DEF SendHello
<1>19. CASE SendHelloFails
  BY <1>19 DEF SendHelloFails
<1>20. CASE PollServices
  BY <1>20 DEF PollServices
<1>21. CASE KeepRunning
  BY <1>21 DEF KeepRunning
<1>22. CASE Disconnect
  BY <1>22 DEF Disconnect, Acknowledged
<1>23. CASE NoCapture
  BY <1>23 DEF NoCapture
<1>24. CASE SendCapture
  BY <1>24 DEF SendCapture
<1>25. CASE SendCaptureFails
  BY <1>25 DEF SendCaptureFails, Lost
<1>26. ASSUME NEW k \in 0 .. MaxReplies, ReceiveCommands(k) PROVE LossInv'
  BY <1>26 DEF ReceiveCommands, HasData
<1>27. CASE NoCommands
  BY <1>27 DEF NoCommands, HasData
<1>28. CASE ReceiveFails
  BY <1>28 DEF ReceiveFails, HasData, Lost
<1>29. CASE SendReply
  BY <1>29 DEF SendReply
<1>30. CASE RepliesSent
  BY <1>30 DEF RepliesSent
<1>31. CASE SendReplyFails
  BY <1>31 DEF SendReplyFails, Lost
<1>32. CASE Flush
  BY <1>32 DEF Flush, Listening, FlushGoesOn
<1>33. CASE FlushDone
  BY <1>33 DEF FlushDone, Listening
<1>34. CASE Stop
  BY <1>34 DEF Stop
<1>35. CASE UNCHANGED vars
  BY <1>35 DEF vars
<1> QED
  BY <1>1, <1>2, <1>3, <1>4, <1>5, <1>6, <1>7, <1>8, <1>9, <1>10, <1>11,
     <1>12, <1>13, <1>14, <1>15, <1>16, <1>17, <1>18, <1>19, <1>20, <1>21,
     <1>22, <1>23, <1>24, <1>25, <1>26, <1>27, <1>28, <1>29, <1>30, <1>31,
     <1>32, <1>33, <1>34, <1>35
  DEF Next, Main, Hello, Connection, Interrupts

\* What a flush that ends early leaves in the queue is taken for heard again.
LEMMA RestIsFresh ==
    TypeOK /\ queue # <<>> /\ Head(queue).from \in Big /\ queue' = Rest
        => \A i \in DOMAIN queue' : ~queue'[i].old
<1> SUFFICES ASSUME TypeOK, queue # <<>>, Head(queue).from \in Big, queue' = Rest,
                    NEW i \in DOMAIN queue'
             PROVE  ~queue'[i].old
  OBVIOUS
<1>1. i + 1 \in DOMAIN queue /\ queue'[i] = [queue[i + 1] EXCEPT !.old = FALSE]
  BY DEF TypeOK, Rest
<1>2. queue[i + 1] \in HeardType
  BY <1>1 DEF TypeOK
<1> QED BY <1>1, <1>2 DEF HeardType

\* The queue: bcast_flush leaves nothing that came before the disconnection.
LEMMA QueueStep == TypeOK /\ ControlInv /\ SocketInv /\ QueueInv /\ [Next]_vars => QueueInv'
<1> SUFFICES ASSUME TypeOK, ControlInv, SocketInv, QueueInv, [Next]_vars PROVE QueueInv'
  OBVIOUS
<1> USE SocketFacts DEF TypeOK, ControlInv, SocketInv, OneTcpSocket, QueueInv, InHello, Leaving, Valid,
       netVars, mainVars, HelloPCs, ByePCs, Goodbye
<1>1. ASSUME NEW m \in Datagrams, Broadcast(m) PROVE QueueInv'
  BY <1>1 DEF Broadcast
<1>2. ASSUME NEW d \in Desc, Established(d) PROVE QueueInv'
  BY <1>2 DEF Established, TcpEvent
<1>3. ASSUME NEW d \in Desc, Dropped(d) PROVE QueueInv'
  BY <1>3 DEF Dropped, TcpEvent
<1>4. ASSUME NEW d \in Desc, FinReceived(d) PROVE QueueInv'
  BY <1>4 DEF FinReceived, TcpEvent
<1>5. ASSUME NEW d \in Desc, DataReceived(d) PROVE QueueInv'
  BY <1>5 DEF DataReceived, TcpEvent
<1>6. CASE NoBroadcast
  BY <1>6 DEF NoBroadcast, Idle
<1>7. CASE BadBroadcast
  BY <1>7 DEF BadBroadcast, Idle
<1>8. CASE GoodBroadcast
  BY <1>8 DEF GoodBroadcast, Idle
<1>9. CASE ListenerLost
  BY <1>9 DEF ListenerLost
<1>10. CASE SetLinger
  <2>1. \A d \in Desc : sock'[d].kind = sock[d].kind
    <3>1. CASE Valid(server_s)
      <4>1. sock[server_s] \in SocketType /\ server_s \in Desc
        BY <3>1
      <4>2. sock' = [sock EXCEPT ![server_s] = [sock[server_s] EXCEPT !.linger = TRUE]]
        BY <1>10, <3>1 DEF SetLinger, HardClose
      <4> QED BY <4>1, <4>2 DEF SocketType
    <3>2. CASE ~Valid(server_s)
      BY <1>10, <3>2 DEF SetLinger
    <3> QED BY <3>1, <3>2
  <2>2. UNCHANGED <<queue, connected, target, caller>>
    BY <1>10 DEF SetLinger
  <2>3. pc = "linger" /\ pc' \in {"close", IF caller = "hello" THEN "socket" ELSE "flush"}
    BY <1>10 DEF SetLinger, AfterGoodbye
  <2> QED BY <2>1, <2>2, <2>3
<1>11. CASE CloseSocket
  BY <1>11 DEF CloseSocket, AfterGoodbye, Lingers, Socket
<1>12. ASSUME NEW d \in Desc, OpenSocket(d) PROVE QueueInv'
  BY <1>12 DEF OpenSocket, Socket
<1>13. CASE OpenFails
  BY <1>13 DEF OpenFails
<1>14. CASE ConnectStart
  BY <1>14 DEF ConnectStart
<1>15. CASE ConnectFails
  BY <1>15 DEF ConnectFails
<1>16. CASE WaitConnected
  BY <1>16 DEF WaitConnected
<1>17. CASE HelloTimeout
  BY <1>17 DEF HelloTimeout
<1>18. CASE SendHello
  BY <1>18 DEF SendHello
<1>19. CASE SendHelloFails
  BY <1>19 DEF SendHelloFails
<1>20. CASE PollServices
  BY <1>20 DEF PollServices
<1>21. CASE KeepRunning
  BY <1>21 DEF KeepRunning
<1>22. CASE Disconnect
  BY <1>22 DEF Disconnect, Acknowledged
<1>23. CASE NoCapture
  BY <1>23 DEF NoCapture
<1>24. CASE SendCapture
  BY <1>24 DEF SendCapture
<1>25. CASE SendCaptureFails
  BY <1>25 DEF SendCaptureFails, Lost
<1>26. ASSUME NEW k \in 0 .. MaxReplies, ReceiveCommands(k) PROVE QueueInv'
  BY <1>26 DEF ReceiveCommands, HasData
<1>27. CASE NoCommands
  BY <1>27 DEF NoCommands, HasData
<1>28. CASE ReceiveFails
  BY <1>28 DEF ReceiveFails, HasData, Lost
<1>29. CASE SendReply
  BY <1>29 DEF SendReply
<1>30. CASE RepliesSent
  BY <1>30 DEF RepliesSent
<1>31. CASE SendReplyFails
  BY <1>31 DEF SendReplyFails, Lost
<1>32. CASE Flush
  <2>1. CASE Head(queue).from \in Big
    <3>1. \A i \in DOMAIN queue' : ~queue'[i].old
      BY <1>32, <2>1, RestIsFresh DEF Flush, Listening
    <3> QED BY <1>32, <3>1 DEF Flush, Listening
  <2>2. CASE Head(queue).from \notin Big
    BY <1>32, <2>2 DEF Flush, Listening, FlushGoesOn, Rest
  <2> QED BY <2>1, <2>2
<1>33. CASE FlushDone
  BY <1>33 DEF FlushDone, Listening
<1>34. CASE Stop
  BY <1>34 DEF Stop
<1>35. CASE UNCHANGED vars
  BY <1>35 DEF vars
<1> QED
  BY <1>1, <1>2, <1>3, <1>4, <1>5, <1>6, <1>7, <1>8, <1>9, <1>10, <1>11,
     <1>12, <1>13, <1>14, <1>15, <1>16, <1>17, <1>18, <1>19, <1>20, <1>21,
     <1>22, <1>23, <1>24, <1>25, <1>26, <1>27, <1>28, <1>29, <1>30, <1>31,
     <1>32, <1>33, <1>34, <1>35
  DEF Next, Main, Hello, Connection, Interrupts

-----------------------------------------------------------------------------
\* Safety of the main loop.
Inv == TypeOK /\ ControlInv /\ SocketInv /\ LossInv

LEMMA InvHolds == Spec => []Inv
<1>1. Init => Inv
  <2> SUFFICES ASSUME Init PROVE Inv
    OBVIOUS
  <2>1. TypeOK
    BY TypeInit
  <2>2. \A d \in Desc : sock[d].kind # "tcp"
    BY DEF Init, Socket
  <2>3. pc = "idle" /\ ~connected /\ ~disconnect /\ caller = "hello" /\ lingering = 0
    BY DEF Init
  <2> QED BY <2>1, <2>2, <2>3
    DEF Inv, ControlInv, SocketInv, OneTcpSocket, LossInv, InSession, Leaving,
        HelloPCs, ByePCs
<1>2. Inv /\ [Next]_vars => Inv'
  BY TypeStep, ControlStep, SocketStep, LossStep DEF Inv
<1> QED BY <1>1, <1>2, PTL DEF Spec

\* Every variable of the main loop and the socket layer keeps its type.
THEOREM TypeCorrect == Spec => []TypeOK
BY InvHolds, PTL DEF Inv

\* Whatever servers, timers and the uninitialized server_s do, the board has at most
\* one TCP socket, none when it opens one, and no close leaves one lingering.
THEOREM OneSocket == Spec => []OneTcpSocket
<1>1. Inv => OneTcpSocket
  BY DEF Inv, SocketInv
<1> QED BY <1>1, InvHolds, PTL

\* The board leaves a server only after the connection to it was lost or closed.
THEOREM LiveKept == Spec => []NeverDropsLiveConnection
<1>1. Inv => NeverDropsLiveConnection
  BY DEF Inv, ControlInv, LossInv, NeverDropsLiveConnection, Leaving, Goodbye, ByePCs
<1> QED BY <1>1, InvHolds, PTL

-----------------------------------------------------------------------------
(* Session implements Board *)

LEMMA Forgets == Peer' = Peer /\ Heard' \subseteq Heard => [B!Next]_<<Peer, Heard>>
BY DEF B!Next, B!Forget

LEMMA SameQueue == queue' = queue => Fresh' = Fresh
BY DEF Fresh

LEMMA EmptyQueue == queue' = <<>> => Fresh' = {}
BY DEF Fresh

LEMMA TailQueue ==
    TypeOK /\ queue # <<>> /\ queue' = Tail(queue) => Fresh' \subseteq Fresh
<1> SUFFICES ASSUME TypeOK, queue # <<>>, queue' = Tail(queue),
                    NEW i \in DOMAIN queue', ~queue'[i].old
             PROVE  \E j \in DOMAIN queue : ~queue[j].old /\ queue[j].from = queue'[i].from
  BY DEF Fresh
<1>1. i + 1 \in DOMAIN queue /\ queue'[i] = queue[i + 1]
  BY DEF TypeOK
<1> QED BY <1>1

\* A flush that ends early forgets nothing that came after the disconnection.
LEMMA RestHasFresh ==
    TypeOK /\ queue # <<>> /\ Head(queue).from \in Big /\ queue' = Rest => Fresh \subseteq Fresh'
<1> SUFFICES ASSUME TypeOK, queue # <<>>, Head(queue).from \in Big, queue' = Rest,
                    NEW i \in DOMAIN queue, queue[i].from \in Servers
             PROVE  \E j \in DOMAIN queue' : ~queue'[j].old /\ queue'[j].from = queue[i].from
  BY DEF Fresh
<1> DEFINE rest == [k \in 1 .. Len(queue) - 1 |-> [queue[k + 1] EXCEPT !.old = FALSE]]
<1>0. queue' = rest
  BY DEF Rest
<1>1. i # 1
  BY SessionAssumption DEF TypeOK
<1>2. i - 1 \in DOMAIN queue' /\ queue'[i - 1] = [queue[i] EXCEPT !.old = FALSE]
  <2>1. i - 1 \in 1 .. Len(queue) - 1 /\ (i - 1) + 1 = i
    BY <1>1 DEF TypeOK
  <2>2. rest[i - 1] = [queue[(i - 1) + 1] EXCEPT !.old = FALSE]
    BY <2>1
  <2> QED BY <1>0, <2>1, <2>2
<1>3. queue[i] \in HeardType
  BY DEF TypeOK
<1>4. ~queue'[i - 1].old /\ queue'[i - 1].from = queue[i].from
  BY <1>2, <1>3 DEF HeardType
<1> QED BY <1>2, <1>4

\* Every step of Session is one of Board or leaves peer and heard alone.
LEMMA RefineStep ==
    TypeOK /\ ControlInv /\ QueueInv /\ [Next]_vars
        => [B!Next]_<<Peer, Heard>>
<1> SUFFICES ASSUME TypeOK, ControlInv, QueueInv, [Next]_vars PROVE [B!Next]_<<Peer, Heard>>
  OBVIOUS
<1> USE SocketFacts, Forgets, SameQueue
    DEF TypeOK, ControlInv, QueueInv, Peer, Heard, InHello, InSession, Leaving,
        netVars, mainVars, HelloPCs, ByePCs, Goodbye
<1>1. ASSUME NEW m \in Datagrams, Broadcast(m) PROVE [B!Next]_<<Peer, Heard>>
  <2>1. Peer' = Peer /\ (InHello /\ ~target.old <=> (InHello /\ ~target.old)')
        /\ target' = target /\ queue' = Append(queue, [from |-> m, old |-> FALSE])
    BY <1>1 DEF Broadcast
  <2>2. Fresh' = Fresh \cup ({m} \cap Servers)
    <3>1. DOMAIN queue' = DOMAIN queue \cup {Len(queue) + 1}
          /\ queue'[Len(queue) + 1] = [from |-> m, old |-> FALSE]
          /\ \A i \in DOMAIN queue : queue'[i] = queue[i]
      BY <2>1
    <3> QED BY <3>1 DEF Fresh
  <2>3. CASE m \in Servers
    <3>1. Heard' = Heard \cup {m}
      BY <2>1, <2>2, <2>3
    <3>2. B!Hear({m}) /\ {m} \in SUBSET Servers
      BY <2>1, <2>3, <3>1 DEF B!Hear
    <3> QED BY <3>2 DEF B!Next
  <2>4. CASE m \notin Servers
    BY <2>1, <2>2, <2>4
  <2> QED BY <2>3, <2>4
<1>2. ASSUME NEW d \in Desc, Established(d) PROVE [B!Next]_<<Peer, Heard>>
  BY <1>2 DEF Established, TcpEvent
<1>3. ASSUME NEW d \in Desc, Dropped(d) PROVE [B!Next]_<<Peer, Heard>>
  BY <1>3 DEF Dropped, TcpEvent
<1>4. ASSUME NEW d \in Desc, FinReceived(d) PROVE [B!Next]_<<Peer, Heard>>
  BY <1>4 DEF FinReceived, TcpEvent
<1>5. ASSUME NEW d \in Desc, DataReceived(d) PROVE [B!Next]_<<Peer, Heard>>
  BY <1>5 DEF DataReceived, TcpEvent
<1>6. CASE NoBroadcast
  BY <1>6 DEF NoBroadcast, Idle
<1>7. CASE BadBroadcast
  BY <1>7, TailQueue DEF BadBroadcast, Idle
<1>8. CASE GoodBroadcast
  <2>1. Head(queue) = queue[1] /\ 1 \in DOMAIN queue /\ ~queue[1].old
        /\ queue[1].from \in Servers /\ Fresh' \subseteq Fresh
    BY <1>8, TailQueue DEF GoodBroadcast, Idle
  <2>2. queue[1].from \in Fresh
    BY <2>1 DEF Fresh
  <2>3. target' = queue[1]
    BY <1>8, <2>1 DEF GoodBroadcast
  <2>4. Heard' \subseteq Heard
    BY <2>1, <2>2, <2>3
  <2>5. Peer' = Peer
    BY <1>8 DEF GoodBroadcast, Idle
  <2> QED BY <2>4, <2>5
<1>9. CASE ListenerLost
  BY <1>9 DEF ListenerLost
<1>10. CASE SetLinger
  BY <1>10 DEF SetLinger, AfterGoodbye, HardClose
<1>11. CASE CloseSocket
  BY <1>11, EmptyQueue DEF CloseSocket, AfterGoodbye
<1>12. ASSUME NEW d \in Desc, OpenSocket(d) PROVE [B!Next]_<<Peer, Heard>>
  BY <1>12 DEF OpenSocket
<1>13. CASE OpenFails
  BY <1>13 DEF OpenFails
<1>14. CASE ConnectStart
  BY <1>14 DEF ConnectStart
<1>15. CASE ConnectFails
  BY <1>15 DEF ConnectFails
<1>16. CASE WaitConnected
  BY <1>16 DEF WaitConnected
<1>17. CASE HelloTimeout
  BY <1>17 DEF HelloTimeout
<1>18. CASE SendHello
  <2>1. Peer = NoServer /\ Peer' = target.from /\ Heard' = Fresh
    BY <1>18 DEF SendHello
  <2>2. target.from \in Servers /\ target.from \in Heard /\ Fresh \subseteq Heard
    BY <1>18 DEF SendHello
  <2> QED BY <2>1, <2>2 DEF B!Next, B!Connect
<1>19. CASE SendHelloFails
  BY <1>19 DEF SendHelloFails
<1>20. CASE PollServices
  BY <1>20 DEF PollServices
<1>21. CASE KeepRunning
  BY <1>21 DEF KeepRunning
<1>22. CASE Disconnect
  <2>1. Peer # NoServer /\ Peer' = NoServer
    BY <1>22, SessionAssumption DEF Disconnect
  <2>2. ASSUME NEW i \in DOMAIN queue' PROVE queue'[i].old
    <3>1. i \in DOMAIN queue /\ queue'[i] = [queue[i] EXCEPT !.old = TRUE]
      BY <1>22 DEF Disconnect
    <3>2. queue[i] \in HeardType
      BY <3>1
    <3> QED BY <3>1, <3>2 DEF HeardType
  <2>3. Heard' = {}
    BY <1>22, <2>2 DEF Disconnect, Fresh
  <2> QED BY <2>1, <2>3 DEF B!Next, B!Disconnect
<1>23. CASE NoCapture
  BY <1>23 DEF NoCapture
<1>24. CASE SendCapture
  BY <1>24 DEF SendCapture
<1>25. CASE SendCaptureFails
  BY <1>25 DEF SendCaptureFails, Lost
<1>26. ASSUME NEW k \in 0 .. MaxReplies, ReceiveCommands(k) PROVE [B!Next]_<<Peer, Heard>>
  BY <1>26 DEF ReceiveCommands, HasData
<1>27. CASE NoCommands
  BY <1>27 DEF NoCommands, HasData
<1>28. CASE ReceiveFails
  BY <1>28 DEF ReceiveFails, HasData, Lost
<1>29. CASE SendReply
  BY <1>29 DEF SendReply
<1>30. CASE RepliesSent
  BY <1>30 DEF RepliesSent
<1>31. CASE SendReplyFails
  BY <1>31 DEF SendReplyFails, Lost
<1>32. CASE Flush
  <2>1. Peer' = Peer /\ target' = target /\ ~InHello /\ ~InHello'
    BY <1>32 DEF Flush, Listening
  <2>2. CASE Head(queue).from \in Big
    <3>1. Fresh \subseteq Fresh'
      BY <1>32, <2>2, RestHasFresh DEF Flush, Listening
    <3>2. Heard' = Heard \cup Fresh' /\ Fresh' \in SUBSET Servers
      BY <2>1, <3>1 DEF Fresh
    <3> QED BY <2>1, <3>2 DEF B!Next, B!Hear
  <2>3. CASE Head(queue).from \notin Big
    BY <1>32, <2>1, <2>3, TailQueue DEF Flush, Listening, Rest
  <2> QED BY <2>2, <2>3
<1>33. CASE FlushDone
  BY <1>33 DEF FlushDone, Listening
<1>34. CASE Stop
  BY <1>34 DEF Stop
<1>35. CASE UNCHANGED vars
  BY <1>35 DEF vars, Fresh
<1> QED
  BY <1>1, <1>2, <1>3, <1>4, <1>5, <1>6, <1>7, <1>8, <1>9, <1>10, <1>11,
     <1>12, <1>13, <1>14, <1>15, <1>16, <1>17, <1>18, <1>19, <1>20, <1>21,
     <1>22, <1>23, <1>24, <1>25, <1>26, <1>27, <1>28, <1>29, <1>30, <1>31,
     <1>32, <1>33, <1>34, <1>35
  DEF Next, Main, Hello, Connection, Interrupts

\* The board connects to one server at a time, and only to one it has heard since it
\* lost the last one, or whose broadcast stood behind a datagram that ended the flush.
THEOREM Refinement == Spec => ImplementsBoard
<1>1. Init => B!Init
  BY DEF Init, B!Init, Peer, Heard, Fresh, InSession, InHello, HelloPCs, Goodbye
<1>2. Init => QueueInv
  BY DEF Init, QueueInv, Socket, InHello, HelloPCs, Goodbye, BcastS, DhcpS, Desc
<1>3. QueueInv /\ Inv /\ [Next]_vars => QueueInv'
  BY QueueStep DEF Inv
<1>4. QueueInv /\ Inv /\ [Next]_vars => [B!Next]_<<Peer, Heard>>
  BY RefineStep DEF Inv
<1> QED BY <1>1, <1>2, <1>3, <1>4, InvHolds, PTL DEF Spec, ImplementsBoard, B!Spec

=============================================================================
