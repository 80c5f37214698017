------------------------------ MODULE Capture ------------------------------
(***************************************************************************)
(* The capture path of the ADC board: the trigger interrupt that samples   *)
(* into two buffers (capture.c, trigger.c) and the main loop that hands    *)
(* the buffers to the server's TCP socket (main.c, netprot.c,              *)
(* netprot_commands_startstop.c).                                          *)
(*                                                                         *)
(* The interrupt has the highest NVIC priority, so an activation of        *)
(* capture_isr is one step.  The main loop can be interrupted between any  *)
(* two accesses to a shared variable, so each access is a step of its own. *)
(* FLASH images are built with the highest optimisation level and cur_buf  *)
(* and samples_per_buffer are not volatile: the stores and loads of a      *)
(* function are the set `todo`, taken in any order the compiler may emit,  *)
(* which keeps the volatile ones in program order.                         *)
(*                                                                         *)
(* Data is abstracted to its origin: a sample is the number of the buffer, *)
(* counted from the last START, that it was taken for; 0 is a sample left  *)
(* from before that START.                                                 *)
(***************************************************************************)
EXTENDS Integers, Sequences

CONSTANTS
    SPB,          \* CONFIG_SAMPLES_PER_BUFFER, what START passes to capture_setup
    Hdr,          \* size of struct netstruct's header, in samples
    Delays,       \* values of the CHANNEL DELAY parameter a START can find
    MaxBuffers,   \* bound: buffers completed after one START
    MaxCmds       \* bound: command lines one recv() of 100 bytes can hold

ASSUME CaptureAssumption ==
    /\ SPB \in Nat \ {0}
    /\ Hdr \in Nat \ {0}
    /\ Delays \subseteq Int
    /\ MaxBuffers \in Nat
    /\ MaxCmds \in Nat

VARIABLES
    enabled,            \* the trigger pin interrupts (trigger.c)
    cur_buf, nsample, samples_per_buffer, buf_full, buf_overflow,
    buffers_to_ignore,  \* globals of capture.c
    data,               \* contents of the two sample buffers
    pc, todo,           \* where main is; accesses left of the current function
    buf, ignore_data, invalid, sent, tosend, n,
                        \* locals of netprot_send_capture; invalid: DATA_INVALID
    pkt,                \* units of the current packet given to the TCP stack
    cmds,               \* command lines left of the last recv()
    param,              \* capture_delay->intval read by the current START
    \* History: what the properties speak of.
    delay,              \* delay of the last START
    completed,          \* buffers completed since the last START
    raced,              \* that START came while the trigger was running
    takenAt,            \* `completed` when capture_read last fetched cur_buf
    started,            \* a START was received on this connection
    live,               \* a packet without DATA_INVALID was sent since START
    tail                \* packets taken since the trigger was stopped

isrVars  == <<cur_buf, nsample, buf_full, buf_overflow, buffers_to_ignore, data>>
sendVars == <<buf, ignore_data, invalid, sent, tosend, n, pkt>>
ghosts   == <<delay, completed, raced, takenAt, started, live, tail>>
vars == <<enabled, isrVars, samples_per_buffer, pc, todo, sendVars, cmds,
          param, ghosts>>

Bufs  == {"buf0", "buf1"}
NoBuf == "NULL"
Other(b) == IF b = "buf0" THEN "buf1" ELSE "buf0"
Index == 0 .. SPB - 1
PacketLen == Hdr + SPB
Labels == 0 .. MaxBuffers + 1

PCs == {"down", "poll", "read", "send", "copy", "cmds", "setup", "stop",
        "empty"}

\* volatile stores and loads, in program order; the others have no place here
SetupStores == {"spb", "ignore", "nsample", "full", "cur", "overflow"}
ReadAccesses == {"buf", "full", "ignore"}
SetupOrder == <<"ignore", "nsample", "full", "overflow">>
ReadOrder  == <<"full", "ignore">>

\* x may be executed next: no volatile access that precedes it is left in todo
MayExecute(x, order) ==
    /\ x \in todo
    /\ \A i, j \in DOMAIN order : order[j] = x /\ i < j => order[i] \notin todo

Init ==
    /\ enabled = FALSE
    /\ cur_buf = NoBuf /\ nsample = 0 /\ samples_per_buffer = 0
    /\ buf_full = FALSE /\ buf_overflow = FALSE /\ buffers_to_ignore = 0
    /\ data = [b \in Bufs |-> [i \in Index |-> 0]]
    /\ pc = "down" /\ todo = {}
    /\ buf = NoBuf /\ ignore_data = 0 /\ invalid = FALSE
    /\ sent = 0 /\ tosend = 0 /\ n = 0 /\ pkt = <<>>
    /\ cmds = 0 /\ param = 0
    /\ delay = 0 /\ completed = 0 /\ raced = FALSE /\ takenAt = 0
    /\ started = FALSE /\ live = FALSE /\ tail = 0

-----------------------------------------------------------------------------
(* The trigger interrupt *)

\* index of the first sample of a buffer
FirstIndex1 == 1    \* slip: not the first
FirstIndex == 0

\* nsample reached samples_per_buffer: swap, count down or notice overflow, flag
CompleteBuffer ==
    /\ nsample' = FirstIndex
    /\ cur_buf' = Other(cur_buf)
    /\ IF buffers_to_ignore # 0
       THEN /\ buffers_to_ignore' = buffers_to_ignore - 1
            /\ UNCHANGED buf_overflow
       ELSE /\ buf_overflow' = (buf_overflow \/ buf_full)
            /\ UNCHANGED buffers_to_ignore
    /\ buf_full' = TRUE
    /\ completed' = completed + 1

KeepFilling ==
    /\ nsample' = nsample + 1
    /\ UNCHANGED <<cur_buf, buffers_to_ignore, buf_overflow, buf_full,
                   completed>>

BufferCompleteLate == nsample + 1 > samples_per_buffer    \* slip: > for >=
BufferComplete == nsample + 1 >= samples_per_buffer

CaptureIsr ==
    /\ enabled
    /\ completed < MaxBuffers
    /\ data' = IF nsample \in Index
               THEN [data EXCEPT ![cur_buf][nsample] = completed + 1]
               ELSE data
    /\ IF BufferComplete THEN CompleteBuffer ELSE KeepFilling
    /\ UNCHANGED <<enabled, samples_per_buffer, pc, todo, sendVars, cmds, param,
                   delay, raced, takenAt, started, live, tail>>

-----------------------------------------------------------------------------
(* netprot_send_capture *)

CaptureReadEmpty ==
    /\ pc = "poll" /\ ~buf_full
    /\ pc' = "cmds"
    /\ \E k \in 0 .. MaxCmds : cmds' = k
    /\ UNCHANGED <<enabled, isrVars, samples_per_buffer, todo, sendVars, param,
                   ghosts>>

CaptureReadFull ==
    /\ pc = "poll" /\ buf_full
    /\ pc' = "read" /\ todo' = ReadAccesses
    /\ tail' = IF enabled THEN tail ELSE tail + 1
    /\ UNCHANGED <<enabled, isrVars, samples_per_buffer, sendVars, cmds, param,
                   delay, completed, raced, takenAt, started, live>>

\* buf_full after access x
NeverCleared(x) == buf_full    \* slip: capture_read leaves the flag set
FullAfter(x) == x # "full" /\ buf_full

\* one access of capture_read: *buf = cur_buf; buf_full = 0; *ignore_buffer = ...
CaptureReadAccess(x) ==
    /\ pc = "read"
    /\ MayExecute(x, ReadOrder)
    /\ todo' = todo \ {x}
    /\ buf' = IF x = "buf" THEN cur_buf ELSE buf
    /\ buf_full' = FullAfter(x)
    /\ takenAt' = IF x = "buf" THEN completed ELSE takenAt
    /\ ignore_data' = IF x = "ignore" THEN buffers_to_ignore ELSE ignore_data
    /\ UNCHANGED <<enabled, cur_buf, nsample, samples_per_buffer, buf_overflow,
                   buffers_to_ignore, data, pc, invalid, sent, tosend, n, pkt,
                   cmds, param, delay, completed, raced, started, live, tail>>

LastBlankMissed == ignore_data > 1    \* slip: > 1 for # 0
IsBlank == ignore_data # 0

\* flags, header into the live buffer, tosend = netprot_header_getsize(buf)
HeaderAppend ==
    /\ pc = "read" /\ todo = {}
    /\ invalid' = IsBlank
    /\ live' = (live \/ ~IsBlank)
    /\ sent' = 0 /\ tosend' = Hdr + samples_per_buffer /\ n' = 0 /\ pkt' = <<>>
    /\ pc' = "send"
    /\ UNCHANGED <<enabled, isrVars, samples_per_buffer, todo, buf, ignore_data,
                   cmds, param, delay, completed, raced, takenAt, started, tail>>

\* send() found room for k of the tosend units; its copy of them follows
SendRoom(k) ==
    /\ pc = "send" /\ tosend > 0
    /\ n' = k /\ pc' = "copy"
    /\ UNCHANGED <<enabled, isrVars, samples_per_buffer, todo, buf, ignore_data,
                   invalid, sent, tosend, pkt, cmds, param, ghosts>>

\* what is at offset k of the packet in buf now
Unit(k) == IF k - Hdr \in Index THEN data[buf][k - Hdr] ELSE 0

SendCopy ==
    /\ pc = "copy" /\ Len(pkt) < sent + n
    /\ pkt' = Append(pkt, Unit(Len(pkt)))
    /\ UNCHANGED <<enabled, isrVars, samples_per_buffer, pc, todo, buf,
                   ignore_data, invalid, sent, tosend, n, cmds, param, ghosts>>

\* tosend after send() returned n: tosend -= sent, with the new sent
StaleSent == tosend - sent    \* slip: tosend -= sent before sent += n
Remaining == tosend - (sent + n)

\* send() returns n
SendReturn ==
    /\ pc = "copy" /\ Len(pkt) = sent + n
    /\ sent' = sent + n
    /\ tosend' = Remaining
    /\ pc' = "send"
    /\ UNCHANGED <<enabled, isrVars, samples_per_buffer, todo, buf, ignore_data,
                   invalid, n, pkt, cmds, param, ghosts>>

\* netprot_send_capture returned: its locals are gone
ForgetLocals ==
    /\ buf' = NoBuf /\ ignore_data' = 0 /\ invalid' = FALSE
    /\ sent' = 0 /\ tosend' = 0 /\ n' = 0 /\ pkt' = <<>> /\ takenAt' = 0

\* the loop ends; sent > 0 then, and main goes round without reading commands
SendDone ==
    /\ pc = "send" /\ tosend <= 0
    /\ pc' = "poll"
    /\ cmds' = 0
    /\ ForgetLocals
    /\ UNCHANGED <<enabled, isrVars, samples_per_buffer, todo, param, delay,
                   completed, raced, started, live, tail>>

\* send() or recv() failed: main sets disconnect and goes round
SocketError ==
    /\ pc \in {"send", "cmds"}
    /\ pc = "send" => tosend > 0
    /\ pc' = "stop" /\ cmds' = 0
    /\ ForgetLocals
    /\ UNCHANGED <<enabled, isrVars, samples_per_buffer, todo, param, delay,
                   completed, raced, started, live, tail>>

-----------------------------------------------------------------------------
(* Commands *)

NoMoreCommands ==
    /\ pc = "cmds" /\ cmds = 0
    /\ pc' = "poll"
    /\ UNCHANGED <<enabled, isrVars, samples_per_buffer, todo, sendVars, cmds,
                   param, ghosts>>

\* a command that does not touch capture
CmdOther ==
    /\ pc = "cmds" /\ cmds > 0
    /\ cmds' = cmds - 1
    /\ UNCHANGED <<enabled, isrVars, samples_per_buffer, pc, todo, sendVars,
                   param, ghosts>>

\* the arguments of capture_setup
SwappedArgs(d) == [n |-> d, ignore |-> SPB]    \* slip: swapped
SetupArgs(d) == [n |-> SPB, ignore |-> d]

CmdStart(d) ==
    /\ pc = "cmds" /\ cmds > 0
    /\ cmds' = cmds - 1
    /\ param' = d
    /\ started' = TRUE
    /\ pc' = "setup" /\ todo' = SetupStores
    /\ UNCHANGED <<enabled, isrVars, samples_per_buffer, sendVars, delay,
                   completed, raced, takenAt, live, tail>>

\* buffers_to_ignore = ignore_buffers: the new capture's blanking counts from here
SetupIgnore ==
    /\ pc = "setup" /\ MayExecute("ignore", SetupOrder)
    /\ todo' = todo \ {"ignore"}
    /\ buffers_to_ignore' = SetupArgs(param).ignore
    /\ delay' = param /\ completed' = 0 /\ live' = FALSE /\ raced' = enabled
    /\ data' = [b \in Bufs |-> [i \in Index |-> 0]]
    /\ UNCHANGED <<enabled, cur_buf, nsample, samples_per_buffer, buf_full,
                   buf_overflow, pc, sendVars, cmds, param, takenAt, started, tail>>

\* nsample after store x
NsampleAfter(x) == IF x = "nsample" THEN 0 ELSE nsample

\* the other stores of capture_setup
CaptureSetup(x) ==
    /\ pc = "setup" /\ x # "ignore" /\ MayExecute(x, SetupOrder)
    /\ todo' = todo \ {x}
    /\ samples_per_buffer' = IF x = "spb" THEN SetupArgs(param).n ELSE samples_per_buffer
    /\ nsample' = NsampleAfter(x)
    /\ buf_full' = (x # "full" /\ buf_full)
    /\ cur_buf' = IF x = "cur" THEN "buf0" ELSE cur_buf
    /\ buf_overflow' = (x # "overflow" /\ buf_overflow)
    /\ UNCHANGED <<enabled, buffers_to_ignore, data, pc, sendVars, cmds, param,
                   ghosts>>

TriggerIsrStart ==
    /\ pc = "setup" /\ todo = {}
    /\ enabled' = TRUE /\ tail' = 0
    /\ pc' = "cmds" /\ param' = 0
    /\ UNCHANGED <<isrVars, samples_per_buffer, todo, sendVars, cmds,
                   delay, completed, raced, takenAt, started, live>>

\* STOP stops the trigger and nothing else
CmdStop ==
    /\ pc = "cmds" /\ cmds > 0
    /\ cmds' = cmds - 1
    /\ enabled' = FALSE
    /\ UNCHANGED <<isrVars, samples_per_buffer, pc, todo, sendVars, param, ghosts>>

-----------------------------------------------------------------------------
(* Connection and disconnection, as far as capture sees them *)

Connect ==
    /\ pc = "down"
    /\ pc' = "poll"
    /\ started' = FALSE
    /\ UNCHANGED <<enabled, isrVars, samples_per_buffer, todo, sendVars, cmds,
                   param, delay, completed, raced, takenAt, live, tail>>

DisconnectStop ==
    /\ pc = "stop"
    /\ enabled' = FALSE
    /\ pc' = "empty"
    /\ UNCHANGED <<isrVars, samples_per_buffer, todo, sendVars, cmds, param, ghosts>>

LeftFull == UNCHANGED buf_full    \* slip: capture_set_empty forgotten
CaptureSetEmpty == buf_full' = FALSE

DisconnectEmpty ==
    /\ pc = "empty"
    /\ CaptureSetEmpty
    /\ pc' = "down"
    /\ UNCHANGED <<enabled, cur_buf, nsample, samples_per_buffer, buf_overflow,
                   buffers_to_ignore, data, todo, sendVars, cmds, param, ghosts>>

-----------------------------------------------------------------------------
Main ==
    \/ CaptureReadEmpty \/ CaptureReadFull
    \/ \E x \in ReadAccesses : CaptureReadAccess(x)
    \/ HeaderAppend
    \/ \E k \in 0 .. tosend : SendRoom(k)
    \/ SendCopy \/ SendReturn \/ SendDone \/ SocketError
    \/ NoMoreCommands \/ CmdOther
    \/ \E d \in Delays : CmdStart(d)
    \/ SetupIgnore
    \/ \E x \in SetupStores : CaptureSetup(x)
    \/ TriggerIsrStart \/ CmdStop
    \/ Connect \/ DisconnectStop \/ DisconnectEmpty

Next == CaptureIsr \/ Main

Spec == Init /\ [][Next]_vars

\* The main loop is never descheduled; TCP cannot report a full send buffer for
\* ever: the peer's window opens again or the connection fails.  Nothing makes
\* the trigger pin fire.
SendProgress ==
    \/ \E k \in 1 .. tosend : SendRoom(k)
    \/ pc = "send" /\ SocketError
FairSpec == Spec /\ WF_vars(Main) /\ SF_vars(SendProgress)

-----------------------------------------------------------------------------
(* Properties *)

TypeOK ==
    /\ enabled \in BOOLEAN
    /\ cur_buf \in Bufs \cup {NoBuf} /\ buf \in Bufs \cup {NoBuf}
    /\ nsample \in Nat /\ samples_per_buffer \in {0, SPB}
    /\ buf_full \in BOOLEAN /\ buf_overflow \in BOOLEAN
    /\ buffers_to_ignore \in Int /\ ignore_data \in Int
    /\ data \in [Bufs -> [Index -> Nat]]
    /\ pc \in PCs /\ todo \subseteq SetupStores \cup ReadAccesses
    /\ invalid \in BOOLEAN
    /\ sent \in Nat /\ tosend \in Int /\ n \in Nat /\ pkt \in Seq(Nat)
    /\ cmds \in Nat /\ param \in Delays \cup {0}
    /\ delay \in Delays \cup {0} /\ completed \in Nat /\ takenAt \in Nat
    /\ raced \in BOOLEAN /\ started \in BOOLEAN /\ live \in BOOLEAN
    /\ tail \in Nat

Sending == pc \in {"send", "copy"}

\* The interrupt never writes through a NULL buffer or past the samples of one,
\* although it may fire between any two stores of a START that finds it running.
IsrWritesInBounds ==
    enabled => /\ cur_buf \in Bufs
               /\ samples_per_buffer = SPB
               /\ nsample < samples_per_buffer

\* The send loop, whatever send() accepts each time, never reads past the packet
\* it is sending: neither what it asked for nor what was copied exceeds it.
SendInBounds ==
    Sending => /\ tosend > 0 => sent + tosend <= PacketLen
               /\ Len(pkt) <= PacketLen

\* A server that has not sent START gets no data: a buffer left from an earlier
\* connection never reaches it (trigger_isr_stop, then capture_set_empty).
NoDataBeforeStart == pc = "read" \/ Sending => started

\* Once the trigger is stopped at most one more packet is sent, the buffer that
\* was waiting; STOP itself does not empty it.
OneTailPacket == tail <= 1

\* Both: data goes to a server from its START to one packet after STOP.
DataOnlyWhenStarted == NoDataBeforeStart /\ OneTailPacket

\* Blanking is a prefix of the stream: a packet without DATA_INVALID is sent only
\* when the DELAY of the START was counted down, and no blank one follows it.
BlankingIsPrefix ==
    Sending => /\ ~invalid => delay >= 0 /\ completed >= delay
               /\ live => ~invalid

Samples(p) == {p[i] : i \in Hdr + 1 .. Len(p)}

\* What a packet holds: samples no older than the buffer before the one whose
\* completion announced it, and none of the future.
PacketWindow ==
    Sending /\ ~raced => \A s \in Samples(pkt) : takenAt - 1 <= s /\ s <= completed + 1

\* With a DELAY of two buffers or more, a packet not marked DATA_INVALID holds no
\* sample left in memory from before the START.
LiveDataIsFresh ==
    Sending /\ ~invalid /\ ~raced /\ delay >= 2 => 0 \notin Samples(pkt)

\* Both: how old what a packet holds can be.
PacketIsFresh == PacketWindow /\ LiveDataIsFresh

\* A completed buffer is picked up, or discarded by a STOP, START or disconnection;
\* the send loop of the packet before it does not block main for ever.
CompletedBufferIsPickedUp == buf_full ~> ~buf_full

-----------------------------------------------------------------------------
(* What comments say and the code does not do *)

\* capture.h: "Function to read capture buffer if full": every sample of the
\* returned buffer was taken for the completed buffer, or later.
ReturnedBufferIsFull ==
    pc = "read" /\ todo = {} /\ ~raced => \A i \in Index : data[buf][i] >= takenAt

\* netprot.c: "Loop until all data is sent".
LoopSendsAll == pc = "send" /\ tosend <= 0 => sent = PacketLen
=============================================================================
