# TLA+ verification of the data logger firmware

The repository is the firmware of a small data logger board: a Kinetis K60 that
samples an ADC on a trigger pin (or drives PWM outputs), finds a server on the
network by the UDP broadcasts the server sends, connects to it over TCP, takes
text commands and sends binary capture packets. It runs without an operating
system, on a vendored and locally patched FNET TCP/IP stack. This directory holds
TLA+ models of its core logic, the TLC configurations that check them, and
proofs that TLAPS checks.

    tlc -config MCCapture.cfg MCCapture.tla     # check one model
    tlapm CaptureProofs.tla                     # check one proof module

`PROJECT.json` lists the components, the runs, the source lines of every
definition, the mutations that each property was tried against, the hazards, the
findings and the theorems.

Paths below are relative to `src/Sources/`.

## 1. Inventory

### The program's parts

One thread, `main`, loops for ever. Interrupts come from the trigger pin
(`drivers/trigger.c`), the Ethernet controller and the FNET timer.

| Part | State it keeps | Operations | Interacts with |
|---|---|---|---|
| main loop, `main.c` | `connected`, `disconnect`, `server_s` (all locals) | connect, check for disconnection, send capture, get commands | everything; polls DHCP while it has no server |
| capture, `capture.c` | two buffers, `cur_buf`, `nsample`, `samples_per_buffer`, `buf_full`, `buf_overflow`, `buffers_to_ignore` | `capture_isr` (interrupt), `capture_setup`, `capture_read`, `capture_set_empty` | shared memory between interrupt and main |
| trigger, `drivers/trigger.c` | whether the pin interrupts | start, stop | calls `capture_isr` |
| netprot, `netprot.c` | none but its arguments | hello, connect, goodbye, get_commands, send_capture | sockets, capture, command parser |
| START/STOP, `CommandParser/netprot_commands_startstop.c` | none | set up capture with DELAY, start or stop the trigger | capture, trigger |
| command parser, parameter store, assignment parser, `CommandParser/` | table of objects and attributes, the values of the attributes | dispatch, PING, SET, GET, RESET | called by get_commands, whose `commandstr` and `outstr` they work on |
| binary header, `binary_netprot/` | none | encode, decode | send_capture |
| broadcast listener, `bcast.c` | its UDP socket's receive buffer | set-up, listen, flush | filled by the Ethernet interrupt |
| DHCP wait, `dhcp.c` | `callback_params` on its stack | wait_dhcp, handler_discover, handler_updated | called back by the DHCP client |
| FNET DHCP client, `services/dhcp/fnet_dhcp.c` | state, timestamps, xid, current options | one step of its state machine per poll | `fnet_poll_services` |
| FNET sockets, UDP, `stack/fnet_{socket,udp}.c` | descriptor table, receive buffers | called by main; input from bottom halves | heap, buffers, TCP, IP |
| FNET TCP, `stack/fnet_tcp.c` | per connection: sequence numbers, windows, send buffer, receive buffer, temporary buffer of what came out of order, six timers | connect, send, recv, close from main; segments and timers from bottom halves | sockets, buffers, IP |
| FNET interrupt lock, `stack/fnet_isr.c` | `fnet_locked`, table of handlers with `pended` | lock, unlock, handler, events | every critical section of the stack |
| FNET heap, `stack/fnet_mempool.c` | ring of free blocks | malloc, free | sockets, control blocks, timers, buffers |
| FNET buffers, ARP, IP, timers, Ethernet driver | chains, tables, rings | input, output, timeouts | each other, the heap, the lock |

Not compiled in or never started: IPv6, HTTP, telnet, TFTP, DNS, shell, file system,
ping, the operating system ports.

### What is hard, and what makes each part correct

* **Capture.** The interrupt strikes between any two accesses of main, and the
  compiler may move the accesses that are not `volatile`. Correct: the interrupt never writes
  through NULL or past a buffer; the send loop never reads past the packet; packets go
  only to a server that asked; what is marked valid is fresh; main always comes back.
* **Session.** Servers come and go, answer late or not at all; sockets are closed
  while something is still on its way; errors are known only through return values. Correct:
  one connection at a time and no leak of sockets over any number of them; a live
  connection is never given up, a dead one always; no reconnection to a server that was
  lost and not heard since.
* **Commands.** Lines arrive in pieces that end anywhere; names are compared by their
  beginning; one buffer holds reply after reply. Correct: parameters and trigger follow the
  lines, replies are those of their lines, a cut line does no harm that a line could not do.
* **TCP.** Segments are lost, doubled, overtaken, cut and put together again; timers, windows
  that close and shrink, and allocations that fail, in any order. Correct: both directions are
  streams; nothing is acknowledged that is not there; nothing waits without a timer.
* **Interrupt lock.** A counter that is incremented by a load and a store, flags
  that interrupts set and the unlock clears, nested interrupts. Correct: no level is lost,
  no bottom half runs inside a section of another, no work is forgotten; what needs the lock is called with it.
* **DHCP.** Two sets of timers and two retry counters that know nothing of each other;
  polling that stops for the length of a session. Correct: the wait ends, an expired
  address is given up, a board without an address goes on asking.
* **Heap.** Long sequences of legal calls, a ring of pointers in the memory
  it manages. Correct: blocks tile the heap, free ones are joined, calls return.

The `hazards` of `PROJECT.json` give the lines where these bite, and for each the
properties that cover it or why none does yet.

## 2. Modules

| Module | Models | Theorems |
|---|---|---|
| `Capture` | capture, trigger, START and STOP, `netprot_send_capture`, and the loop around them | `CaptureProofs` |
| `Session` | main loop, hello, goodbye, connect, flush, get_commands, over the socket layer | `SessionProofs` |
| `Board` | what the session promises its servers: the abstract specification `Session` implements | in `SessionProofs` |
| `Commands` | get_commands and the command parser: lines, replies, parameters, on a board that captures | `CommandsProofs` |
| `Tcp` | a client connection of FNET's TCP, the network, and the server's TCP (external) | `TcpProofs` |
| `Stream` | what TCP promises for one direction: the abstract specification `Tcp` implements in both | in `TcpProofs` |
| `IsrLock` | the interrupt lock and the critical sections that use it | `IsrLockProofs` |
| `Dhcp` | `wait_dhcp`, the DHCP client, and when main polls it | `DhcpProofs` |
| `Mempool` | the heap | `MempoolProofs` |
| `Loops` | induction, and that a recursive function has the equation it was given: used by the proofs | its own |
| `MC*` | constants for TLC | |

`Capture`, `Session` and `Commands` split the main loop: each abstracts what the others detail. In
`Session` a packet is ready or not and a command line gets a reply; in
`Capture` the connection comes and goes and a command is START, STOP or another; in `Commands` the
bytes of a connection come in pieces until it ends. All three take from the socket layer
what `Tcp` shows of it: `send()` accepts a part, `recv()` returns a part, in order, and an end.

### Capture

One activation of `capture_isr` is one step, `CaptureIsr`: its NVIC priority is the highest, so
nothing interrupts it. Main takes one step per access to a variable it shares with the
interrupt. `capture_setup` and `capture_read` are sets of accesses, `todo`: FLASH images are built
with the highest optimisation level, and the accesses are executed in any order that keeps
the `volatile` ones in program order (`MayExecute`). The program leaves that order open, so
the model does.

Data is abstracted to its origin. A sample is the number of the buffer it was taken for,
counted from the last START; 0 is a sample left from before. That is all that is needed to say
what a packet contains. `send()` first takes what fits in TCP's send buffer (`SendRoom`) and then copies
(`SendCopy`), unit by unit: the interrupt may complete buffers meanwhile.

History variables: `delay`, `completed`, `raced` (the START found the trigger
running), `takenAt`, `started`, `live`, `tail`. `MaxBuffers` bounds `completed` and `MaxCmds` the
command lines of one `recv()`; the actions have no other bound.

### Session and Board

The variables are FNET's table of descriptors, `sock`, the listener's `queue` and main's own
locals. A step of main is one call into the stack; `Broadcast`, `Established`, `Dropped`,
`FinReceived` and `DataReceived` are what bottom halves do in between. A socket keeps `fin` and the
number of `recv()`s that can still return data, `rx`, as FNET reports the end of
a connection only when everything received was read. `server_s` starts with any value of
`Garbage`: main does not initialize it. `lingering` counts TCP sockets closed with a FIN
rather than a reset, which outlive their descriptor; the code sets SO_LINGER to avoid them.

`Board` has two variables, the server the board is connected to and the servers it has
heard since it lost the last one. The refinement maps them to

* `Peer`: the server of the broadcast acted on, from the hello being accepted to
  the disconnection being decided on,
* `Heard`: the broadcasts that arrived after the last disconnection and are queued or
  being acted on. The field `old` of a queued broadcast marks those that did not, until a flush ends without them.

### Commands

A line is a sequence of tokens: words, signs, digits, quotes. `Receive` is one `recv()` of up to
`CommandStrLen` tokens, cut by `strtok`; each line left in `todo` is then one step of its
command together with the `send()` of its reply, which takes all of it, a part of it, or fails. `Longer`
are the words that begin with a name of a table, of verbs, objects or attributes: the code takes them for that name, and what follows
begins inside the word. A number is decimal, octal or hexadecimal by its beginning (`Base`), as `strtol` with base 0 reads it; a string
is letters, digits and spaces only (`Closing`). RESET goes on in BOARD's table behind its end; what it meets there may overwrite
BOARD's entry, `lost`. The
build is the ADC board's; the other one's START does not compile.

History: `log` has the lines handled and the connections that ended, `answers` their replies. The
server's intention is the constant `Meaning`, written by hand for every line and
independent of the parser: `DoesWhatWasMeant` compares the two. From the first line that a `recv()` cut
(`cut`) lines no longer correspond to the server's, and only `NothingInvented` and `TableIsSound` speak.

### Tcp and Stream

`b` is the socket with its control block, in the source's names. A function of `fnet_tcp.c` is an operator
from a control block to one, so that `dataprocess` reads as the code does: acknowledgment, data, answer, more
data, timers. The field `sent` gathers the segments it sends, `owes` the acknowledgment flags on its stack,
`memory` whether its allocations succeed; all three are reset between actions. An action is a call by main,
a segment that arrives or a timer that runs out: each runs under the lock that `IsrLock` models.

The network is a set of segments each way. What is in it may arrive any number of times, or never, until
later segments take its place: that is loss, duplication and reordering. Times are left open: a timer
that is on may run out. The server's TCP is external: it takes what continues what it has, answers with
whatever window it likes, sends its bytes cut in any way its window allows and in any order, probes a closed window,
closes, and resets.

Where the code leaves something to chance the model does too: the PSH flag is read after the
header was trimmed (`fnet_tcp.c:2110`), so whether a segment with data is acknowledged at once is left open. Sequence
numbers are `% SeqSpace`; both buffers together stay below an eighth of it (`TcpAssumption`), as they do in the code
with 2^32. A segment may wait in the network for ever, which a real one does not, so that a number must not be used for
two bytes: `OutLen + 1 < SeqSpace`. The code relies on segments not living as long as it takes to go once around.

Left out: the RST with which the board answers a wrong acknowledgment while it waits for the server's SYN (`fnet_tcp.c:1625-1649`; the model
stays silent: the connection is not yet there and the server's other one is no part of it), listening, simultaneous open, a close with FIN (SO_LINGER is 0 on this board, so close resets), urgent data
(`FNET_CFG_TCP_URGENT` is 0), the round-trip estimates, and the guard `cwnd < FNET_TCP_MAX_BUFFER`, out of
reach of the bounds.

`Stream` numbers the bytes of one direction: the reader gets the next ones, and the end behind the
last. `OutgoingIsStream` maps it to what `send()` accepted and the server has, `IncomingIsStream` to the
server's bytes and what `recv()` returned.

### IsrLock

There is one call stack. A frame is a routine and where it is: an interrupt handler, an
`fnet_isr_unlock`, or a *script*, the critical sections of main or a bottom half (`lock`, `unlock`), their work
(`serve`) and the frames they send (`output`, `fnet_fec_output`). `fnet_locked++` is a load into the frame's register and a store. `Interrupt` pushes
a handler wherever the NVIC priorities allow it (`Preempts`). The scripts are taken
from the Ethernet receive handler, IP input, ARP and the software timers; the timer's
and ARP's hold no lock, as in the code. `work` is a ghost: what the interrupts leave to
be done.

Main's script begins with `Notify`, the ARP request by which the DHCP client announces an address it set. The
code takes no lock for it: `fnet_os_mutex_lock()` is empty. All other sends of main, `fnet_udp_snd` for DHCP's own
messages among them, hold `fnet_isr_lock`. `Exclusion` therefore speaks of critical sections and bottom halves, and what
becomes of main's frame is a run of its own, isr_output. Main also reads and writes single fields of the interface and
of sockets without the lock; these are not modelled, nor are the sections that the announcement's own allocations open and close.

Two comments of `fnet_isr.c` say a little more than the code does, without consequence:
`fnet_isr_unlock` does not simply return when `fnet_locked` is 0 but decrements it (no caller does that), and
it does not execute *all* pended handlers: one pended behind the scan waits for the next unlock.
`WorkIsDone` shows that the next unlock serves it.

### Dhcp

A message is one that passed the checks of `fnet_dhcp_receive_message`; the network returns any one at
any time, or none, or an error. Timestamps are their ages in ticks. `Poll` is one call of
`fnet_poll_services`, hence one step of the state machine together with the callbacks it makes and the
counting of `wait_dhcp`. `phase` says what main is at: it polls in `wait_dhcp`, in every round
without a server, and once more in the round in which it connected.

Assumed of ACKs (`Sane`): T1 <= T2 <= lease, where given. Not reached on this board and left out:
INIT-REBOOT, REBOOTING and RELEASE. After `wait_dhcp` returned its callbacks are still registered and write to a stack
frame that is gone; the model leaves them without effect.

### Mempool

Memory is counted in units of a block header, and a block is named by its header's place. `size`
and `next` are the headers, including those that are stale, as the code would read them. Each turn of the
loops of malloc and free is a step; both hold `fnet_isr_lock`, so
they exclude each other. `held` are the blocks the callers hold. The alternative first-fit
allocator and the debugging code are not compiled.

## 3. What the runs check

Deadlock is checked in every run but those of `Commands` and `Tcp`, whose behaviours end: with the last line
of the bound, and with the connection.

Each run takes seconds to a few minutes, and is large enough for the cases that matter.

**capture** (184 204 states). Two samples a buffer behind a header of one unit; delays
-1, 0, 1, 2; four buffers; two commands. A packet of three units can be
accepted in up to three pieces, with two interrupts' worth of buffers completing between them; four buffers
are enough to blank two, announce two and overrun one.
* `IsrWritesInBounds`: although START rewrites the interrupt's variables while it runs.
* `SendInBounds`; `DataOnlyWhenStarted`: no packet before the START (`NoDataBeforeStart`), one at most
  after a STOP (`OneTailPacket`).
* `BlankingIsPrefix`: no blank packet follows a valid one.
* `PacketIsFresh`, two parts. `PacketWindow`: samples are no older than the buffer before the announced one, and
  `LiveDataIsFresh`: with a delay of two or more nothing from before the START is
  sent as valid. `PacketWindow` is as strong as the code allows: see `capture_read_full`.
* `CompletedBufferIsPickedUp` (liveness).

**capture_read_full, capture_send_all** show two disagreements, see below.

**session** (58 882 states). Two servers, four descriptors of which DHCP and the listener have
two, any initial `server_s` in and around the table, three queued datagrams, which may be junk or end the flush. Two free descriptors are
enough to leak one; three queued broadcasts hold both servers and a repeated one.
* `OneTcpSocket`, `NeverDropsLiveConnection`,
* `ImplementsBoard`: the refinement of `Board`. There is one way in which a board connects to a server not heard since: the
  datagrams `Big` end the flush, those larger than the 100 bytes of `bcast_flush`, for which FNET returns SOCKET_ERROR, and empty
  ones, for which it returns 0. `bcast_flush` stops there (`bcast.c:173`), and what is queued behind survives the
  flush that "prevents reconnection to dead server" (`bcast.h:48`). The model takes what survives so for heard
  again (`Rest`), and `ImplementsBoard` says that nothing else does. (An empty datagram is queued only if the word at address
  0x14 is small, as its header was all there was and `fnet_socket_buffer_append_address` reads a length through NULL; the
  model need not tell, as a datagram that is dropped is one that was never sent.)
* `DropIsNoticed`, `FinIsNoticed` (unless packets keep main from reading for ever), `ServerIsTried` (unless the first hello
  closed the listener, finding 7).

**commands** (915 880 states). Every pair of 27 kinds of lines, or one and a disconnection: well-formed, refused, unknown, names at and
over the limit, a name that spells a command, a sign inside a name, octal, hexadecimal and negative numbers, longer words for
verbs, objects and attributes. A `recv()` returns up to
nine tokens: the longest line fits alone, short ones in twos. Two lines are enough for every
effect of one line on another, as a line depends on what the earlier ones left in the parameters and in `outstr`.
* `DoesWhatWasMeant`, `AnswersAreOwn`, `NothingInvented`, `TableIsSound` (`ReadOnlyKept` and `NameFits`).

**tcp_out** (489 301 states). The board sends four bytes in segments of two; the server offers windows of zero and
three, so that a segment and a half fit, and takes them back; every allocation may fail. One segment under way in each direction: older ones
are lost, or arrive again before they are. Initial sequence numbers lie two below the wrap.
* `OutgoingIsStream`; `NeverStuck`: unacknowledged data keeps a timer; `AcksAreAcceptable`: what the server
  acknowledges is never refused; `WindowRespected`.

**tcp_in** (218 370 states). The server sends five bytes and a FIN to a receive buffer of four and a
temporary buffer, in every cut and order, and both kinds of RST.
* `IncomingIsStream`; `AcknowledgedIsThere`, also for bytes that waited out of order; `WindowReopens`: an application that
  has read everything leaves the server a window.

The directions are separate runs, as their product is out of TLC's reach: the board's
data in CLOSE_WAIT and acknowledgments that ride on data are not explored together with incoming data.

**tcp_keepalive** is tcp_in with an application that reads one byte at a time, so that room is free that was not announced
yet: a keep-alive announces it, and a byte is lost. In tcp_in most
reads free half of the buffer, which is announced at once; a read of one byte that was left is not, so a probe may announce it
there too, but the five bytes end before the window that is remembered.

**isr_lock** (4 379 states). Main sends without the lock, then nests two sections; both vectors and their events strike
anywhere. Depth two distinguishes the topmost unlock from an inner one; the stack itself is unbounded and
stays finite because of the priorities. `Balanced`, `Exclusion`, `WorkIsRemembered`, `WorkIsDone`.
`Exclusion` keeps interrupts' bottom halves out of main's critical sections and out of each other, those that hold no
lock included; it says nothing of what main does without the lock.

**isr_output** checks `OutputIsNotReentered` on the same instance: finding 4.

**dhcp** (11 873 states). Two tries, timeouts in the order of the code's, leases below, within and above the
bounds the client clamps to, an infinite one, ages up to past every timeout.
`AddressIffBound`, `ExpiredIsDropped`, `WaitEnds`, `KeepsAsking`.

**mempool** (141 902 states). Eleven units and requests of two, four and six: up to five held
blocks, every order of frees, exact fits of inner blocks. As the heap is odd and the
requests are even, its lowest block is never taken whole. On such a heap `Tiled`,
`Coalesced`, `BestFit` and `CallsReturn` hold. That block is what the allocator relies on in
place of the base block of size zero that K&R's allocator has.
On an even heap of eight units, which two requests of four use up, `Tiled` fails: finding 5.

### Findings

With a run:

1. `capture_read` returns the buffer the interrupt is filling, not the one it completed
   (`capture.c:84`, run capture_read_full). With a slow enough trigger a packet is a buffer
   started and never finished on top of one two completions old.
2. The send loop subtracts the running total from what is left (`netprot.c:241`, run capture_send_all): after two partial
   sends the rest of the packet is dropped, and the server reads the next header where
   samples should be.
3. A keep-alive probe announces the free room without remembering it (`fnet_tcp_ktimeo`, `fnet_tcp.c:3041`, run tcp_keepalive). A last segment
   that fills the window so announced is cut at the window remembered, but keeps its FIN (`fnet_tcp.c:1548-1555`), which is taken behind the bytes
   that are left: those cut off are lost, and `recv()` reports the close early.

4. `fnet_fec_output` fills the descriptor at `tx_buf_desc_cur` and moves on, which must not be interrupted by another one; its own
   check says so (`fnet_fec.c:731-738`). Main calls it without the lock when the DHCP client sets the address and it is announced by
   ARP: `fnet_dhcp.c:930`, `fnet_netif.c:497-548` under `fnet_os_mutex_lock()`, which is empty (`fnet_os.h:54`),
   `fnet_eth.c:371-375`, `fnet_arp.c:412-439`. An interrupt there runs its bottom half, which may send (run isr_output).

Met while modelling; no run is kept for them:

5. When the only free block fits a request exactly malloc leaves it on the free list
   (`fnet_mempool.c:250`): it is handed out again, and freeing it loops for ever. For the
   same reason, no base block, freeing a block right below the only free one leaves
   `free_ptr` at a header inside the joined block (`fnet_mempool.c:182-202`).
6. The last of the DELAY blank buffers is sent as valid data (`capture.c:70`): `completed > delay` fails for it.
7. The first `netprot_hello` closes the socket that the uninitialized `server_s` names
   (`netprot.c:62`, `main.c:27`): the broadcast listener's, or DHCP's.
8. `wait_dhcp` may time out before the link-local address it waits for (`dhcp.c:27`), when an attempt
   gets as far as an offer.
9. `netprot_cmd_get` terminates its reply at `out[outlen]`, one past the length it was given
   (`netprot_commands_setget.c:92`), and `netprot_get_commands` terminates a full `commandstr` one past its end
   (`netprot.c:128`).
10. RESET's index is not reset for the second object (`netprot_commands_setget.c:145`): it walks on behind BOARD's table.
11. A line that is no command is answered with the reply of the line before, or with what the stack held (`netprot.c:116`).
12. A server that probes a closed window, or ignores it, can fill the receive buffer past its limit: the window is not
    made smaller by data that is taken, only when the next acknowledgment leaves (`fnet_tcp.c:2673-2701`).
13. RST with ACK is ignored except in SYN_SENT, where it closes the socket whatever it acknowledges (`fnet_tcp.c:1560-1571`);
    after an allocation failure the keep-alive timer stays off (`fnet_tcp.c:3039`).
14. TCP deletes a repeated segment from the temporary buffer by moving on to the next one and then
    takes *its* size off the count, or what lies at address 0 if there is none (`fnet_tcp.c:2360`), against `fnet_tcp.h:341`, "Size of data in the
    temporary buffer". The count is unsigned and is never put right: data that comes out of order is then refused to the end of the connection.

Smaller ones: `netprot.h` says that send_capture returns 0 for success, it returns the number of
bytes; `fnet_malloc_max` is described as the largest chunk that can be allocated, but counts
the header in (`fnet_mempool.c:385`); `dhcp.h` says that the client stops after n failed tries, `dhcp.c:89` leaves it running.

### Fairness

Main is the one thread and never waits for a lock: `WF(Main)` in `Capture` and `Session`,
`WF(Poll)`, `WF(WaitReturns)` and `WF(Tick)` in `Dhcp`, `WF(Work)` in `Mempool`. Nothing makes
triggers fire, servers send or connections break. `Commands` and `Tcp` are checked for safety only: a fairness
condition over `Tcp`'s large actions is out of TLC's reach. That the connection does not stop is covered by
what would stop it: data without a timer (`NeverStuck`), refused acknowledgments
(`AcksAreAcceptable`), a window that stays closed (`WindowReopens`). Two assumptions are stronger:
* `Capture`, `SF(SendProgress)`: TCP does not report a full send buffer for ever, as the
  peer's window opens or the connection fails.
* `IsrLock`, `SF` of each context's steps: an interrupt leaves, again and again, the routine it
  interrupts. Without it a storm of interrupts would stop main.

## 4. What is proved

TLAPS checks 429 lemmas and theorems (16635 obligations) without assumptions on the sizes of the
instances other than those the modules state (`CaptureAssumption`, `SessionAssumption`,
`DhcpAssumption`, `CommandsAssumption`, `TcpAssumption`, `DepthAssumption`, `MempoolAssumption`). An invariant is proved as `Init => Inv`, `Inv /\ [Next]_vars => Inv'`
and `Inv => property`.

**CaptureProofs**: all six invariants of run *capture*, for any buffer and header size,
any set of delays, any number of buffers. The property alone is not inductive; the parts added are
* `TriggerInv`: while a `capture_setup` is under way, which stores are done decides what is
  known; a raised `buf_full` shows that there was one.
* `StartInv`, `TailInv`: what can be enabled or full where, and not yet counted.
* `SendInv`: what was asked for and what was copied add up.
* `BlankInv`: `buffers_to_ignore` is the delay counted down, below zero for a negative one.
* `DataInv`, `TakenInv`, `PacketInv`: what the two buffers hold at any time
  (`Contents`), hence the fetched one, hence the packet.

**SessionProofs**: types, `OneTcpSocket`, `NeverDropsLiveConnection` for any number of servers,
datagrams and descriptors. `ControlInv` ties main's position to `connected`, `disconnect` and the caller of goodbye;
`SocketInv` says that the one TCP socket is `server_s`, which is reset when closed;
`LossInv` that a loss main acts on lasts. `Refinement` proves `Spec => B!Spec` with `QueueInv`: stale
broadcasts are in the queue only while main leaves a server.

**DhcpProofs**: types, `AddressIffBound` and `ExpiredIsDropped` for any timeouts in the order that
`DhcpAssumption` asks for and any sane leases. `Ordered` says that T1 <= T2 <= lease after the
client's own clamping; `OutlivedInv` that each poll that leaves an expired address in place has moved
the client one state towards INIT.

**CommandsProofs**: all five invariants of run *commands*, for any lines and longer words, any widths of the tokens and
any size of the buffer.
* `Arrived` and `Framed`: what is in the stream ends where a line ends or the connection was cut, and the lines in hand
  followed by those still in the stream are the ones sent and not yet handled. This is what one `recv()` of any
  piece keeps (`Pieces`), `WholeLine` and `NextLine` say it of a line sent and a line handled.
* `Kept`: the table has its entries, its name fits, and TYPE is BOARD's. `Accepted` and `EffectOfLine` reduce what the
  parser does with a line, token by token, to one assignment or none.
* `Logs`: one reply to each line. `ExpectedOfLine` and `ReplyIsExpected` tie it to the meaning of its own line.
* `Parts`: every stretch of the stream between two ends of lines is a stretch of one line that was sent, so that what
  is handled after a cut is one as well.

`TypeAlways`, `ReadOnly` and `TableAlwaysSound` need nothing more. `DoesWhatWasMeantAlways` and `AnswersAreOwnAlways` are about
lines for which `Understood` holds: the constant `Meaning`, what the server means by a line, is what the protocol
says of it (`Sense`, written without the parser: command, object, attribute, value). `NothingInventedAlways` asks for
`NoneInside` too: no line has an assignment behind its beginning, as a name that holds one would be as good as any when
cut. TLC evaluates both to true for the lines of run *commands*. `CommandsAssumption` asks that no
word that is cut when stored is a verb or the name of an attribute.

**TcpProofs**: for any sizes of buffers, segments and the sequence space, any windows, and any network. Of the sending half
`WindowRespected`, `NeverStuck`, `AcksAreAcceptable`, and that `Tcp` implements `Stream` from the board to the
server (`OutgoingIsStream`), so that what the server has is always the beginning of what `send()` accepted (`TcpOutgoingInOrder`).
Of the receiving half `TypeOK` and `WindowReopens` in all behaviours; and `AcknowledgedIsThere`, and that `Tcp` implements
`Stream` towards the board (`IncomingIsStream`), under two conditions:
* `Quiet`: a keep-alive probe announces no more than `tcpcb_rcvwnd`. Where one does, both can be false: finding 3, run *tcp_keepalive*.
  So the theorems say that this probe is the only way in which the board loses bytes, or acknowledges what it does
  not have.
* `Short`: the server's bytes, SYN and FIN are at most an eighth of the sequence space. The model's network may bring a
  segment of any age, and `FNET_TCP_COMP_G` would take one from more than that behind for one ahead. Segments of
  the real network die before that many bytes have passed.

So what the application has read is always the beginning of what the server wrote, and all of it when it is told of the end
(`TcpIncomingInOrder`). The argument:
* The comparisons of sequence numbers: `fnet_tcp_hit` tells whether a number is in an interval wherever zero lies,
  `fnet_tcp_getsize` is the distance, `FNET_TCP_COMP_G` holds up to an eighth of the space above and never both ways. From
  then on a byte is known by its distance from the initial number, `Rank`.
* What each function does to a socket is a relation between the socket before and after, from the inside out: `Sends`
  (`senddataseg`, `sendack`), `Fills` (`sendanydata`, `send()`'s loop), `Receives` (`addinpbuf`), `Acks`
  (acknowledgments), and `Passes` and `Goes`, which are what they have in common and compose. `DataprocessRuns` puts them together for
  `fnet_tcp_dataprocess`, `InputskOutcome` for `fnet_tcp_inputsk`: the connection runs on, is closed, or answers.
  Loops are recursive functions; that they exist is proved from their definition (`BurstDef`, `PushedDef`).
* The inductive invariant `IInv`: `Running`, that what is under way is within the window and has a timer, that what waits has
  one, and that a closed window is probed only for data; `Side`, that the send buffer holds the bytes from the first
  one not acknowledged to the last accepted, and that the server's own acknowledgment lies among those ever sent; and
  about every segment in the network `Carries`, that its data are the bytes its number stands for and were accepted, and
  `WasSent`. Without `maxrcvack` in `Side` it would not be inductive: `sndseq` goes back when the window shrinks or a timer runs out,
  while what was sent is still under way. There is one lemma per action.
* Of the receiver two things are kept. `Shapes` gives every field its type, and says that an empty buffer has a window. `Reading` is
  `Phase` (nothing before the connection, `Receiver` while it lasts, the rest of the buffer after it) and that every segment
  for the board that is not RST or SYN holds the bytes its number stands for, and FIN only behind the last.
  Places in the server's stream are `From`, the distance from its first number.
* `Receiver` is what makes `IncomingIsStream` inductive: the buffer continues what was read, `sndack` is behind both, the segments that wait
  out of order are the server's, and every window that was announced, whether the server knows it yet or the
  announcement is under way, is still open (`Opens`): both in `rcvwnd`, which cuts what arrives, and in the
  room there is. Without `Opens` a FIN could be taken behind bytes that were cut off.
* Each function of `fnet_tcp.c` keeps both, whatever happens (`Keeps`) or if the segment at hand is such a one
  (`Gets`, `Results`), again from the inside out; `DrainingKeeps` is the loop over the chain, by induction. There is again one lemma per action.

**IsrLockProofs**: `Balanced`, `Exclusion` and `WorkIsRemembered` for any depth to which main nests its critical
sections, with its send that holds no lock among the steps that interrupts may fall on. None is inductive; `Coherent(s, l)` says of the whole call stack `s` and counter `l` what they need:
* `StackInv`, `CallInv`: main is at the bottom only, a frame's position says what it called, and
  the frame above is that, or the handler of an interrupt.
* `PriorityInv`: an interrupt handler has a higher priority than every handler it interrupted, directly or not.
* `LevelInv`: the counter is the sections that are open below the frame which is about to change it, so that the value an
  interrupted `fnet_isr_lock` has loaded is still right when it stores it.
* `QuietInv`: a bottom half that an interrupt runs found the counter zero before it, so that
  nothing under it is inside a section.

Its lemmas say how the count of open sections moves when a frame is replaced, pushed or popped (`Replaced`, `Pushed`,
`Popped`).

**MempoolProofs**: `Tiled`, `Coalesced` and `BestFit`, for a heap of any size and any requests, in behaviours that never take
the lowest block whole (`KeepsLowest`): where one does, `Tiled` is false, finding 5. `LowestIsKept` shows that all
behaviours are such when no requests add up to the heap, which holds of run *mempool*.
* `Ring`: `next` leads from each free block to the one that follows it, and from the last to the one at 0. The free list
  of the model is what can be reached from `free_ptr`; `RingIsList` shows that it is then the ring, wherever
  `free_ptr` is, by the distance from it.
* `Tiles`, that blocks cover the heap without overlapping, counting the one that free has in hand; `Apart`, that free ones do not touch.
* `MallocInv`: malloc's choice is the best of the free blocks passed since `free_ptr` (`WalkBegins`, `WalkGoesOn`, `WalkEnds`).

malloc and free come down to `Link` and `Unlink` on the ring, `Split` and `Merge` on the blocks: free links the block, joins the next one to it, and it
to the one before.

**Loops**: induction over numbers and the existence of recursive functions, on which the other proofs about
loops rest (`Induction`, `Recursion`).

Only model-checked: all liveness (`WorkIsDone` of `IsrLock` and `CallsReturn` of `Mempool` among it), which rests on
fairness and so on `ENABLED`; and what run *tcp_in* adds to the theorem: behaviours of its five bytes whose probes are not quiet. Every
invariant and every action property of the passing runs is a theorem.

## 5. Not modelled, and the plan

Not modelled: register-level drivers, start-up code, packet formats, IPv6 and the services the board does not
start: vendor code that is not compiled or that no state of the board's own logic depends on. It is by far the largest part of
the repository.

Planned, in this order:

1. `Arp`: the table with one waiting packet per entry and its timer, which holds no lock while it walks the
   table; composed with the sections of `IsrLock`.
2. `Netbuf`: chains, trimming, reference counts, and allocation with drain over `Mempool`.
3. Operators for the binary header's encode and decode, with the round trip.
4. `Timers` and `TxRing`: the list of software timers; the Ethernet driver's transmit ring, and what a send that is entered again
   makes of it.
5. `Tcp` with both directions and time, to say how long a silent server goes unnoticed.
6. `DhcpServers`: servers that grant addresses, to state that no two boards share one.

Proofs worth adding: an abstract specification of the capture stream, numbered packets with gaps, that `Capture` implements.
