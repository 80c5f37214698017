-------------------------------- MODULE Dhcp --------------------------------
(***************************************************************************)
(* How a board gets and keeps its address: wait_dhcp (dhcp.c), called once *)
(* by main, and the DHCP client it polls (fnet_dhcp.c), which main goes on *)
(* polling in every round that begins without a server.                    *)
(*                                                                         *)
(* The servers and the network are what recvfrom() returns: any message,   *)
(* late, repeated or none.  A message here is one that passed the checks   *)
(* of fnet_dhcp_receive_message.  Time is what the two timestamps of the   *)
(* client are compared with: their ages, in ticks.                         *)
(***************************************************************************)
EXTENDS Integers

CONSTANTS
    Tries,           \* CONFIG_DHCP_TRIES
    SelectTimeout,   \* FNET_DHCP_STATE_SELECTING_SEND_TIMEOUT
    RequestSend,     \* FNET_DHCP_STATE_REQUESTING_SEND_TIMEOUT
    RequestTimeout,  \* FNET_DHCP_STATE_REQUESTING_TIMEOUT
    RenewSend,       \* FNET_DHCP_STATE_RENEWING_SEND_TIMEOUT, and REBINDING's
    LeaseMin, LeaseMax,
    Infinity,        \* FNET_DHCP_LEASE_INFINITY
    Grants,          \* options of the ACKs; 0 stands for an absent T1 or T2
    MaxAge           \* bound: ages stop here, past every finite timeout

Leases == [lease : Nat, t1 : Nat, t2 : Nat]

Sane(g) ==
    /\ g \in Leases /\ g.t1 <= g.t2
    /\ g.lease = Infinity \/ (g.lease \in 1 .. MaxAge - 1 /\ g.t2 <= g.lease)

ASSUME DhcpAssumption ==
    /\ Tries \in Nat
    /\ SelectTimeout \in Nat \ {0} /\ RequestSend \in Nat \ {0}
    /\ RequestTimeout \in RequestSend .. MaxAge - 1
    /\ RenewSend \in 1 .. LeaseMin /\ RequestSend <= LeaseMin
    /\ LeaseMin \in Nat \ {0} /\ LeaseMax \in LeaseMin .. MaxAge - 1
    /\ MaxAge \in Nat /\ Infinity \in Nat /\ Infinity > MaxAge
    /\ \A g \in Grants : Sane(g)

VARIABLES
    phase,        \* of main: in wait_dhcp, without a server, with one
    cb, cur_try,  \* callback_params of wait_dhcp: state and cur_try
    state,        \* dhcp->state
    retries,      \* in_params.retries_until_link_local
    addr,         \* address of the interface
    lease,        \* lease_time, t1 and t2 of current_options
    sinceSend,    \* age of send_request_time
    sinceLease,   \* age of lease_obtained_time
    late          \* history: polls the address has outlived its lease by

client == <<state, retries, addr, lease, sinceSend, sinceLease>>
waiter == <<cb, cur_try>>
vars == <<phase, waiter, client, late>>

Phases == {"wait", "idle", "connected", "lastpoll"}
States == {"DISABLED", "INIT", "SELECTING", "REQUESTING", "BOUND", "RENEWING", "REBINDING"}
Addrs  == {"none", "leased", "linklocal"}
Forever == [lease |-> Infinity, t1 |-> Infinity, t2 |-> Infinity]

\* main calls wait_dhcp: fnet_dhcp_init, unless it fails, then the callbacks
Init ==
    /\ \/ phase = "wait" /\ state = "INIT"
       \/ phase = "idle" /\ state = "DISABLED"
    /\ cb = "WAITING" /\ cur_try = 1
    /\ retries = Tries
    /\ addr = "none"
    /\ lease = Forever
    /\ sinceSend = 0 /\ sinceLease = 0
    /\ late = 0

-----------------------------------------------------------------------------
(* fnet_dhcp_change_state *)

SendTimeout(s) == CASE s = "SELECTING" -> SelectTimeout
                    [] s = "REQUESTING" -> RequestSend
                    [] OTHER -> RenewSend

StateTimeout(s) == CASE s = "REQUESTING" -> RequestTimeout
                     [] s = "BOUND" -> lease.t1
                     [] s = "RENEWING" -> lease.t2
                     [] s = "REBINDING" -> lease.lease

RetryRebinding(s) ==    \* slip: a lease that ran out is renewed once more
    CASE s = "BOUND" -> "RENEWING" [] s = "REQUESTING" -> "INIT" [] OTHER -> "REBINDING"
NextState(s) ==
    CASE s = "BOUND" -> "RENEWING" [] s = "RENEWING" -> "REBINDING" [] OTHER -> "INIT"

\* the interface's address in INIT
AddrKept == addr    \* slip: fnet_netif_set_ip4_addr(netif, 0) forgotten
InitAddr == "none"

EnterInit ==
    /\ state' = "INIT" /\ addr' = InitAddr
    /\ UNCHANGED <<lease, sinceSend, sinceLease>>

\* RENEWING and REBINDING, which send a REQUEST, SELECTING, which sends a DISCOVER
EnterAsking(s) ==
    /\ state' = s /\ sinceSend' = 0
    /\ UNCHANGED <<addr, lease, sinceLease>>

EnterRequesting ==
    /\ state' = "REQUESTING" /\ sinceSend' = 0 /\ sinceLease' = 0
    /\ UNCHANGED <<addr, lease>>

Enter(s) == IF s = "INIT" THEN EnterInit ELSE EnterAsking(s)

-----------------------------------------------------------------------------
(* The callbacks; after wait_dhcp its frame, and what they write to, is gone *)

SameTry == cur_try    \* slip: ++ forgotten
NextTry == cur_try + 1
MoreThanTries == cur_try > Tries + 1    \* slip: one try too many
TriesUsed == cur_try = Tries + 1

HandlerDiscover ==
    IF phase = "wait"
    THEN IF TriesUsed
         THEN cb' = "TIMEOUT" /\ UNCHANGED cur_try
         ELSE cur_try' = NextTry /\ UNCHANGED cb
    ELSE UNCHANGED waiter

HandlerUpdated ==
    IF phase = "wait" THEN cb' = "SUCCESS" /\ UNCHANGED cur_try ELSE UNCHANGED waiter

\* fnet_dhcp_apply_params
Bind(a, l) ==
    /\ state' = "BOUND" /\ addr' = a /\ lease' = l
    /\ sinceLease' = sinceSend /\ UNCHANGED sinceSend
    /\ HandlerUpdated

\* the lease of an ACK: clamped, T1 and T2 filled in where they are needed
Within(t) == IF t < LeaseMin THEN LeaseMin ELSE IF t > LeaseMax THEN LeaseMax ELSE t
Normalized(g) ==
    LET t == Within(g.lease) IN
    IF g.lease = Infinity THEN Forever
    ELSE IF g.t1 = 0 \/ g.t2 = 0 \/ t # g.lease
         THEN [lease |-> t, t1 |-> t \div 2, t2 |-> t - t \div 8]
         ELSE g

-----------------------------------------------------------------------------
(* fnet_dhcp_state_machine, once per poll *)

\* fnet_dhcp_receive_message reports a timeout: the answer is due, or recvfrom()
\* failed, as it does for a datagram too long for its buffer
AnswerDue == sinceSend >= SendTimeout(state)
Errors == {TRUE, FALSE}
TimedOut(e) == AnswerDue \/ e

Discover ==
    /\ state = "INIT"
    /\ EnterAsking("SELECTING")
    /\ HandlerDiscover
    /\ UNCHANGED retries

NoOffer(e) ==
    /\ state = "SELECTING" /\ TimedOut(e)
    /\ retries # 1
    /\ retries' = IF retries > 0 THEN retries - 1 ELSE retries
    /\ EnterInit
    /\ UNCHANGED waiter

LastRetry == retries = 1
LinkLocal(e) ==
    /\ state = "SELECTING" /\ TimedOut(e) /\ LastRetry
    /\ retries' = 0
    /\ Bind("linklocal", Forever)

Offer ==
    /\ state = "SELECTING" /\ ~AnswerDue
    /\ EnterRequesting
    /\ UNCHANGED <<retries, waiter>>

\* the lease is BOUND: what was received is discarded
LeaseTimer ==
    /\ state = "BOUND" /\ sinceLease > StateTimeout(state)
    /\ Enter(NextState(state))
    /\ UNCHANGED <<retries, waiter>>

Requesting == state \in {"REQUESTING", "RENEWING", "REBINDING"}
InTime == Requesting /\ sinceLease < StateTimeout(state)

\* sent again: lease_obtained_time stays, and state_timeout runs from it
Restarted == 0    \* slip: lease_obtained_time set as well
LeaseAge == sinceLease
Resend(e) ==
    /\ InTime /\ TimedOut(e)
    /\ sinceSend' = 0 /\ sinceLease' = LeaseAge
    /\ UNCHANGED <<state, retries, addr, lease, waiter>>

Ack(g) ==
    /\ InTime /\ ~AnswerDue
    /\ Bind("leased", Normalized(g))
    /\ UNCHANGED retries

Nak ==
    /\ InTime /\ ~AnswerDue
    /\ EnterInit
    /\ UNCHANGED <<retries, waiter>>

StateTimer ==
    /\ Requesting /\ ~InTime
    /\ Enter(NextState(state))
    /\ UNCHANGED <<retries, waiter>>

\* no message, or none the state acts on
NoMessage ==
    /\ \/ state = "DISABLED"
       \/ state = "SELECTING" /\ ~AnswerDue
       \/ state = "BOUND" /\ sinceLease <= StateTimeout(state)
       \/ InTime /\ ~AnswerDue
    /\ UNCHANGED <<client, waiter>>

StateMachine ==
    \/ Discover \/ Offer \/ LeaseTimer \/ Nak \/ StateTimer \/ NoMessage
    \/ \E e \in Errors : NoOffer(e) \/ LinkLocal(e) \/ Resend(e)
    \/ \E g \in Grants : Ack(g)

Outlived == addr' # "none" /\ sinceLease' > lease'.lease

\* fnet_poll_services; main polls once more in the round in which it connected
Poll ==
    /\ phase \in {"idle", "lastpoll"} \/ (phase = "wait" /\ cb = "WAITING")
    /\ StateMachine
    /\ late' = IF Outlived THEN late + 1 ELSE 0
    /\ phase' = IF phase = "lastpoll" THEN "connected" ELSE phase

-----------------------------------------------------------------------------
(* main *)

WaitReturns ==
    /\ phase = "wait" /\ cb # "WAITING"
    /\ phase' = "idle"
    /\ UNCHANGED <<waiter, client, late>>

Connect ==
    /\ phase = "idle"
    /\ phase' = "lastpoll"
    /\ UNCHANGED <<waiter, client, late>>

Disconnect ==
    /\ phase = "connected"
    /\ phase' = "idle"
    /\ UNCHANGED <<waiter, client, late>>

Older(t) == IF t < MaxAge THEN t + 1 ELSE t
Tick ==
    /\ sinceSend' = Older(sinceSend) /\ sinceLease' = Older(sinceLease)
    /\ UNCHANGED <<phase, waiter, state, retries, addr, lease, late>>

Next == Poll \/ WaitReturns \/ Connect \/ Disconnect \/ Tick

Spec == Init /\ [][Next]_vars

\* Main runs on while it has no server, and time goes on.
FairSpec == Spec /\ WF_vars(Poll) /\ WF_vars(WaitReturns) /\ WF_vars(Tick)

-----------------------------------------------------------------------------
(* Properties *)

TypeOK ==
    /\ phase \in Phases
    /\ cb \in {"WAITING", "TIMEOUT", "SUCCESS"} /\ cur_try \in 1 .. Tries + 1
    /\ state \in States
    /\ retries \in 0 .. Tries
    /\ addr \in Addrs
    /\ lease \in Leases
    /\ sinceSend \in 0 .. MaxAge /\ sinceLease \in 0 .. MaxAge
    /\ late \in Nat

\* The interface has an address exactly while the client holds a lease for it, or has
\* chosen a link-local one: every way back to INIT gives it up.
AddressIffBound == addr # "none" <=> state \in {"BOUND", "RENEWING", "REBINDING"}

\* However long a session kept main from polling, an address that has outlived its
\* lease is gone with the third poll: timers, ACKs and NAKs in any order do not
\* bring it past that.
ExpiredIsDropped == late <= 2

\* wait_dhcp returns, whatever servers offer, refuse or leave unanswered.
WaitEnds == phase = "wait" ~> phase # "wait"

\* A board without an address asks for one again and again, while it has no server.
KeepsAsking ==
    addr = "none" /\ state # "DISABLED"
        ~> state = "SELECTING" \/ addr # "none" \/ phase = "connected"
=============================================================================
