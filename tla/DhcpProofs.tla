----------------------------- MODULE DhcpProofs -----------------------------
(***************************************************************************)
(* Proofs about Dhcp, for any number of tries, any timeouts and any set of *)
(* sane leases: types, AddressIffBound and ExpiredIsDropped.               *)
(***************************************************************************)
EXTENDS Dhcp, TLAPS

\* T1, T2 and the lease are in order, whatever an ACK said.
Ordered == lease.t1 <= lease.t2 /\ lease.t2 <= lease.lease

\* An address that has outlived its lease is on its way out: every poll that leaves it
\* there has moved the client one state on.
OutlivedInv ==
    /\ late > 0 => sinceLease > lease.lease
    /\ late = 1 => state \in {"RENEWING", "REBINDING"}
    /\ late = 2 => state = "REBINDING"
    /\ ExpiredIsDropped

Inv == TypeOK /\ Ordered /\ AddressIffBound /\ OutlivedInv

-----------------------------------------------------------------------------
LEMMA ForeverFacts ==
    /\ Forever \in Leases
    /\ Forever.t1 <= Forever.t2 /\ Forever.t2 <= Forever.lease
    /\ LeaseMin <= Forever.lease
BY DhcpAssumption DEF Forever, Leases

\* What the client makes of an ACK: T1 <= T2 <= lease, and not less than LeaseMin.
LEMMA NormalizedFacts ==
    ASSUME NEW g \in Grants
    PROVE  /\ Normalized(g) \in Leases
           /\ Normalized(g).t1 <= Normalized(g).t2
           /\ Normalized(g).t2 <= Normalized(g).lease
           /\ LeaseMin <= Normalized(g).lease
<1>1. g \in Leases /\ Sane(g)
  BY DhcpAssumption DEF Sane
<1>2. CASE g.lease = Infinity
  BY <1>2, ForeverFacts DEF Normalized
<1>3. CASE g.lease # Infinity
  <2> DEFINE t == Within(g.lease)
  <2>1. t \in Nat /\ LeaseMin <= t
    BY <1>1, DhcpAssumption DEF Within, Leases
  <2>2. /\ t \div 2 \in Nat /\ t - t \div 8 \in Nat
        /\ t \div 2 <= t - t \div 8 /\ t - t \div 8 <= t
    <3> HIDE DEF t
    <3> QED BY <2>1
  <2>3. CASE g.t1 = 0 \/ g.t2 = 0 \/ t # g.lease
    <3>1. Normalized(g) = [lease |-> t, t1 |-> t \div 2, t2 |-> t - t \div 8]
      BY <1>3, <2>3 DEF Normalized
    <3> HIDE DEF t
    <3> QED BY <2>1, <2>2, <3>1 DEF Leases
  <2>4. CASE ~(g.t1 = 0 \/ g.t2 = 0 \/ t # g.lease)
    <3>1. Normalized(g) = g
      BY <1>3, <2>4 DEF Normalized
    <3> QED BY <1>1, <1>3, <2>1, <2>4, <3>1 DEF Sane, Leases
  <2> QED BY <2>3, <2>4
<1> QED BY <1>2, <1>3

-----------------------------------------------------------------------------
LEMMA InitInv == Init => Inv
<1> SUFFICES ASSUME Init PROVE Inv
  OBVIOUS
<1>1. TypeOK
  BY DhcpAssumption, ForeverFacts DEF Init, TypeOK, Phases, States, Addrs
<1>2. Ordered /\ AddressIffBound /\ OutlivedInv
  BY ForeverFacts DEF Init, Ordered, AddressIffBound, OutlivedInv, ExpiredIsDropped
<1> QED BY <1>1, <1>2 DEF Inv

-----------------------------------------------------------------------------
\* TypeOK without phase and late, which Poll sets.
ClientType ==
    /\ cb \in {"WAITING", "TIMEOUT", "SUCCESS"} /\ cur_try \in 1 .. Tries + 1
    /\ state \in States /\ retries \in 0 .. Tries
    /\ addr \in Addrs /\ lease \in Leases
    /\ sinceSend \in 0 .. MaxAge /\ sinceLease \in 0 .. MaxAge

LEMMA MachineType == TypeOK /\ StateMachine => ClientType'
<1> SUFFICES ASSUME TypeOK, StateMachine PROVE ClientType'
  OBVIOUS
<1> USE DhcpAssumption DEF TypeOK, ClientType, States, Addrs
<1>1. CASE Discover
  BY <1>1 DEF Discover, EnterAsking, HandlerDiscover, TriesUsed, NextTry, waiter
<1>2. ASSUME NEW e \in Errors, NoOffer(e) PROVE ClientType'
  BY <1>2 DEF NoOffer, EnterInit, InitAddr, waiter
<1>3. ASSUME NEW e \in Errors, LinkLocal(e) PROVE ClientType'
  BY <1>3, ForeverFacts DEF LinkLocal, LastRetry, Bind, HandlerUpdated, waiter
<1>4. CASE Offer
  BY <1>4 DEF Offer, EnterRequesting, waiter
<1>5. CASE LeaseTimer
  BY <1>5 DEF LeaseTimer, Enter, EnterAsking, NextState, waiter
<1>6. ASSUME NEW e \in Errors, Resend(e) PROVE ClientType'
  BY <1>6 DEF Resend, LeaseAge, InTime, Requesting, waiter
<1>7. ASSUME NEW g \in Grants, Ack(g) PROVE ClientType'
  BY <1>7, NormalizedFacts DEF Ack, InTime, Requesting, Bind, HandlerUpdated, waiter
<1>8. CASE Nak
  BY <1>8 DEF Nak, EnterInit, InTime, Requesting, InitAddr, waiter
<1>9. CASE StateTimer
  BY <1>9 DEF StateTimer, Requesting, Enter, EnterInit, EnterAsking, NextState, InitAddr, waiter
<1>10. CASE NoMessage
  BY <1>10 DEF NoMessage, client, waiter
<1> QED BY <1>1, <1>2, <1>3, <1>4, <1>5, <1>6, <1>7, <1>8, <1>9, <1>10 DEF StateMachine

\* Only an ACK and the link-local address change the lease.
LEMMA MachineLease == Inv /\ StateMachine => Ordered'
<1> SUFFICES ASSUME Inv, StateMachine PROVE Ordered'
  OBVIOUS
<1> USE DEF Inv, Ordered
<1>1. ASSUME NEW e \in Errors, LinkLocal(e) PROVE Ordered'
  BY <1>1, ForeverFacts DEF LinkLocal, Bind
<1>2. ASSUME NEW g \in Grants, Ack(g) PROVE Ordered'
  BY <1>2, NormalizedFacts DEF Ack, Bind
<1>3. CASE UNCHANGED lease
  BY <1>3
<1>4. Discover \/ Offer \/ LeaseTimer \/ Nak \/ StateTimer \/ NoMessage => UNCHANGED lease
  BY DEF Discover, Offer, LeaseTimer, Nak, StateTimer, NoMessage, client, Enter, EnterInit,
         EnterAsking, EnterRequesting
<1>5. \A e \in Errors : NoOffer(e) \/ Resend(e) => UNCHANGED lease
  BY DEF NoOffer, EnterInit, Resend
<1> QED BY <1>1, <1>2, <1>3, <1>4, <1>5 DEF StateMachine

\* An address comes with BOUND and goes with INIT.
LEMMA MachineAddress == Inv /\ StateMachine => AddressIffBound'
<1> SUFFICES ASSUME Inv, StateMachine PROVE AddressIffBound'
  OBVIOUS
<1> USE DhcpAssumption DEF Inv, TypeOK, AddressIffBound, States
<1>1. CASE Discover
  BY <1>1 DEF Discover, EnterAsking
<1>2. ASSUME NEW e \in Errors, NoOffer(e) PROVE AddressIffBound'
  BY <1>2 DEF NoOffer, EnterInit, InitAddr
<1>3. ASSUME NEW e \in Errors, LinkLocal(e) PROVE AddressIffBound'
  BY <1>3 DEF LinkLocal, Bind
<1>4. CASE Offer
  BY <1>4 DEF Offer, EnterRequesting
<1>5. CASE LeaseTimer
  BY <1>5 DEF LeaseTimer, Enter, EnterAsking, NextState
<1>6. ASSUME NEW e \in Errors, Resend(e) PROVE AddressIffBound'
  BY <1>6 DEF Resend
<1>7. ASSUME NEW g \in Grants, Ack(g) PROVE AddressIffBound'
  BY <1>7 DEF Ack, Bind
<1>8. CASE Nak
  BY <1>8 DEF Nak, EnterInit, InitAddr
<1>9. CASE StateTimer
  BY <1>9 DEF StateTimer, Requesting, Enter, EnterInit, EnterAsking, NextState, InitAddr
<1>10. CASE NoMessage
  BY <1>10 DEF NoMessage, client
<1> QED BY <1>1, <1>2, <1>3, <1>4, <1>5, <1>6, <1>7, <1>8, <1>9, <1>10 DEF StateMachine

\* An address that has outlived its lease is RENEWING after the poll, and REBINDING if
\* it was RENEWING or had outlived it before.
OnTheWayOut ==
    Outlived => \/ state = "BOUND" /\ state' = "RENEWING"
                \/ state = "RENEWING" /\ state' = "REBINDING"

\* Nobody but the timers leaves an address that has outlived its lease.
LEMMA MachineOutlived == Inv /\ StateMachine => OnTheWayOut
<1> SUFFICES ASSUME Inv, StateMachine PROVE OnTheWayOut
  OBVIOUS
<1> USE DhcpAssumption DEF Inv, TypeOK, Ordered, AddressIffBound, OnTheWayOut, Outlived, Leases, States
<1>1. CASE Discover
  BY <1>1 DEF Discover, EnterAsking
<1>2. ASSUME NEW e \in Errors, NoOffer(e) PROVE OnTheWayOut
  BY <1>2 DEF NoOffer, EnterInit, InitAddr
<1>3. ASSUME NEW e \in Errors, LinkLocal(e) PROVE OnTheWayOut
  BY <1>3 DEF LinkLocal, Bind, Forever
<1>4. CASE Offer
  BY <1>4 DEF Offer, EnterRequesting
<1>5. CASE LeaseTimer
  BY <1>5 DEF LeaseTimer, Enter, EnterAsking, NextState
<1>6. ASSUME NEW e \in Errors, Resend(e) PROVE OnTheWayOut
  BY <1>6 DEF Resend, LeaseAge, InTime, Requesting, StateTimeout
<1>7. ASSUME NEW g \in Grants, Ack(g) PROVE OnTheWayOut
  BY <1>7, NormalizedFacts DEF Ack, InTime, Requesting, AnswerDue, SendTimeout, Bind
<1>8. CASE Nak
  BY <1>8 DEF Nak, EnterInit, InitAddr
<1>9. CASE StateTimer
  BY <1>9 DEF StateTimer, Requesting, InTime, StateTimeout, Enter, EnterInit, EnterAsking, NextState, InitAddr
<1>10. CASE NoMessage
  BY <1>10 DEF NoMessage, InTime, Requesting, StateTimeout, client
<1> QED BY <1>1, <1>2, <1>3, <1>4, <1>5, <1>6, <1>7, <1>8, <1>9, <1>10 DEF StateMachine

-----------------------------------------------------------------------------
LEMMA PollStep == Inv /\ Poll => Inv'
<1> SUFFICES ASSUME Inv, Poll PROVE Inv'
  OBVIOUS
<1>1. StateMachine /\ late' = (IF Outlived THEN late + 1 ELSE 0)
      /\ phase' = IF phase = "lastpoll" THEN "connected" ELSE phase
  BY DEF Poll
<1>2. TypeOK'
  BY <1>1, MachineType DEF Inv, TypeOK, ClientType, Phases
<1>3. Ordered' /\ AddressIffBound'
  BY <1>1, MachineLease, MachineAddress
<1>4. OutlivedInv'
  BY <1>1, MachineOutlived DEF Inv, TypeOK, OutlivedInv, ExpiredIsDropped, OnTheWayOut, Outlived
<1> QED BY <1>2, <1>3, <1>4 DEF Inv

LEMMA TickStep == Inv /\ Tick => Inv'
<1> SUFFICES ASSUME Inv, Tick PROVE Inv'
  OBVIOUS
<1> USE DEF Tick, waiter, Inv
<1>1. /\ sinceSend' \in 0 .. MaxAge
      /\ sinceLease' \in 0 .. MaxAge /\ sinceLease' >= sinceLease
  BY DhcpAssumption DEF Older, TypeOK
<1>2. TypeOK'
  BY <1>1 DEF TypeOK
<1>3. Ordered' /\ AddressIffBound'
  BY DEF Ordered, AddressIffBound
<1>4. OutlivedInv'
  BY <1>1 DEF OutlivedInv, ExpiredIsDropped, TypeOK, Leases
<1> QED BY <1>2, <1>3, <1>4

LEMMA MainStep ==
    Inv /\ (WaitReturns \/ Connect \/ Disconnect \/ UNCHANGED vars) => Inv'
<1> SUFFICES ASSUME Inv, phase' \in Phases, UNCHANGED <<waiter, client, late>> PROVE Inv'
  BY DEF WaitReturns, Connect, Disconnect, vars, Inv, TypeOK, Phases
<1> USE DEF waiter, client, Inv
<1>1. TypeOK'
  BY DEF TypeOK
<1>2. Ordered' /\ AddressIffBound' /\ OutlivedInv'
  BY DEF Ordered, AddressIffBound, OutlivedInv, ExpiredIsDropped
<1> QED BY <1>1, <1>2

LEMMA InvHolds == Spec => []Inv
<1>1. Inv /\ [Next]_vars => Inv'
  BY PollStep, TickStep, MainStep DEF Next
<1> QED BY <1>1, InitInv, PTL DEF Spec

-----------------------------------------------------------------------------
\* Every variable keeps its type: tries, retries and ages stay within their bounds.
THEOREM TypeCorrect == Spec => []TypeOK
<1>1. Inv => TypeOK
  BY DEF Inv
<1> QED BY <1>1, InvHolds, PTL

\* The interface has an address exactly while the client is BOUND, RENEWING or
\* REBINDING, whatever order messages and timers come in.
THEOREM Address == Spec => []AddressIffBound
<1>1. Inv => AddressIffBound
  BY DEF Inv
<1> QED BY <1>1, InvHolds, PTL

\* After any pause in polling the third poll at the latest gives up an address that has
\* outlived its lease, for any sane leases and any timeouts in the assumed order.
THEOREM Expiry == Spec => []ExpiredIsDropped
<1>1. Inv => ExpiredIsDropped
  BY DEF Inv, OutlivedInv
<1> QED BY <1>1, InvHolds, PTL
=============================================================================
