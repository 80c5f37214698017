------------------------------ MODULE IsrLock ------------------------------
(***************************************************************************)
(* FNET's software interrupt lock (fnet_isr.c). Main and the bottom halves *)
(* of the interrupts share the stack's data; fnet_isr_lock and unlock keep *)
(* the bottom halves out of critical sections by a counter that interrupts *)
(* read, and that is incremented by a load and a store.                    *)
(*                                                                         *)
(* There is one call stack: an interrupt pushes its handler on top of what *)
(* runs. A frame is a routine, where it is, and the counter value it has   *)
(* loaded. Main and the bottom halves are scripts of critical sections, of *)
(* work ("serve") and of frames they send ("output"). Main sends one with  *)
(* no lock held.                                                           *)
(***************************************************************************)
EXTENDS Integers, Sequences, SequencesExt, FiniteSets

CONSTANT Depth    \* how deep main nests its critical sections
ASSUME DepthAssumption == Depth \in Nat \ {0}

VARIABLES
    fnet_locked,    \* the counter
    pended,         \* entries whose bottom half is postponed
    work,           \* ghost: entries with something for their bottom half to do
    stack           \* running routines, the interrupted ones below

vars == <<fnet_locked, pended, work, stack>>

\* fnet_isr_table, from its head: registered last, found first
Table == <<"arp", "eth", "ip", "timer">>
Entries == {"arp", "eth", "ip", "timer"}
Vectors == {"eth", "timer"}             \* the others are events
Raises(e) == IF e = "eth" THEN {"arp", "ip"} ELSE {}

\* NVIC priority of a vector: the lower number preempts
Configured(v) == IF v = "eth" THEN 2 ELSE 3
NotInverted(v) == Configured(v)    \* slip: 7 - priority forgotten
NvicLevel(v) == 7 - Configured(v)

\* The critical sections of the bottom halves; IP and ARP answer what they receive.
EthBottom == <<"lock", "serve", "unlock">>
IpBottom == <<"lock", "serve", "output", "unlock">>
ArpBottom == <<"serve", "output">>
\* software timers: TCP's send under the lock; ARP's works on its table without
TimerBottom == <<"lock", "output", "unlock", "serve">>

\* Main: the DHCP client sets an address, whose ARP request goes out with no lock
\* held; then the sections of the calls on sockets and packets.
Notify == <<"output">>
Sections == [i \in 1 .. 2 * Depth |-> IF i <= Depth THEN "lock" ELSE "unlock"]

Script(e) == CASE e = "main"  -> Notify \o Sections
               [] e = "eth"   -> EthBottom
               [] e = "ip"    -> IpBottom
               [] e = "arp"   -> ArpBottom
               [] e = "timer" -> TimerBottom

NoReg == -1
Frame(run, of, at) == [run |-> run, of |-> of, at |-> at, reg |-> NoReg]

Top == Last(stack)
Push(f) == Append(stack, f)
Below == Front(stack)
Moved(f, n) == [f EXCEPT !.at = n, !.reg = NoReg]
Goto(n) == Append(Below, Moved(Top, n))

Init ==
    /\ fnet_locked = 0
    /\ pended = [e \in Entries |-> FALSE]
    /\ work = [e \in Entries |-> FALSE]
    /\ stack = <<Frame("script", "main", 1)>>

-----------------------------------------------------------------------------
(* fnet_isr_handler *)

Preempts(v) ==
    \A i \in DOMAIN stack :
        stack[i].run = "isr" => NvicLevel(v) < NvicLevel(stack[i].of)

\* an interrupt, up to the end of its top half
Interrupt(v) ==
    /\ Preempts(v)
    /\ work' = [work EXCEPT ![v] = TRUE]
    /\ stack' = Push(Frame("isr", v, 1))
    /\ UNCHANGED <<fnet_locked, pended>>

\* the stack is locked: postpone the bottom half
Pend ==
    /\ Top.run = "isr" /\ Top.at = 1 /\ fnet_locked # 0
    /\ pended' = [pended EXCEPT ![Top.of] = TRUE]
    /\ stack' = Below
    /\ UNCHANGED <<fnet_locked, work>>

CallBottom ==
    /\ Top.run = "isr" /\ Top.at = 1 /\ fnet_locked = 0
    /\ pended' = [pended EXCEPT ![Top.of] = FALSE]
    /\ stack' = Append(Goto(2), Frame("script", Top.of, 1))
    /\ UNCHANGED <<fnet_locked, work>>

IsrReturn ==
    /\ Top.run = "isr" /\ Top.at = 2
    /\ stack' = Below
    /\ UNCHANGED <<fnet_locked, pended, work>>

-----------------------------------------------------------------------------
(* The scripts of main and the bottom halves *)

AtOp(op) == Top.run = "script" /\ Top.at <= Len(Script(Top.of)) /\ Script(Top.of)[Top.at] = op

\* the load of fnet_locked++ or --fnet_locked
Load ==
    /\ AtOp("lock") \/ (Top.run = "unlock" /\ Top.at > Len(Table))
    /\ Top.reg = NoReg
    /\ stack' = Append(Below, [Top EXCEPT !.reg = fnet_locked])
    /\ UNCHANGED <<fnet_locked, pended, work>>

\* fnet_isr_lock
Lock ==
    /\ AtOp("lock") /\ Top.reg # NoReg
    /\ fnet_locked' = Top.reg + 1
    /\ stack' = Goto(Top.at + 1)
    /\ UNCHANGED <<pended, work>>

\* the work itself; what it raises is pended, as it holds the lock
Serve ==
    /\ AtOp("serve")
    /\ \E R \in SUBSET Raises(Top.of) :
          /\ pended' = [e \in Entries |-> e \in R \/ pended[e]]
          /\ work' = [e \in Entries |-> e \in R \/ (e # Top.of /\ work[e])]
    /\ stack' = Goto(Top.at + 1)
    /\ UNCHANGED fnet_locked

\* fnet_fec_output, at its end; a routine that has nothing to send only passes it
Output ==
    /\ AtOp("output")
    /\ stack' = Goto(Top.at + 1)
    /\ UNCHANGED <<fnet_locked, pended, work>>

\* the end of a bottom half; main goes on for ever
ClearedAfter(e) == [pended EXCEPT ![e] = FALSE]    \* slip: pended = 0 after the call
AfterBottom(e) == pended
Finish ==
    /\ Top.run = "script" /\ Top.at > Len(Script(Top.of))
    /\ IF Top.of = "main"
       THEN stack' = Goto(1) /\ UNCHANGED pended
       ELSE stack' = Below /\ pended' = AfterBottom(Top.of)
    /\ UNCHANGED <<fnet_locked, work>>

-----------------------------------------------------------------------------
(* fnet_isr_unlock *)

\* is it the topmost level?
NeverTopmost == fnet_locked = 0    \* slip: compared as after the decrement
Topmost == fnet_locked = 1

Unlock ==
    /\ AtOp("unlock")
    /\ stack' = Append(Goto(Top.at + 1),
                       Frame("unlock", "none", IF Topmost THEN 1 ELSE Len(Table) + 1))
    /\ UNCHANGED <<fnet_locked, pended, work>>

Scan == Top.run = "unlock" /\ Top.at <= Len(Table)

SkipEntry ==
    /\ Scan /\ ~pended[Table[Top.at]]
    /\ stack' = Goto(Top.at + 1)
    /\ UNCHANGED <<fnet_locked, pended, work>>

RunPended ==
    /\ Scan /\ pended[Table[Top.at]]
    /\ pended' = [pended EXCEPT ![Table[Top.at]] = FALSE]
    /\ stack' = Append(Goto(Top.at + 1), Frame("script", Table[Top.at], 1))
    /\ UNCHANGED <<fnet_locked, work>>

Reset(r) == 0    \* slip: = 0 instead of --
Decrement(r) == r - 1
Release ==
    /\ Top.run = "unlock" /\ Top.reg # NoReg
    /\ fnet_locked' = Decrement(Top.reg)
    /\ stack' = Below
    /\ UNCHANGED <<pended, work>>

-----------------------------------------------------------------------------
Step ==
    \/ Pend \/ CallBottom \/ IsrReturn
    \/ Load \/ Lock \/ Serve \/ Output \/ Finish
    \/ Unlock \/ SkipEntry \/ RunPended \/ Release

Next == Step \/ \E v \in Vectors : Interrupt(v)

Spec == Init /\ [][Next]_vars

\* Interrupts leave the routines they interrupt some time.
Handlers == SelectSeq(stack, LAMBDA f : f.run = "isr")
Context == IF Handlers = <<>> THEN "main" ELSE Last(Handlers).of
FairSpec == Spec /\ \A c \in Vectors \cup {"main"} : SF_vars(Context = c /\ Step)

-----------------------------------------------------------------------------
(* Properties *)

Frames == [run : {"script", "isr", "unlock"}, of : Entries \cup {"main", "none"},
           at : Nat, reg : Int]

TypeOK ==
    /\ fnet_locked \in Nat
    /\ pended \in [Entries -> BOOLEAN]
    /\ work \in [Entries -> BOOLEAN]
    /\ stack \in Seq(Frames)

\* the operations op among the first n - 1 of a script
Count(s, op, n) == Cardinality({k \in DOMAIN s : k < n /\ s[k] = op})

\* sections a frame has open; an unlock holds its caller's until it returns
Held(f) == CASE f.run = "script" -> Count(Script(f.of), "lock", f.at) - Count(Script(f.of), "unlock", f.at)
             [] f.run = "unlock" -> 1
             [] f.run = "isr"    -> 0

\* the sections the first n routines of s have open
Open(s, n) == {x \in (1 .. n) \X (1 .. Depth) : x[2] <= Held(s[x[1]])}

\* Neither the load and store of the counter nor any nesting of interrupts loses a
\* level: the lock is held as often as sections are open.
Balanced == TypeOK /\ fnet_locked = Cardinality(Open(stack, Len(stack)))

\* A timer or ARP bottom half that holds no lock is in the stack's data all along.
InSection(f) ==
    \/ Held(f) > 0
    \/ f.run = "script" /\ f.of \in {"timer", "arp"} /\ f.at <= Len(Script(f.of))

\* An interrupt runs its bottom half only where it interrupts no critical section of
\* main, and no bottom half at its work: not one in a section, and not the ones that
\* work without. Main's output is in no section, and is not spoken of here.
Exclusion ==
    \A i, j \in DOMAIN stack :
        i < j /\ stack[j].run = "isr" /\ stack[j].at = 2 => ~InSection(stack[i])

AtOutput(f) == f.run = "script" /\ f.at <= Len(Script(f.of)) /\ Script(f.of)[f.at] = "output"

\* fnet_fec_output is not entered again before it is done with the descriptor it fills
\* (its own check, compiled in with FNET_FEC_TEST_RACE_CONDITION). Main's, which holds
\* no lock, is.
OutputIsNotReentered ==
    \A i, j \in DOMAIN stack : AtOutput(stack[i]) /\ AtOutput(stack[j]) => i = j

\* Whatever an interrupt or event leaves to do is pended, or a bottom half that has
\* yet to do it runs or is about to: nothing is lost between an unlock and an interrupt.
WorkIsRemembered ==
    \A e \in Entries : work[e] =>
        \/ pended[e]
        \/ \E i \in DOMAIN stack :
              /\ stack[i].of = e
              /\ \/ stack[i].run = "isr" /\ stack[i].at = 1
                 \/ /\ stack[i].run = "script"
                    /\ \E k \in stack[i].at .. Len(Script(e)) : Script(e)[k] = "serve"

\* An interrupt that was pended is served, even when it came too late for the unlock.
WorkIsDone == \A e \in Entries : work[e] ~> ~work[e]
=============================================================================
