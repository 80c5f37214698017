--------------------------- MODULE CaptureProofs ---------------------------
(***************************************************************************)
(* Proofs about Capture: every invariant that MCCapture checks on a small  *)
(* instance holds for every number of samples, every header size, every    *)
(* DELAY and any number of buffers and commands.                           *)
(*                                                                         *)
(* The inductive invariant has one part per concern.  Each part is proved  *)
(* inductive with the help of the parts before it.                         *)
(***************************************************************************)
EXTENDS Capture, TLAPS

\* The trigger runs only after every store of capture_setup took place; a raised
\* buf_full shows that there was a capture_setup.
TriggerInv ==
    /\ IsrWritesInBounds
    /\ pc = "setup" => /\ "cur" \notin todo => cur_buf \in Bufs
                       /\ "spb" \notin todo => samples_per_buffer = SPB
                       /\ "nsample" \notin todo => nsample < SPB
    /\ buf_full \/ pc = "read" \/ Sending =>
           samples_per_buffer = SPB /\ cur_buf \in Bufs

\* On a connection, the trigger runs or a buffer waits only after a START; without
\* one, neither.
StartInv ==
    /\ NoDataBeforeStart
    /\ pc = "setup" => started
    /\ pc = "empty" => ~enabled
    /\ pc = "down" => ~enabled /\ ~buf_full
    /\ pc \notin {"down", "stop", "empty"} /\ (enabled \/ buf_full) => started

\* The buffer waiting when the trigger stopped has not been counted yet.
TailInv ==
    /\ OneTailPacket
    /\ enabled => tail = 0
    /\ buf_full /\ ~(pc = "read" /\ "full" \in todo) => tail = 0

\* What the send loop asked for and what was copied add up.
SendInv ==
    /\ SendInBounds
    /\ Sending => sent <= PacketLen
    /\ pc = "send" => Len(pkt) = sent
    /\ pc = "copy" => /\ sent <= Len(pkt) /\ Len(pkt) <= sent + n
                      /\ n <= tosend /\ tosend > 0

\* buffers_to_ignore counts delay down to 0; a negative one it counts further down.
Countdown == IF 0 <= delay /\ delay <= completed THEN 0 ELSE delay - completed
CountedDown == 0 <= delay /\ delay <= completed

BlankInv ==
    /\ BlankingIsPrefix
    /\ buffers_to_ignore = Countdown
    /\ live => CountedDown
    /\ pc = "read" /\ "ignore" \notin todo => /\ ignore_data = 0 => CountedDown
                                              /\ live => ignore_data = 0

\* The buffer being filled holds its own samples up to nsample and those of two
\* completions ago from there; the other one holds the last completed buffer.
Contents ==
    \A i \in Index :
        /\ data[cur_buf][i] = IF i < nsample THEN completed + 1
                              ELSE IF completed = 0 THEN 0 ELSE completed - 1
        /\ data[Other(cur_buf)][i] = completed

DataInv ==
    /\ pc = "setup" /\ "ignore" \in todo => "nsample" \in todo
    /\ ~raced /\ pc # "setup" /\ cur_buf \in Bufs => Contents
    /\ ~raced /\ pc = "setup" /\ "ignore" \notin todo =>
           /\ ~enabled
           /\ completed = 0
           /\ \A b \in Bufs, i \in Index : data[b][i] = 0
           /\ "nsample" \notin todo => nsample = 0

\* From the fetch of cur_buf on, the fetched buffer holds nothing too old.
TakenInv ==
    (pc = "read" /\ "buf" \notin todo) \/ Sending =>
        /\ buf \in Bufs
        /\ takenAt <= completed
        /\ ~raced => \A i \in Index : /\ takenAt - 1 <= data[buf][i]
                                      /\ data[buf][i] <= completed + 1

\* PacketWindow and LiveDataIsFresh, position by position.
PacketInv ==
    Sending /\ ~raced => \A i \in Hdr + 1 .. Len(pkt) :
        /\ takenAt - 1 <= pkt[i] /\ pkt[i] <= completed + 1
        /\ ~invalid /\ delay >= 2 => pkt[i] # 0

IndInv == TypeOK /\ TriggerInv /\ StartInv /\ TailInv /\ SendInv /\ BlankInv
          /\ DataInv /\ TakenInv /\ PacketInv

-----------------------------------------------------------------------------
\* Every behaviour keeps the types: what a step assigns has the type of its variable.
LEMMA TypeInit == Init => TypeOK
BY CaptureAssumption DEF Init, TypeOK, Bufs, NoBuf, Index, PCs, SetupStores, ReadAccesses

LEMMA TypeStep == IndInv /\ [Next]_vars => TypeOK'
<1> SUFFICES ASSUME TypeOK, TriggerInv, TakenInv, [Next]_vars PROVE TypeOK'
  BY DEF IndInv
<1> USE CaptureAssumption DEF TypeOK, isrVars, sendVars, ghosts
<1>1. CASE CaptureIsr
  <2>1. data' \in [Bufs -> [Index -> Nat]]
    <3>1. completed + 1 \in Nat /\ cur_buf \in Bufs
      BY <1>1 DEF CaptureIsr, TriggerInv, IsrWritesInBounds
    <3>2. CASE nsample \in Index
      <4>1. data' = [data EXCEPT ![cur_buf][nsample] = completed + 1]
        BY <1>1, <3>2 DEF CaptureIsr
      <4> QED BY <3>1, <3>2, <4>1
    <3> QED BY <1>1, <3>2 DEF CaptureIsr
  <2>2. nsample' \in Nat /\ completed' \in Nat
    BY <1>1 DEF CaptureIsr, CompleteBuffer, KeepFilling, FirstIndex
  <2>5. buf_full' \in BOOLEAN
    BY <1>1 DEF CaptureIsr, CompleteBuffer, KeepFilling
  <2>3. cur_buf' \in Bufs \cup {NoBuf}
    BY <1>1 DEF CaptureIsr, CompleteBuffer, KeepFilling, Other, Bufs
  <2>4. buf_overflow' \in BOOLEAN /\ buffers_to_ignore' \in Int
    BY <1>1 DEF CaptureIsr, CompleteBuffer, KeepFilling
  <2> QED BY <1>1, <2>1, <2>2, <2>3, <2>4, <2>5 DEF CaptureIsr
<1>2. CASE CaptureReadEmpty
  BY <1>2 DEF CaptureReadEmpty, PCs
<1>3. CASE CaptureReadFull
  BY <1>3 DEF CaptureReadFull, PCs
<1>4. ASSUME NEW x \in ReadAccesses, CaptureReadAccess(x) PROVE TypeOK'
  BY <1>4 DEF CaptureReadAccess, FullAfter
<1>5. CASE HeaderAppend
  BY <1>5 DEF HeaderAppend, IsBlank, PCs
<1>6. ASSUME NEW k \in 0 .. tosend, SendRoom(k) PROVE TypeOK'
  BY <1>6 DEF SendRoom, PCs
<1>7. CASE SendCopy
  <2>1. Unit(Len(pkt)) \in Nat
    BY <1>7 DEF SendCopy, Unit, TakenInv, Sending
  <2> QED BY <1>7, <2>1 DEF SendCopy
<1>8. CASE SendReturn
  BY <1>8 DEF SendReturn, Remaining, PCs
<1>9. CASE SendDone
  <2>1. invalid' \in BOOLEAN /\ pc' \in PCs
    BY <1>9 DEF SendDone, ForgetLocals, PCs
  <2>2. pkt' \in Seq(Nat)
    BY <1>9 DEF SendDone, ForgetLocals
  <2> QED BY <1>9, <2>1, <2>2 DEF SendDone, ForgetLocals
<1>10. CASE SocketError
  <2>1. invalid' \in BOOLEAN /\ pc' \in PCs
    BY <1>10 DEF SocketError, ForgetLocals, PCs
  <2>2. pkt' \in Seq(Nat)
    BY <1>10 DEF SocketError, ForgetLocals
  <2> QED BY <1>10, <2>1, <2>2 DEF SocketError, ForgetLocals
<1>11. CASE NoMoreCommands
  BY <1>11 DEF NoMoreCommands, PCs
<1>12. CASE CmdOther
  BY <1>12 DEF CmdOther
<1>13. ASSUME NEW d \in Delays, CmdStart(d) PROVE TypeOK'
  BY <1>13 DEF CmdStart, PCs
<1>14. CASE SetupIgnore
  <2>1. data' \in [Bufs -> [Index -> Nat]]
    BY <1>14 DEF SetupIgnore
  <2>2. raced' \in BOOLEAN /\ live' \in BOOLEAN
    BY <1>14 DEF SetupIgnore
  <2> QED BY <1>14, <2>1, <2>2 DEF SetupIgnore, SetupArgs
<1>15. ASSUME NEW x \in SetupStores, CaptureSetup(x) PROVE TypeOK'
  BY <1>15 DEF CaptureSetup, SetupArgs, NsampleAfter, Bufs
<1>16. CASE TriggerIsrStart
  BY <1>16 DEF TriggerIsrStart, PCs
<1>17. CASE CmdStop
  <2>1. enabled' \in BOOLEAN
    BY <1>17 DEF CmdStop
  <2> QED BY <1>17, <2>1 DEF CmdStop
<1>18. CASE Connect
  <2>1. enabled' \in BOOLEAN /\ started' \in BOOLEAN /\ pc' \in PCs
    BY <1>18 DEF Connect, PCs
  <2> QED BY <1>18, <2>1 DEF Connect
<1>19. CASE DisconnectStop
  <2>1. enabled' \in BOOLEAN /\ started' \in BOOLEAN /\ pc' \in PCs
    BY <1>19 DEF DisconnectStop, PCs
  <2> QED BY <1>19, <2>1 DEF DisconnectStop
<1>20. CASE DisconnectEmpty
  <2>1. buf_full' \in BOOLEAN /\ pc' \in PCs
    BY <1>20 DEF DisconnectEmpty, CaptureSetEmpty, PCs
  <2> QED BY <1>20, <2>1 DEF DisconnectEmpty
<1>21. CASE UNCHANGED vars
  BY <1>21 DEF vars
<1> QED
  BY <1>1, <1>2, <1>3, <1>4, <1>5, <1>6, <1>7, <1>8, <1>9, <1>10, <1>11, <1>12,
     <1>13, <1>14, <1>15, <1>16, <1>17, <1>18, <1>19, <1>20, <1>21
  DEF Next, Main

\* The trigger stays off until capture_setup is complete, and a START that finds it on
\* leaves the buffer pointer and the index in bounds after every one of its stores.
LEMMA TriggerStep == IndInv /\ [Next]_vars => TriggerInv'
<1> SUFFICES ASSUME TypeOK, TriggerInv, [Next]_vars PROVE TriggerInv'
  BY DEF IndInv
<1> USE CaptureAssumption DEF TypeOK, TriggerInv, IsrWritesInBounds, Sending, isrVars, sendVars, ghosts
<1>1. CASE CaptureIsr
  BY <1>1 DEF CaptureIsr, CompleteBuffer, KeepFilling, BufferComplete, FirstIndex, Other, Bufs
<1>2. CASE CaptureReadEmpty
  BY <1>2 DEF CaptureReadEmpty
<1>3. CASE CaptureReadFull
  BY <1>3 DEF CaptureReadFull
<1>4. ASSUME NEW x \in ReadAccesses, CaptureReadAccess(x) PROVE TriggerInv'
  BY <1>4 DEF CaptureReadAccess, FullAfter
<1>5. CASE HeaderAppend
  BY <1>5 DEF HeaderAppend
<1>6. ASSUME NEW k \in 0 .. tosend, SendRoom(k) PROVE TriggerInv'
  BY <1>6 DEF SendRoom
<1>7. CASE SendCopy
  BY <1>7 DEF SendCopy
<1>8. CASE SendReturn
  BY <1>8 DEF SendReturn
<1>9. CASE SendDone
  BY <1>9 DEF SendDone
<1>10. CASE SocketError
  BY <1>10 DEF SocketError
<1>11. CASE NoMoreCommands
  BY <1>11 DEF NoMoreCommands
<1>12. CASE CmdOther
  BY <1>12 DEF CmdOther
<1>13. ASSUME NEW d \in Delays, CmdStart(d) PROVE TriggerInv'
  BY <1>13 DEF CmdStart, SetupStores
<1>14. CASE SetupIgnore
  BY <1>14 DEF SetupIgnore
<1>15. ASSUME NEW x \in SetupStores, CaptureSetup(x) PROVE TriggerInv'
  BY <1>15 DEF CaptureSetup, SetupArgs, NsampleAfter, Bufs, SetupStores
<1>16. CASE TriggerIsrStart
  BY <1>16 DEF TriggerIsrStart
<1>17. CASE CmdStop
  BY <1>17 DEF CmdStop
<1>18. CASE Connect
  BY <1>18 DEF Connect
<1>19. CASE DisconnectStop
  BY <1>19 DEF DisconnectStop
<1>20. CASE DisconnectEmpty
  BY <1>20 DEF DisconnectEmpty, CaptureSetEmpty
<1>21. CASE UNCHANGED vars
  BY <1>21 DEF vars
<1> QED
  BY <1>1, <1>2, <1>3, <1>4, <1>5, <1>6, <1>7, <1>8, <1>9, <1>10, <1>11, <1>12,
     <1>13, <1>14, <1>15, <1>16, <1>17, <1>18, <1>19, <1>20, <1>21
  DEF Next, Main

\* Only a START turns the trigger on, and a disconnection turns it off and empties
\* the buffer, in this order.
LEMMA StartStep == IndInv /\ [Next]_vars => StartInv'
<1> SUFFICES ASSUME TypeOK, StartInv, [Next]_vars PROVE StartInv'
  BY DEF IndInv
<1> USE CaptureAssumption DEF TypeOK, StartInv, NoDataBeforeStart, Sending, isrVars, sendVars, ghosts
<1>1. CASE CaptureIsr
  BY <1>1 DEF CaptureIsr, CompleteBuffer, KeepFilling
<1>2. CASE CaptureReadEmpty
  BY <1>2 DEF CaptureReadEmpty
<1>3. CASE CaptureReadFull
  BY <1>3 DEF CaptureReadFull
<1>4. ASSUME NEW x \in ReadAccesses, CaptureReadAccess(x) PROVE StartInv'
  BY <1>4 DEF CaptureReadAccess, FullAfter
<1>5. CASE HeaderAppend
  BY <1>5 DEF HeaderAppend
<1>6. ASSUME NEW k \in 0 .. tosend, SendRoom(k) PROVE StartInv'
  BY <1>6 DEF SendRoom
<1>7. CASE SendCopy
  BY <1>7 DEF SendCopy
<1>8. CASE SendReturn
  BY <1>8 DEF SendReturn
<1>9. CASE SendDone
  BY <1>9 DEF SendDone
<1>10. CASE SocketError
  BY <1>10 DEF SocketError
<1>11. CASE NoMoreCommands
  BY <1>11 DEF NoMoreCommands
<1>12. CASE CmdOther
  BY <1>12 DEF CmdOther
<1>13. ASSUME NEW d \in Delays, CmdStart(d) PROVE StartInv'
  BY <1>13 DEF CmdStart
<1>14. CASE SetupIgnore
  BY <1>14 DEF SetupIgnore
<1>15. ASSUME NEW x \in SetupStores, CaptureSetup(x) PROVE StartInv'
  BY <1>15 DEF CaptureSetup
<1>16. CASE TriggerIsrStart
  BY <1>16 DEF TriggerIsrStart
<1>17. CASE CmdStop
  BY <1>17 DEF CmdStop
<1>18. CASE Connect
  BY <1>18 DEF Connect
<1>19. CASE DisconnectStop
  BY <1>19 DEF DisconnectStop
<1>20. CASE DisconnectEmpty
  BY <1>20 DEF DisconnectEmpty, CaptureSetEmpty
<1>21. CASE UNCHANGED vars
  BY <1>21 DEF vars
<1> QED
  BY <1>1, <1>2, <1>3, <1>4, <1>5, <1>6, <1>7, <1>8, <1>9, <1>10, <1>11, <1>12,
     <1>13, <1>14, <1>15, <1>16, <1>17, <1>18, <1>19, <1>20, <1>21
  DEF Next, Main

\* Taking the waiting buffer of a stopped trigger uses the one packet up.
LEMMA TailStep == IndInv /\ [Next]_vars => TailInv'
<1> SUFFICES ASSUME TypeOK, TailInv, [Next]_vars PROVE TailInv'
  BY DEF IndInv
<1> USE CaptureAssumption DEF TypeOK, TailInv, OneTailPacket, isrVars, sendVars, ghosts
<1>1. CASE CaptureIsr
  BY <1>1 DEF CaptureIsr, CompleteBuffer, KeepFilling
<1>2. CASE CaptureReadEmpty
  BY <1>2 DEF CaptureReadEmpty
<1>3. CASE CaptureReadFull
  BY <1>3 DEF CaptureReadFull, ReadAccesses
<1>4. ASSUME NEW x \in ReadAccesses, CaptureReadAccess(x) PROVE TailInv'
  BY <1>4 DEF CaptureReadAccess, FullAfter, MayExecute
<1>5. CASE HeaderAppend
  BY <1>5 DEF HeaderAppend
<1>6. ASSUME NEW k \in 0 .. tosend, SendRoom(k) PROVE TailInv'
  BY <1>6 DEF SendRoom
<1>7. CASE SendCopy
  BY <1>7 DEF SendCopy
<1>8. CASE SendReturn
  BY <1>8 DEF SendReturn
<1>9. CASE SendDone
  BY <1>9 DEF SendDone
<1>10. CASE SocketError
  BY <1>10 DEF SocketError
<1>11. CASE NoMoreCommands
  BY <1>11 DEF NoMoreCommands
<1>12. CASE CmdOther
  BY <1>12 DEF CmdOther
<1>13. ASSUME NEW d \in Delays, CmdStart(d) PROVE TailInv'
  BY <1>13 DEF CmdStart
<1>14. CASE SetupIgnore
  BY <1>14 DEF SetupIgnore
<1>15. ASSUME NEW x \in SetupStores, CaptureSetup(x) PROVE TailInv'
  BY <1>15 DEF CaptureSetup
<1>16. CASE TriggerIsrStart
  BY <1>16 DEF TriggerIsrStart
<1>17. CASE CmdStop
  BY <1>17 DEF CmdStop
<1>18. CASE Connect
  BY <1>18 DEF Connect
<1>19. CASE DisconnectStop
  BY <1>19 DEF DisconnectStop
<1>20. CASE DisconnectEmpty
  BY <1>20 DEF DisconnectEmpty, CaptureSetEmpty
<1>21. CASE UNCHANGED vars
  BY <1>21 DEF vars
<1> QED
  BY <1>1, <1>2, <1>3, <1>4, <1>5, <1>6, <1>7, <1>8, <1>9, <1>10, <1>11, <1>12,
     <1>13, <1>14, <1>15, <1>16, <1>17, <1>18, <1>19, <1>20, <1>21
  DEF Next, Main

\* send() is asked for tosend and accepts at most that; subtracting the running total
\* instead of the last count only makes tosend smaller.
LEMMA SendStep == IndInv /\ [Next]_vars => SendInv'
<1> SUFFICES ASSUME TypeOK, TriggerInv, SendInv, [Next]_vars PROVE SendInv'
  BY DEF IndInv
<1> USE CaptureAssumption DEF TypeOK, SendInv, SendInBounds, Sending, PacketLen, isrVars, sendVars, ghosts
<1>1. CASE CaptureIsr
  BY <1>1 DEF CaptureIsr
<1>2. CASE CaptureReadEmpty
  BY <1>2 DEF CaptureReadEmpty
<1>3. CASE CaptureReadFull
  BY <1>3 DEF CaptureReadFull
<1>4. ASSUME NEW x \in ReadAccesses, CaptureReadAccess(x) PROVE SendInv'
  BY <1>4 DEF CaptureReadAccess
<1>5. CASE HeaderAppend
  BY <1>5 DEF HeaderAppend, TriggerInv
<1>6. ASSUME NEW k \in 0 .. tosend, SendRoom(k) PROVE SendInv'
  BY <1>6 DEF SendRoom
<1>7. CASE SendCopy
  BY <1>7 DEF SendCopy
<1>8. CASE SendReturn
  BY <1>8 DEF SendReturn, Remaining
<1>9. CASE SendDone
  BY <1>9 DEF SendDone, ForgetLocals
<1>10. CASE SocketError
  BY <1>10 DEF SocketError, ForgetLocals
<1>11. CASE NoMoreCommands
  BY <1>11 DEF NoMoreCommands
<1>12. CASE CmdOther
  BY <1>12 DEF CmdOther
<1>13. ASSUME NEW d \in Delays, CmdStart(d) PROVE SendInv'
  BY <1>13 DEF CmdStart
<1>14. CASE SetupIgnore
  BY <1>14 DEF SetupIgnore
<1>15. ASSUME NEW x \in SetupStores, CaptureSetup(x) PROVE SendInv'
  BY <1>15 DEF CaptureSetup
<1>16. CASE TriggerIsrStart
  BY <1>16 DEF TriggerIsrStart
<1>17. CASE CmdStop
  BY <1>17 DEF CmdStop
<1>18. CASE Connect
  BY <1>18 DEF Connect
<1>19. CASE DisconnectStop
  BY <1>19 DEF DisconnectStop
<1>20. CASE DisconnectEmpty
  BY <1>20 DEF DisconnectEmpty
<1>21. CASE UNCHANGED vars
  BY <1>21 DEF vars
<1> QED
  BY <1>1, <1>2, <1>3, <1>4, <1>5, <1>6, <1>7, <1>8, <1>9, <1>10, <1>11, <1>12,
     <1>13, <1>14, <1>15, <1>16, <1>17, <1>18, <1>19, <1>20, <1>21
  DEF Next, Main

\* buffers_to_ignore is what is left of delay, and once it is 0 it stays so until the
\* next START.
LEMMA BlankStep == IndInv /\ [Next]_vars => BlankInv'
<1> SUFFICES ASSUME TypeOK, BlankInv, [Next]_vars PROVE BlankInv'
  BY DEF IndInv
<1> USE CaptureAssumption DEF TypeOK, BlankInv, BlankingIsPrefix, CountedDown, Countdown, Sending, isrVars,
        sendVars, ghosts
<1>1. CASE CaptureIsr
  <2>0. delay \in Int /\ completed \in Nat /\ delay' = delay
        /\ completed' \in {completed, completed + 1}
    BY <1>1 DEF CaptureIsr, CompleteBuffer, KeepFilling
  <2>1. CountedDown => CountedDown'
    BY <2>0
  <2>2. buffers_to_ignore' = Countdown'
    <3>1. CASE CompleteBuffer
      <4>1. completed' = completed + 1
            /\ buffers_to_ignore' = IF buffers_to_ignore # 0 THEN buffers_to_ignore - 1
                                     ELSE buffers_to_ignore
        BY <3>1 DEF CompleteBuffer
      <4> QED BY <2>0, <4>1
    <3>2. CASE KeepFilling
      BY <2>0, <3>2 DEF KeepFilling
    <3> QED BY <1>1, <3>1, <3>2 DEF CaptureIsr
  <2>3. UNCHANGED <<pc, todo, sendVars, live>>
    BY <1>1 DEF CaptureIsr
  <2> QED BY <2>1, <2>2, <2>3
<1>2. CASE CaptureReadEmpty
  BY <1>2 DEF CaptureReadEmpty
<1>3. CASE CaptureReadFull
  BY <1>3 DEF CaptureReadFull, ReadAccesses
<1>4. ASSUME NEW x \in ReadAccesses, CaptureReadAccess(x) PROVE BlankInv'
  BY <1>4 DEF CaptureReadAccess, MayExecute
<1>5. CASE HeaderAppend
  BY <1>5 DEF HeaderAppend, IsBlank
<1>6. ASSUME NEW k \in 0 .. tosend, SendRoom(k) PROVE BlankInv'
  BY <1>6 DEF SendRoom
<1>7. CASE SendCopy
  BY <1>7 DEF SendCopy
<1>8. CASE SendReturn
  BY <1>8 DEF SendReturn
<1>9. CASE SendDone
  BY <1>9 DEF SendDone, ForgetLocals
<1>10. CASE SocketError
  BY <1>10 DEF SocketError, ForgetLocals
<1>11. CASE NoMoreCommands
  BY <1>11 DEF NoMoreCommands
<1>12. CASE CmdOther
  BY <1>12 DEF CmdOther
<1>13. ASSUME NEW d \in Delays, CmdStart(d) PROVE BlankInv'
  BY <1>13 DEF CmdStart
<1>14. CASE SetupIgnore
  BY <1>14 DEF SetupIgnore, SetupArgs
<1>15. ASSUME NEW x \in SetupStores, CaptureSetup(x) PROVE BlankInv'
  BY <1>15 DEF CaptureSetup
<1>16. CASE TriggerIsrStart
  BY <1>16 DEF TriggerIsrStart
<1>17. CASE CmdStop
  BY <1>17 DEF CmdStop
<1>18. CASE Connect
  BY <1>18 DEF Connect
<1>19. CASE DisconnectStop
  BY <1>19 DEF DisconnectStop
<1>20. CASE DisconnectEmpty
  BY <1>20 DEF DisconnectEmpty
<1>21. CASE UNCHANGED vars
  BY <1>21 DEF vars
<1> QED
  BY <1>1, <1>2, <1>3, <1>4, <1>5, <1>6, <1>7, <1>8, <1>9, <1>10, <1>11, <1>12,
     <1>13, <1>14, <1>15, <1>16, <1>17, <1>18, <1>19, <1>20, <1>21
  DEF Next, Main

\* Completing a buffer turns the samples of the current one into those of the last
\* completed one; a START that finds the trigger stopped begins with buffers of old
\* samples and index 0.
LEMMA DataStep == IndInv /\ [Next]_vars => DataInv'
<1> SUFFICES ASSUME TypeOK, TriggerInv, DataInv, [Next]_vars PROVE DataInv'
  BY DEF IndInv
<1> USE CaptureAssumption DEF TypeOK, DataInv, Contents, isrVars, sendVars, ghosts
<1>1. CASE CaptureIsr
  <2>0. /\ cur_buf \in Bufs /\ nsample \in Index /\ samples_per_buffer = SPB
        /\ UNCHANGED <<pc, todo, raced, enabled>> /\ enabled
    BY <1>1 DEF CaptureIsr, TriggerInv, IsrWritesInBounds, Index
  <2>1. SUFFICES ASSUME ~raced, pc # "setup" PROVE Contents'
    BY <2>0
  <2>2. data' = [data EXCEPT ![cur_buf][nsample] = completed + 1]
    BY <1>1, <2>0 DEF CaptureIsr
  <2>3. Contents
    BY <2>0, <2>1
  <2>4. CASE BufferComplete
    <3>0. CompleteBuffer
      BY <1>1, <2>4 DEF CaptureIsr
    <3>1. nsample = SPB - 1
      BY <2>0, <2>4 DEF BufferComplete, Index
    <3>2. cur_buf' = Other(cur_buf) /\ Other(cur_buf') = cur_buf /\ Other(cur_buf) \in Bufs
          /\ Other(cur_buf) # cur_buf
      BY <2>0, <3>0 DEF CompleteBuffer, Other, Bufs
    <3>3. nsample' = 0 /\ completed' = completed + 1
      BY <3>0 DEF CompleteBuffer, FirstIndex
    <3> QED BY <2>0, <2>2, <2>3, <3>1, <3>2, <3>3, SMTT(60) DEF Index
  <2>5. CASE ~BufferComplete
    <3>1. nsample' = nsample + 1 /\ completed' = completed /\ cur_buf' = cur_buf
      BY <1>1, <2>5 DEF CaptureIsr, KeepFilling
    <3>2. Other(cur_buf) \in Bufs /\ Other(cur_buf) # cur_buf
      BY <2>0 DEF Other, Bufs
    <3> QED BY <2>0, <2>2, <2>3, <3>1, <3>2, SMTT(60) DEF Index
  <2> QED BY <2>4, <2>5
<1>2. CASE CaptureReadEmpty
  BY <1>2 DEF CaptureReadEmpty
<1>3. CASE CaptureReadFull
  BY <1>3 DEF CaptureReadFull, ReadAccesses
<1>4. ASSUME NEW x \in ReadAccesses, CaptureReadAccess(x) PROVE DataInv'
  BY <1>4 DEF CaptureReadAccess, FullAfter
<1>5. CASE HeaderAppend
  BY <1>5 DEF HeaderAppend
<1>6. ASSUME NEW k \in 0 .. tosend, SendRoom(k) PROVE DataInv'
  BY <1>6 DEF SendRoom
<1>7. CASE SendCopy
  BY <1>7 DEF SendCopy
<1>8. CASE SendReturn
  BY <1>8 DEF SendReturn
<1>9. CASE SendDone
  BY <1>9 DEF SendDone, ForgetLocals
<1>10. CASE SocketError
  BY <1>10 DEF SocketError, ForgetLocals
<1>11. CASE NoMoreCommands
  BY <1>11 DEF NoMoreCommands
<1>12. CASE CmdOther
  BY <1>12 DEF CmdOther
<1>13. ASSUME NEW d \in Delays, CmdStart(d) PROVE DataInv'
  BY <1>13 DEF CmdStart, SetupStores
<1>14. CASE SetupIgnore
  <2>1. /\ pc = "setup" /\ pc' = "setup" /\ "ignore" \notin todo' /\ nsample' = nsample
        /\ "nsample" \in todo' /\ completed' = 0 /\ (~raced' => ~enabled')
    BY <1>14 DEF SetupIgnore, MayExecute
  <2>2. \A b \in Bufs, i \in Index : data'[b][i] = 0
    BY <1>14 DEF SetupIgnore
  <2> QED BY <2>1, <2>2
<1>15. ASSUME NEW x \in SetupStores, CaptureSetup(x) PROVE DataInv'
  BY <1>15 DEF CaptureSetup, NsampleAfter, MayExecute, SetupOrder, SetupStores
<1>16. CASE TriggerIsrStart
  <2>1. /\ cur_buf \in Bufs /\ cur_buf' = cur_buf /\ pc' = "cmds"
        /\ UNCHANGED <<data, raced, nsample, completed>>
    BY <1>16 DEF TriggerIsrStart, TriggerInv
  <2>2. SUFFICES ASSUME ~raced PROVE Contents'
    BY <2>1
  <2>3. completed = 0 /\ nsample = 0 /\ \A b \in Bufs, i \in Index : data[b][i] = 0
    BY <1>16, <2>2 DEF TriggerIsrStart
  <2>4. Other(cur_buf) \in Bufs
    BY DEF Other, Bufs
  <2> QED BY <2>1, <2>3, <2>4 DEF Index
<1>17. CASE CmdStop
  BY <1>17 DEF CmdStop
<1>18. CASE Connect
  BY <1>18 DEF Connect
<1>19. CASE DisconnectStop
  BY <1>19 DEF DisconnectStop
<1>20. CASE DisconnectEmpty
  BY <1>20 DEF DisconnectEmpty, CaptureSetEmpty
<1>21. CASE UNCHANGED vars
  BY <1>21 DEF vars
<1> QED
  BY <1>1, <1>2, <1>3, <1>4, <1>5, <1>6, <1>7, <1>8, <1>9, <1>10, <1>11, <1>12,
     <1>13, <1>14, <1>15, <1>16, <1>17, <1>18, <1>19, <1>20, <1>21
  DEF Next, Main

\* The buffer just fetched is the one being filled; whatever the interrupt writes to
\* it later is newer.
LEMMA TakenStep == IndInv /\ [Next]_vars => TakenInv'
<1> SUFFICES ASSUME TypeOK, TriggerInv, DataInv, TakenInv, [Next]_vars PROVE TakenInv'
  BY DEF IndInv
<1> USE CaptureAssumption DEF TypeOK, TakenInv, Sending, isrVars, sendVars, ghosts
<1>1. CASE CaptureIsr
  <2>0. /\ cur_buf \in Bufs /\ nsample \in Index /\ completed' \in {completed, completed + 1}
        /\ UNCHANGED <<pc, todo, raced, buf, takenAt>>
    BY <1>1 DEF CaptureIsr, TriggerInv, IsrWritesInBounds, Index, CompleteBuffer, KeepFilling
  <2>1. data' = [data EXCEPT ![cur_buf][nsample] = completed + 1]
    BY <1>1, <2>0 DEF CaptureIsr
  <2> QED BY <2>0, <2>1
<1>2. CASE CaptureReadEmpty
  BY <1>2 DEF CaptureReadEmpty
<1>3. CASE CaptureReadFull
  BY <1>3 DEF CaptureReadFull, ReadAccesses
<1>4. ASSUME NEW x \in ReadAccesses, CaptureReadAccess(x) PROVE TakenInv'
  BY <1>4 DEF CaptureReadAccess, FullAfter, TriggerInv, DataInv, Contents, MayExecute
<1>5. CASE HeaderAppend
  BY <1>5 DEF HeaderAppend
<1>6. ASSUME NEW k \in 0 .. tosend, SendRoom(k) PROVE TakenInv'
  BY <1>6 DEF SendRoom
<1>7. CASE SendCopy
  BY <1>7 DEF SendCopy
<1>8. CASE SendReturn
  BY <1>8 DEF SendReturn
<1>9. CASE SendDone
  BY <1>9 DEF SendDone, ForgetLocals
<1>10. CASE SocketError
  BY <1>10 DEF SocketError, ForgetLocals
<1>11. CASE NoMoreCommands
  BY <1>11 DEF NoMoreCommands
<1>12. CASE CmdOther
  BY <1>12 DEF CmdOther
<1>13. ASSUME NEW d \in Delays, CmdStart(d) PROVE TakenInv'
  BY <1>13 DEF CmdStart
<1>14. CASE SetupIgnore
  BY <1>14 DEF SetupIgnore
<1>15. ASSUME NEW x \in SetupStores, CaptureSetup(x) PROVE TakenInv'
  BY <1>15 DEF CaptureSetup
<1>16. CASE TriggerIsrStart
  BY <1>16 DEF TriggerIsrStart
<1>17. CASE CmdStop
  BY <1>17 DEF CmdStop
<1>18. CASE Connect
  BY <1>18 DEF Connect
<1>19. CASE DisconnectStop
  BY <1>19 DEF DisconnectStop
<1>20. CASE DisconnectEmpty
  BY <1>20 DEF DisconnectEmpty
<1>21. CASE UNCHANGED vars
  BY <1>21 DEF vars
<1> QED
  BY <1>1, <1>2, <1>3, <1>4, <1>5, <1>6, <1>7, <1>8, <1>9, <1>10, <1>11, <1>12,
     <1>13, <1>14, <1>15, <1>16, <1>17, <1>18, <1>19, <1>20, <1>21
  DEF Next, Main

\* Once DELAY, being two or more, is counted down, both buffers were filled since the START.
LEMMA PacketStep == IndInv /\ [Next]_vars => PacketInv'
<1> SUFFICES ASSUME TypeOK, TriggerInv, SendInv, BlankInv, DataInv, TakenInv, PacketInv, [Next]_vars PROVE PacketInv'
  BY DEF IndInv
<1> USE CaptureAssumption DEF TypeOK, PacketInv, Sending, isrVars, sendVars, ghosts
<1>1. CASE CaptureIsr
  <2>0. /\ completed' \in {completed, completed + 1}
        /\ UNCHANGED <<pc, raced, pkt, takenAt, invalid, delay>>
    BY <1>1 DEF CaptureIsr, CompleteBuffer, KeepFilling
  <2> QED BY <2>0
<1>2. CASE CaptureReadEmpty
  BY <1>2 DEF CaptureReadEmpty
<1>3. CASE CaptureReadFull
  BY <1>3 DEF CaptureReadFull
<1>4. ASSUME NEW x \in ReadAccesses, CaptureReadAccess(x) PROVE PacketInv'
  BY <1>4 DEF CaptureReadAccess
<1>5. CASE HeaderAppend
  BY <1>5 DEF HeaderAppend
<1>6. ASSUME NEW k \in 0 .. tosend, SendRoom(k) PROVE PacketInv'
  BY <1>6 DEF SendRoom
<1>7. CASE SendCopy
  <2>0. /\ pkt' = Append(pkt, Unit(Len(pkt))) /\ Len(pkt) < PacketLen /\ buf \in Bufs
        /\ UNCHANGED <<pc, raced, completed, takenAt, invalid, delay>>
    BY <1>7 DEF SendCopy, SendInv, SendInBounds, TakenInv, PacketLen
  <2>1. SUFFICES ASSUME ~raced, NEW i \in Hdr + 1 .. Len(pkt) + 1
                 PROVE  /\ takenAt - 1 <= pkt'[i] /\ pkt'[i] <= completed + 1
                        /\ ~invalid /\ delay >= 2 => pkt'[i] # 0
    BY <2>0
  <2>2. CASE i <= Len(pkt)
    BY <1>7, <2>0, <2>1, <2>2 DEF SendCopy
  <2>3. CASE i = Len(pkt) + 1
    <3>1. Len(pkt) - Hdr \in Index /\ pkt'[i] = data[buf][Len(pkt) - Hdr]
      BY <2>0, <2>3 DEF Unit, Index, PacketLen
    <3>2. takenAt - 1 <= pkt'[i] /\ pkt'[i] <= completed + 1
      BY <1>7, <2>1, <3>1 DEF SendCopy, TakenInv
    <3>3. ASSUME ~invalid, delay >= 2 PROVE data[buf][Len(pkt) - Hdr] # 0
      <4>1. completed >= 2
        BY <1>7, <3>3 DEF SendCopy, BlankInv, BlankingIsPrefix, CountedDown
      <4>2. cur_buf \in Bufs /\ (buf = cur_buf \/ buf = Other(cur_buf))
        BY <1>7, <2>0 DEF SendCopy, TriggerInv, Other, Bufs
      <4>3. Contents
        BY <1>7, <2>1, <4>2 DEF SendCopy, DataInv
      <4> QED BY <3>1, <4>1, <4>2, <4>3 DEF Contents
    <3> QED BY <3>1, <3>2, <3>3
  <2>4. Len(pkt) \in Int /\ i \in Int /\ i <= Len(pkt) + 1
    BY <2>1
  <2>5. i <= Len(pkt) \/ i = Len(pkt) + 1
    BY <2>4
  <2> QED BY <2>2, <2>3, <2>5
<1>8. CASE SendReturn
  BY <1>8 DEF SendReturn
<1>9. CASE SendDone
  BY <1>9 DEF SendDone, ForgetLocals
<1>10. CASE SocketError
  BY <1>10 DEF SocketError, ForgetLocals
<1>11. CASE NoMoreCommands
  BY <1>11 DEF NoMoreCommands
<1>12. CASE CmdOther
  BY <1>12 DEF CmdOther
<1>13. ASSUME NEW d \in Delays, CmdStart(d) PROVE PacketInv'
  BY <1>13 DEF CmdStart
<1>14. CASE SetupIgnore
  BY <1>14 DEF SetupIgnore
<1>15. ASSUME NEW x \in SetupStores, CaptureSetup(x) PROVE PacketInv'
  BY <1>15 DEF CaptureSetup
<1>16. CASE TriggerIsrStart
  BY <1>16 DEF TriggerIsrStart
<1>17. CASE CmdStop
  BY <1>17 DEF CmdStop
<1>18. CASE Connect
  BY <1>18 DEF Connect
<1>19. CASE DisconnectStop
  BY <1>19 DEF DisconnectStop
<1>20. CASE DisconnectEmpty
  BY <1>20 DEF DisconnectEmpty
<1>21. CASE UNCHANGED vars
  BY <1>21 DEF vars
<1> QED
  BY <1>1, <1>2, <1>3, <1>4, <1>5, <1>6, <1>7, <1>8, <1>9, <1>10, <1>11, <1>12,
     <1>13, <1>14, <1>15, <1>16, <1>17, <1>18, <1>19, <1>20, <1>21
  DEF Next, Main

\* Nothing is captured, waiting or on its way initially.
LEMMA InitInv == Init => IndInv
<1> SUFFICES ASSUME Init PROVE IndInv
  OBVIOUS
<1>1. TypeOK
  BY TypeInit
<1>2. pc = "down" /\ todo = {} /\ ~enabled /\ ~buf_full /\ tail = 0 /\ cur_buf \notin Bufs
      /\ buffers_to_ignore = 0 /\ delay = 0 /\ completed = 0 /\ ~live
  BY DEF Init, Bufs, NoBuf
<1> QED
  BY <1>1, <1>2 DEF IndInv, TriggerInv, IsrWritesInBounds, StartInv, NoDataBeforeStart,
     TailInv, OneTailPacket, SendInv, SendInBounds, BlankInv, BlankingIsPrefix, Countdown,
     CountedDown, DataInv, TakenInv, PacketInv, Sending

\* The parts together are an inductive invariant.
THEOREM Invariance == Spec => []IndInv
<1>1. IndInv /\ [Next]_vars => IndInv'
  BY TypeStep, TriggerStep, StartStep, TailStep, SendStep, BlankStep, DataStep, TakenStep,
     PacketStep DEF IndInv
<1> QED BY InitInv, <1>1, PTL DEF Spec

\* Every variable keeps its type.
THEOREM TypeCorrect == Spec => []TypeOK
<1>1. IndInv => TypeOK
  BY DEF IndInv
<1> QED BY Invariance, <1>1, PTL

\* The trigger interrupt writes only inside a sample buffer, even when START comes while
\* it runs.
THEOREM IsrSafe == Spec => []IsrWritesInBounds
<1>1. IndInv => IsrWritesInBounds
  BY DEF IndInv, TriggerInv
<1> QED BY Invariance, <1>1, PTL

\* The send loop never reads past its packet.
THEOREM SendSafe == Spec => []SendInBounds
<1>1. IndInv => SendInBounds
  BY DEF IndInv, SendInv
<1> QED BY Invariance, <1>1, PTL

\* No data is sent on a connection before a START on it, and at most one packet after the
\* trigger was stopped.
THEOREM StartStop == Spec => []DataOnlyWhenStarted
<1>1. IndInv => DataOnlyWhenStarted
  BY DEF IndInv, StartInv, TailInv, DataOnlyWhenStarted
<1> QED BY Invariance, <1>1, PTL

\* Packets are blank until DELAY is counted down, and never again until the next START.
THEOREM Blanking == Spec => []BlankingIsPrefix
<1>1. IndInv => BlankingIsPrefix
  BY DEF IndInv, BlankInv
<1> QED BY Invariance, <1>1, PTL

\* A packet holds samples of a bounded age, and with a DELAY of at least two none from
\* before the START unless it says so.
THEOREM Freshness == Spec => []PacketIsFresh
<1>1. IndInv => PacketIsFresh
  BY DEF IndInv, PacketInv, PacketWindow, LiveDataIsFresh, PacketIsFresh, Samples
<1> QED BY Invariance, <1>1, PTL

=============================================================================
