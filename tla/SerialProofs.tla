----------------------------- MODULE SerialProofs ------------------------------
(***************************************************************************)
(* Proofs about the serial driver, for any number of clients, any size of  *)
(* the rings from 2 up, texts of any length and any backlog of the UART.   *)
(***************************************************************************)
EXTENDS Serial, TLAPS

-----------------------------------------------------------------------------
(* The invariant *)

\* Outside serial_interrupt() the interrupt is enabled or has come.
Armed == task \notin {"rx", "clear"} => enabled \/ pending

\* After reply() has looked for a reader, none waits while there is a line, and
\* after it has looked at the transmitter, that is busy or has nothing to do.
Served ==
    /\ task \in {"start", "receive"} => reader = Nobody \/ n_avail = 0
    /\ task = "receive" => ~txidle \/ n_tx = 0

\* RXDRDY is set until serial_interrupt() clears it.
Clearing == task = "clear" => RXDRDY

\* Who waits for what.
Calls ==
    /\ reader # Nobody => request[reader] = Getc
    /\ printer # Nobody => request[printer].call = "PUTBUF"

\* The characters of the request in hand; serial_putc() sends two at most.
Size == IF printer = Nobody THEN 2 ELSE request[printer].n

\* While the transmitter is idle, all that is in the ring is of the request in
\* hand: reply() has been called when the ring had anything else.
Queued ==
    /\ task = "full" => n_tx = NBUF /\ todo > 0
    /\ task \in {"queueing", "full"} => todo <= Size
    /\ task \in {"rx", "clear", "reply", "start"} /\ back = "queueing" => todo <= Size
    /\ task \in {"queueing", "full"} /\ txidle => n_tx + todo <= Size

SInv == TypeOK /\ TransmitterToken /\ Armed /\ Served /\ EveryKeyAnnounced /\ Clearing /\ Calls /\ Queued

-----------------------------------------------------------------------------
(* Requests *)

\* What a request is, and that of each call.
LEMMA RequestFacts ==
    /\ \A r \in Requests : r # None /\ r.n \in Nat
    /\ \A r \in Requests \ {Getc} : r.call \in {"PUTC", "PUTBUF"}
    /\ \A r \in Requests : r.call = "PUTC" => r.n <= 2
    /\ Getc \in Requests /\ Getc.call = "GETC" /\ None.call = "NONE"
<1>1. \A r \in Requests : \/ r = Getc
                          \/ r.call = "PUTC" /\ r.n \in {1, 2}
                          \/ r.call = "PUTBUF" /\ r.n \in Nat
    BY SerialAssumption, SMT DEF Requests, Putc, Putbuf
<1>2. Getc.call = "GETC" /\ Getc.n = 0 /\ None.call = "NONE" /\ Getc \in Requests
    BY DEF Getc, None, Requests
<1> QED
    BY <1>1, <1>2, SMT

-----------------------------------------------------------------------------
(* The steps *)

\* At the start everything is at rest.
LEMMA SInvInit == Init => SInv
<1> SUFFICES ASSUME Init PROVE SInv
    OBVIOUS
<1>1. TypeOK
    <2>1. 0 \in 0 .. NBUF /\ 0 + 0 <= NBUF /\ 0 \in Nat
        BY SerialAssumption, SMT
    <2>2. <<>> \in Seq(Clients) /\ <<>> \in Seq(Keys)
        OBVIOUS
    <2>3. request \in [Clients -> Requests \cup {None}]
        BY Zenon DEF Init
    <2> QED
        BY <2>1, <2>2, <2>3, ZenonT(60) DEF Init, TypeOK, Tasks
<1>2. TransmitterToken /\ Armed /\ Served /\ Calls /\ Queued
    BY DEF Init, TransmitterToken, Armed, Served, Calls, Queued
<1>3. EveryKeyAnnounced /\ Clearing
    BY DEF Init, EveryKeyAnnounced, Announced, Clearing
<1> QED
    BY <1>1, <1>2, <1>3 DEF SInv

\* While the event has not been served, there is a character to read.
LEMMA KeyWaits == SInv /\ task = "rx" /\ RXDRDY => rx # <<>>
<1> SUFFICES ASSUME SInv, task = "rx", RXDRDY PROVE rx # <<>>
    OBVIOUS
<1>1. Len(rx) = missed + 1 /\ missed \in Nat
    BY DEF SInv, TypeOK, EveryKeyAnnounced, Announced
<1> QED
    BY <1>1, SMT

\* The variables keep their types.
LEMMA TypeStep == SInv /\ [Next]_vars => TypeOK'
<1> SUFFICES ASSUME SInv, [Next]_vars PROVE TypeOK'
    OBVIOUS
<1> USE SerialAssumption DEF SInv, TypeOK, Tasks
<1>1. ASSUME NEW k \in Keys, Arrive(k) PROVE TypeOK'
    BY <1>1, SMT DEF Arrive, counts, taskVars, clientVars, irqVars, uartOut
<1>2. CASE Sent
    BY <1>2, ZenonT(60) DEF Sent, counts, taskVars, clientVars, irqVars, uartIn
<1>3. CASE Interrupt
    BY <1>3, ZenonT(60) DEF Interrupt, counts, taskVars, clientVars, uartIn, uartOut
<1>4. ASSUME NEW c \in Clients, NEW r \in Requests, Call(c, r) PROVE TypeOK'
    BY <1>4, SMT DEF Call, counts, taskVars, irqVars, uartIn, uartOut
<1>5. CASE ReceiveInterrupt
    BY <1>5, ZenonT(60) DEF ReceiveInterrupt, counts, clientVars, uartIn, uartOut
<1>6. CASE ReceivePrint
    <2>1. Head(queue) \in Clients /\ Tail(queue) \in Seq(Clients)
        BY <1>6, SMT DEF ReceivePrint
    <2>2. request[Head(queue)] \in Requests /\ request[Head(queue)].n \in Nat
        BY <1>6, <2>1, RequestFacts, SMT DEF ReceivePrint, None
    <2> QED
        BY <1>6, <2>1, <2>2, SMT DEF ReceivePrint, counts, irqVars, uartIn, uartOut
<1>7. CASE ReceiveGetc
    <2>1. Head(queue) \in Clients /\ Tail(queue) \in Seq(Clients)
        BY <1>7, SMT DEF ReceiveGetc
    <2> QED
        BY <1>7, <2>1, ZenonT(60) DEF ReceiveGetc, counts, irqVars, uartIn, uartOut
<1>8. CASE TakeKey
    <2>1. rx # <<>>
        <3>1. task = "rx" /\ RXDRDY
            BY <1>8, Zenon DEF TakeKey
        <3> QED
            BY <3>1, KeyWaits
    <2>2. /\ rx' \in Seq(Keys) /\ task' = "clear"
          /\ UNCHANGED <<back, todo, printer, reader, txidle, queue, request,
                         pending, enabled, RXDRDY, missed, TXDRDY, sending>>
        BY <1>8, <2>1, SMT DEF TakeKey, Goto, clientVars, irqVars, uartOut
    <2>3. /\ n_avail' \in 0 .. NBUF /\ n_edit' \in 0 .. NBUF /\ n_tx' \in 0 .. NBUF
          /\ n_avail' + n_edit' <= NBUF
        BY <1>8, SMT DEF TakeKey, keypress, echo, counts
    <2> QED
        BY <2>2, <2>3
<1>9. CASE FinishInterrupt
    BY <1>9, ZenonT(60) DEF FinishInterrupt, Transmitted, Goto, counts, clientVars
<1>10. CASE Deliver
    BY <1>10, SMT DEF Deliver, Goto, irqVars, uartIn, uartOut
<1>11. CASE StartTransmission
    <2>1. n_tx' = n_tx \/ (n_tx > 0 /\ n_tx' = n_tx - 1)
        BY <1>11, Zenon DEF StartTransmission
    <2>2. n_tx' \in 0 .. NBUF
        BY <2>1, SMT
    <2>3. sending' \in BOOLEAN /\ txidle' \in BOOLEAN
        BY <1>11, Zenon DEF StartTransmission
    <2> QED
        BY <1>11, <2>2, <2>3, ZenonT(60) DEF StartTransmission, clientVars, irqVars, uartIn
<1>12. CASE QueueChar
    BY <1>12, SMT DEF QueueChar, clientVars, irqVars, uartIn, uartOut
<1>13. CASE WaitForSpace
    BY <1>13, SMT DEF WaitForSpace, Goto, counts, clientVars, irqVars, uartIn, uartOut
<1>14. CASE Printed
    BY <1>14, SMT DEF Printed, counts, irqVars, uartIn, uartOut
<1>15. CASE UNCHANGED vars
    BY <1>15, SMT DEF vars, counts, taskVars, clientVars, irqVars, uartIn, uartOut
<1> QED
    BY <1>1, <1>2, <1>3, <1>4, <1>5, <1>6, <1>7, <1>8, <1>9, <1>10, <1>11, <1>12,
       <1>13, <1>14, <1>15 DEF Next, TaskStep

\* The transmitter is believed busy from the start of a transmission to the
\* handling of its event.
LEMMA TokenStep == SInv /\ [Next]_vars => TransmitterToken'
<1> SUFFICES ASSUME TransmitterToken, [Next]_vars PROVE TransmitterToken'
    BY DEF SInv
<1> USE DEF TransmitterToken
<1>1. CASE Sent
    BY <1>1, Zenon DEF Sent
<1>2. CASE FinishInterrupt
    BY <1>2, Zenon DEF FinishInterrupt, Transmitted
<1>3. CASE StartTransmission
    BY <1>3, Zenon DEF StartTransmission
<1>4. CASE UNCHANGED <<txidle, sending, TXDRDY>>
    BY <1>4, Zenon
<1>5. ASSUME NEW k \in Keys, Arrive(k) PROVE UNCHANGED <<txidle, sending, TXDRDY>>
    BY <1>5, Zenon DEF Arrive, uartOut
<1>6. CASE Interrupt
    BY <1>6, <1>4, Zenon DEF Interrupt, uartOut
<1>7. ASSUME NEW c \in Clients, NEW r \in Requests, Call(c, r)
      PROVE UNCHANGED <<txidle, sending, TXDRDY>>
    BY <1>7, Zenon DEF Call, uartOut
<1>8. ASSUME ReceiveInterrupt \/ ReceivePrint \/ ReceiveGetc \/ TakeKey \/ Deliver
             \/ QueueChar \/ WaitForSpace \/ Printed
      PROVE UNCHANGED <<txidle, sending, TXDRDY>>
    BY <1>8, Zenon DEF ReceiveInterrupt, ReceivePrint, ReceiveGetc, TakeKey, Deliver,
       QueueChar, WaitForSpace, Printed, uartOut
<1>9. CASE UNCHANGED vars
    BY <1>9, <1>4, Zenon DEF vars, uartOut
<1> QED
    BY <1>1, <1>2, <1>3, <1>4, <1>5, <1>6, <1>7, <1>8, <1>9, Zenon DEF Next, TaskStep

\* What a step does to the interrupt and to the task's place.
LEMMA ArmedStep == SInv /\ [Next]_vars => Armed'
<1> SUFFICES ASSUME Armed, back \in {"receive", "queueing"}, [Next]_vars PROVE Armed'
    BY DEF SInv, TypeOK
<1> USE DEF Armed
<1>1. CASE Interrupt
    BY <1>1, Zenon DEF Interrupt
<1>2. CASE ReceiveInterrupt
    BY <1>2, Zenon DEF ReceiveInterrupt
<1>3. CASE TakeKey
    BY <1>3, Zenon DEF TakeKey, Goto
<1>4. CASE FinishInterrupt
    BY <1>4, Zenon DEF FinishInterrupt, Transmitted
<1>5. CASE UNCHANGED irqVars /\ (task' \notin {"rx", "clear"} => task \notin {"rx", "clear"})
    BY <1>5, Zenon DEF irqVars
<1>6. ASSUME NEW k \in Keys, Arrive(k) PROVE UNCHANGED <<irqVars, task>>
    BY <1>6, Zenon DEF Arrive, taskVars
<1>7. CASE Sent
    BY <1>7, <1>5, Zenon DEF Sent, taskVars
<1>8. ASSUME NEW c \in Clients, NEW r \in Requests, Call(c, r)
      PROVE UNCHANGED <<irqVars, task>>
    BY <1>8, Zenon DEF Call, taskVars
<1>9. ASSUME ReceivePrint \/ ReceiveGetc \/ Deliver \/ StartTransmission
             \/ QueueChar \/ WaitForSpace \/ Printed
      PROVE UNCHANGED irqVars /\ task \notin {"rx", "clear"}
    BY <1>9, Zenon DEF ReceivePrint, ReceiveGetc, Deliver, StartTransmission,
       QueueChar, WaitForSpace, Printed
<1>10. CASE UNCHANGED vars
    BY <1>10, <1>5, Zenon DEF vars, taskVars
<1> QED
    BY <1>1, <1>2, <1>3, <1>4, <1>5, <1>6, <1>7, <1>8, <1>9, <1>10, Zenon
       DEF Next, TaskStep

\* reply() has looked for a reader before it looks at the transmitter, and at both
\* before the main loop waits.
LEMMA ServedStep == SInv /\ [Next]_vars => Served'
<1> SUFFICES ASSUME SInv, [Next]_vars PROVE Served'
    OBVIOUS
<1> USE DEF Served
<1>1. CASE Deliver
    <2>1. task' = "start" /\ (reader' = Nobody \/ ~(n_avail > 0))
        BY <1>1, Zenon DEF Deliver, Goto
    <2>2. n_avail > 0 \/ n_avail = 0
        BY SerialAssumption, SMT DEF SInv, TypeOK
    <2> QED
        BY <1>1, <2>1, <2>2, Zenon DEF Deliver, Goto
<1>2. CASE StartTransmission
    <2>1. n_tx > 0 \/ n_tx = 0
        BY SerialAssumption, SMT DEF SInv, TypeOK
    <2>2. UNCHANGED <<reader, n_avail>> /\ (~txidle' \/ n_tx' = 0) /\ task' # "start"
        BY <1>2, <2>1, Zenon DEF StartTransmission, SInv, TypeOK
    <2> QED
        BY <1>2, <2>2, Zenon DEF StartTransmission, SInv
<1>3. CASE task' \notin {"start", "receive"}
    BY <1>3, Zenon
<1>4. CASE UNCHANGED <<task, reader, n_avail, n_tx, txidle>>
    BY <1>4, Zenon DEF SInv
<1>5. ASSUME NEW k \in Keys, Arrive(k)
      PROVE UNCHANGED <<task, reader, n_avail, n_tx, txidle>>
    BY <1>5, Zenon DEF Arrive, taskVars, counts
<1>6. ASSUME Sent \/ Interrupt \/ UNCHANGED vars
      PROVE UNCHANGED <<task, reader, n_avail, n_tx, txidle>>
    BY <1>6, Zenon DEF Sent, Interrupt, vars, taskVars, counts
<1>7. ASSUME NEW c \in Clients, NEW r \in Requests, Call(c, r)
      PROVE UNCHANGED <<task, reader, n_avail, n_tx, txidle>>
    BY <1>7, Zenon DEF Call, taskVars, counts
<1>8. ASSUME ReceiveInterrupt \/ ReceivePrint \/ ReceiveGetc \/ TakeKey
             \/ FinishInterrupt \/ WaitForSpace \/ Printed
      PROVE task' \notin {"start", "receive"}
    BY <1>8, Zenon DEF ReceiveInterrupt, ReceivePrint, ReceiveGetc, TakeKey,
       FinishInterrupt, Transmitted, WaitForSpace, Printed, Goto
<1>9. ASSUME QueueChar PROVE task' \notin {"start", "receive"}
    BY <1>9, Zenon DEF QueueChar
<1> QED
    BY <1>1, <1>2, <1>3, <1>4, <1>5, <1>6, <1>7, <1>8, <1>9, Zenon DEF Next, TaskStep

\* The receiver's event is set with each character, and cleared after one has
\* been taken: which loses the event of those that came in between.
LEMMA AnnouncedStep == SInv /\ [Next]_vars => EveryKeyAnnounced'
<1> SUFFICES ASSUME SInv, [Next]_vars PROVE Len(rx') = missed' + Announced'
    BY DEF EveryKeyAnnounced
<1>0. /\ Len(rx) = missed + Announced /\ rx \in Seq(Keys) /\ missed \in Nat
      /\ RXDRDY \in BOOLEAN /\ task \in Tasks
    BY DEF SInv, TypeOK, EveryKeyAnnounced
<1>1. ASSUME NEW k \in Keys, Arrive(k) PROVE Len(rx') = missed' + Announced'
    <2>1. /\ rx' = Append(rx, k) /\ RXDRDY' = TRUE /\ task' = task
          /\ missed' = IF RXDRDY THEN missed + 1 ELSE missed
        BY <1>1, Zenon DEF Arrive, taskVars
    <2>2. Len(rx') = Len(rx) + 1
        BY <1>0, <2>1, SMT
    <2>3. task = "clear" => RXDRDY
        BY Zenon DEF SInv, Clearing
    <2>4. Announced' = (IF task # "clear" THEN 1 ELSE 0)
        BY <2>1, Zenon DEF Announced
    <2> QED
        BY <1>0, <2>1, <2>2, <2>3, <2>4, SMT DEF Announced
<1>2. CASE TakeKey
    <2>1. task = "rx" /\ RXDRDY /\ rx' = Tail(rx) /\ task' = "clear" /\ missed' = missed
        BY <1>2, Zenon DEF TakeKey, Goto
    <2>2. Announced = 1 /\ Announced' = 0
        BY <2>1 DEF Announced
    <2> QED
        BY <1>0, <2>1, <2>2, SMT
<1>3. CASE FinishInterrupt
    <2>1. UNCHANGED <<rx, missed>> /\ task' = "reply"
        BY <1>3, Zenon DEF FinishInterrupt, Transmitted, Goto
    <2>2. (task = "rx" /\ ~RXDRDY /\ ~RXDRDY') \/ (task = "clear" /\ ~RXDRDY')
        BY <1>3, Zenon DEF FinishInterrupt
    <2>3. Announced = 0 /\ ~RXDRDY'
        BY <2>2 DEF Announced
    <2> QED
        BY <1>0, <2>1, <2>3 DEF Announced
<1>4. CASE UNCHANGED uartIn /\ task # "clear" /\ task' # "clear"
    BY <1>0, <1>4, Zenon DEF uartIn, Announced
<1>5. CASE UNCHANGED <<uartIn, task>>
    BY <1>0, <1>5, Zenon DEF uartIn, Announced
<1>6. ASSUME Sent \/ Interrupt \/ UNCHANGED vars PROVE UNCHANGED <<uartIn, task>>
    BY <1>6, Zenon DEF Sent, Interrupt, vars, taskVars
<1>7. ASSUME NEW c \in Clients, NEW r \in Requests, Call(c, r)
      PROVE UNCHANGED <<uartIn, task>>
    BY <1>7, Zenon DEF Call, taskVars
<1>8. ASSUME ReceiveInterrupt \/ ReceivePrint \/ ReceiveGetc \/ Deliver
             \/ StartTransmission \/ QueueChar \/ WaitForSpace \/ Printed
      PROVE UNCHANGED uartIn /\ task # "clear" /\ task' # "clear"
    BY <1>8, Zenon DEF ReceiveInterrupt, ReceivePrint, ReceiveGetc, Deliver,
       StartTransmission, QueueChar, WaitForSpace, Printed, Goto, SInv, TypeOK
<1> QED
    BY <1>1, <1>2, <1>3, <1>4, <1>5, <1>6, <1>7, <1>8, Zenon DEF Next, TaskStep

\* The event that has been served is still set until it is cleared.
LEMMA ClearingStep == SInv /\ [Next]_vars => Clearing'
<1> SUFFICES ASSUME SInv, [Next]_vars PROVE Clearing'
    OBVIOUS
<1> USE DEF Clearing
<1>1. ASSUME NEW k \in Keys, Arrive(k) PROVE Clearing'
    BY <1>1, Zenon DEF Arrive
<1>2. CASE TakeKey
    BY <1>2, Zenon DEF TakeKey
<1>3. CASE FinishInterrupt
    <2>1. task' = "reply"
        BY <1>3, Zenon DEF FinishInterrupt, Transmitted, Goto
    <2> QED
        BY <2>1
<1>4. CASE Sent \/ Interrupt \/ UNCHANGED vars
    BY <1>4, Zenon DEF Sent, Interrupt, vars, taskVars, uartIn, SInv
<1>5. ASSUME NEW c \in Clients, NEW r \in Requests, Call(c, r) PROVE Clearing'
    BY <1>5, Zenon DEF Call, taskVars, uartIn, SInv
<1>6. ASSUME ReceiveInterrupt \/ ReceivePrint \/ ReceiveGetc \/ Deliver
             \/ StartTransmission \/ QueueChar \/ WaitForSpace \/ Printed
      PROVE task' # "clear"
    BY <1>6, Zenon DEF ReceiveInterrupt, ReceivePrint, ReceiveGetc, Deliver,
       StartTransmission, QueueChar, WaitForSpace, Printed, Goto, SInv, TypeOK
<1> QED
    BY <1>1, <1>2, <1>3, <1>4, <1>5, <1>6, Zenon DEF Next, TaskStep

\* The request of a client stays as it is until the driver answers it.
LEMMA CallsStep ==
    SInv /\ [Next]_vars =>
        /\ Calls'
        /\ Size' = Size \/ ReceivePrint \/ Printed
<1> SUFFICES ASSUME SInv, [Next]_vars
             PROVE Calls' /\ (Size' = Size \/ ReceivePrint \/ Printed)
    OBVIOUS
<1> USE DEF Calls, Size
<1>1. /\ reader # Nobody => reader \in Clients /\ request[reader] # None
      /\ printer # Nobody => printer \in Clients /\ request[printer] # None
      /\ reader # Nobody /\ printer # Nobody => reader # printer
    <2>1. Getc # None /\ None.call # "PUTBUF" /\ Getc.call # "PUTBUF"
        BY RequestFacts, Zenon DEF Getc, None
    <2> QED
        BY <2>1, Zenon DEF SInv, TypeOK
<1>2. request \in [Clients -> Requests \cup {None}]
    BY DEF SInv, TypeOK
<1>3. CASE UNCHANGED <<reader, printer, request>>
    BY <1>3, Zenon DEF SInv
<1>4. ASSUME NEW c \in Clients, NEW r \in Requests, Call(c, r)
      PROVE Calls' /\ Size' = Size
    <2>1. /\ UNCHANGED <<reader, printer>> /\ request[c] = None
          /\ request' = [request EXCEPT ![c] = r]
        BY <1>4, Zenon DEF Call, taskVars
    <2>2. /\ reader # Nobody => request'[reader] = request[reader]
          /\ printer # Nobody => request'[printer] = request[printer]
        BY <2>1, <1>1, <1>2, Zenon
    <2>3. Calls'
        BY <2>1, <2>2, Zenon DEF SInv
    <2>4. Size' = Size
        <3>1. CASE printer = Nobody
            BY <2>1, <3>1, Zenon
        <3>2. CASE printer # Nobody
            BY <2>1, <2>2, <3>2, SMT
        <3> QED
            BY <3>1, <3>2
    <2> QED
        BY <2>3, <2>4
<1>5. CASE ReceivePrint
    <2>1. PICK c \in Clients : /\ c = Head(queue) /\ request[c] # Getc
        BY <1>5, SMT DEF ReceivePrint, SInv, TypeOK
    <2>2. reader' = reader
        BY <1>5, Zenon DEF ReceivePrint
    <2>3. CASE request' = [request EXCEPT ![c] = None] /\ printer' = Nobody
        BY <2>1, <2>2, <2>3, <1>1, <1>2, <1>5, Zenon DEF SInv
    <2>4. CASE request[c].call = "PUTBUF" /\ printer' = c /\ UNCHANGED request
        BY <2>1, <2>2, <2>4, <1>5, Zenon DEF SInv
    <2> QED
        BY <2>1, <2>3, <2>4, <1>5, Zenon DEF ReceivePrint
<1>6. CASE ReceiveGetc
    BY <1>6, Zenon DEF ReceiveGetc, SInv
<1>7. CASE Deliver
    <2>1. CASE reader # Nobody /\ request' = [request EXCEPT ![reader] = None]
               /\ reader' = Nobody /\ printer' = printer
        <3>1. printer # Nobody => request'[printer] = request[printer]
            BY <2>1, <1>1, <1>2, Zenon
        <3>2. Calls'
            BY <2>1, <3>1, Zenon DEF SInv
        <3>3. Size' = Size
            <4>1. CASE printer = Nobody
                BY <2>1, <4>1, Zenon
            <4>2. CASE printer # Nobody
                BY <2>1, <3>1, <4>2, SMT
            <4> QED
                BY <4>1, <4>2
        <3> QED
            BY <3>2, <3>3
    <2> QED
        BY <1>7, <2>1, <1>3, Zenon DEF Deliver, Goto
<1>8. CASE Printed
    <2>1. /\ request' = [c \in Clients |-> IF c = printer THEN None ELSE request[c]]
          /\ printer' = Nobody /\ reader' = reader
        BY <1>8, Zenon DEF Printed
    <2>2. reader # Nobody => request'[reader] = request[reader]
        BY <2>1, <1>1, Zenon
    <2> QED
        BY <2>1, <2>2, <1>8, Zenon DEF SInv
<1>9. ASSUME NEW k \in Keys, Arrive(k) PROVE UNCHANGED <<reader, printer, request>>
    BY <1>9, Zenon DEF Arrive, taskVars, clientVars
<1>10. ASSUME Sent \/ Interrupt \/ UNCHANGED vars
       PROVE UNCHANGED <<reader, printer, request>>
    BY <1>10, Zenon DEF Sent, Interrupt, vars, taskVars, clientVars
<1>11. ASSUME ReceiveInterrupt \/ TakeKey \/ FinishInterrupt \/ StartTransmission
              \/ QueueChar \/ WaitForSpace
       PROVE UNCHANGED <<reader, printer, request>>
    BY <1>11, Zenon DEF ReceiveInterrupt, TakeKey, FinishInterrupt, Transmitted,
       StartTransmission, QueueChar, WaitForSpace, Goto, taskVars, clientVars
<1> QED
    BY <1>3, <1>4, <1>5, <1>6, <1>7, <1>8, <1>9, <1>10, <1>11, Zenon
       DEF Next, TaskStep

\* Size is a number.
LEMMA SizeType == SInv => Size \in Nat
<1> SUFFICES ASSUME SInv PROVE Size \in Nat
    OBVIOUS
<1>1. None.n \in Nat
    BY DEF None
<1>2. printer # Nobody => request[printer] \in Requests \cup {None}
    BY Zenon DEF SInv, TypeOK
<1>3. printer # Nobody => request[printer].n \in Nat
    BY <1>1, <1>2, RequestFacts, Zenon
<1>4. CASE printer = Nobody
    BY <1>4, SMT DEF Size
<1>5. CASE printer # Nobody
    BY <1>3, <1>5, SMT DEF Size
<1> QED
    BY <1>4, <1>5

\* What is still to be queued is of the request in hand, and so is what has been
\* queued while the transmitter is idle.
LEMMA QueuedStep == SInv /\ [Next]_vars => Queued'
<1> SUFFICES ASSUME SInv, [Next]_vars PROVE Queued'
    OBVIOUS
<1> USE DEF Queued
<1>1. Size' = Size \/ ReceivePrint \/ Printed
    BY CallsStep
<1>2. n_tx \in Nat /\ todo \in Nat /\ n_tx <= NBUF /\ NBUF \in Nat
    BY SerialAssumption, SMT DEF SInv, TypeOK
<1>3. CASE UNCHANGED <<task, back, todo, n_tx, txidle, Size>>
    BY <1>3, Zenon DEF SInv
<1>4. ASSUME task \in {"rx", "clear", "reply"}, task' \in {"clear", "reply", "start"},
             UNCHANGED <<back, todo, Size>>
      PROVE Queued'
    BY <1>4, Zenon DEF SInv
<1>5. CASE ReceivePrint
    <2>1. PICK c \in Clients :
            /\ c = Head(queue) /\ request[c] \in Requests /\ request[c] # Getc
            /\ request[c].n \in Nat
        <3>1. Head(queue) \in Clients
            BY <1>5, SMT DEF ReceivePrint, SInv, TypeOK
        <3>2. request[Head(queue)] \in Requests \cup {None} /\ request[Head(queue)] # Getc
            BY <1>5, <3>1, Zenon DEF ReceivePrint, SInv, TypeOK
        <3>3. request[Head(queue)] # None
            <4>1. request[Head(queue)].call \in {"PUTC", "PUTBUF"}
                BY <1>5, Zenon DEF ReceivePrint
            <4> QED
                BY <4>1, RequestFacts, Zenon
        <3> QED
            BY <3>1, <3>2, <3>3, RequestFacts, Zenon
    <2>2. /\ task' = "queueing" /\ todo' = request[c].n
          /\ UNCHANGED <<n_tx, txidle>>
          /\ txidle => n_tx = 0
        BY <1>5, <2>1, Zenon DEF ReceivePrint, SInv, Served, counts
    <2>3. request[c].n <= Size'
        <3>1. CASE request[c].call = "PUTC" /\ printer' = Nobody
            <4>1. Size' = 2
                BY <3>1, Zenon DEF Size
            <4> QED
                BY <3>1, <4>1, <2>1, RequestFacts, SMT
        <3>2. CASE request[c].call = "PUTBUF" /\ printer' = c /\ UNCHANGED request
            <4>1. Size' = request[c].n
                BY <3>2, <2>1, SerialAssumption, SMT DEF Size
            <4> QED
                BY <4>1, <2>1, SMT
        <3> QED
            BY <1>5, <2>1, <3>1, <3>2, Zenon DEF ReceivePrint
    <2>4. txidle' => n_tx' + todo' <= Size'
        <3>1. txidle' => n_tx' = 0
            BY <2>2, Zenon
        <3>2. n_tx' = 0 => n_tx' + todo' <= Size'
            BY <2>1, <2>2, <2>3, SMT
        <3> QED
            BY <3>1, <3>2
    <2> QED
        BY <2>2, <2>3, <2>4, Zenon
<1>6. CASE Printed
    BY <1>6, Zenon DEF Printed
<1>7. CASE StartTransmission /\ Size' = Size
    <2>1. task' = back /\ UNCHANGED <<back, todo>> /\ task = "start"
        BY <1>7, Zenon DEF StartTransmission
    <2>2. back = "queueing" => todo <= Size
        BY <2>1, Zenon DEF SInv
    <2>3. txidle' => n_tx' = n_tx /\ ~(n_tx > 0)
        BY <1>7, Zenon DEF StartTransmission
    <2>4. ~(n_tx > 0) /\ todo <= Size => n_tx + todo <= Size
        BY <1>2, SMT
    <2>5. back # "full"
        BY Zenon DEF SInv, TypeOK
    <2> QED
        BY <1>7, <2>1, <2>2, <2>3, <2>4, <2>5, Zenon DEF SInv, TypeOK
<1>8. CASE QueueChar /\ Size' = Size
    <2>1. /\ task = "queueing" /\ n_tx' = n_tx + 1 /\ todo' = todo - 1
          /\ UNCHANGED <<txidle, task>>
          /\ todo <= Size
          /\ txidle => n_tx + todo <= Size
        BY <1>8, Zenon DEF QueueChar, SInv
    <2>2. Size \in Nat
        BY SizeType
    <2>3. /\ todo <= Size => todo - 1 <= Size
          /\ n_tx + todo <= Size => (n_tx + 1) + (todo - 1) <= Size
        BY <1>2, <2>2, SMT
    <2> QED
        BY <1>8, <2>1, <2>3, Zenon
<1>9. CASE WaitForSpace /\ Size' = Size
    BY <1>9, Zenon DEF WaitForSpace, Goto, counts, SInv
<1>10. CASE ReceiveInterrupt /\ Size' = Size
    BY <1>10, Zenon DEF ReceiveInterrupt, SInv
<1>11. CASE ReceiveGetc /\ Size' = Size
    BY <1>11, Zenon DEF ReceiveGetc
<1>12. CASE (TakeKey \/ FinishInterrupt \/ Deliver) /\ Size' = Size
    BY <1>12, <1>4, Zenon DEF TakeKey, FinishInterrupt, Transmitted, Deliver, Goto
<1>13. ASSUME NEW k \in Keys, Arrive(k)
       PROVE UNCHANGED <<task, back, todo, n_tx, txidle>>
    BY <1>13, Zenon DEF Arrive, taskVars, counts
<1>14. ASSUME Sent \/ Interrupt \/ UNCHANGED vars
       PROVE UNCHANGED <<task, back, todo, n_tx, txidle>>
    BY <1>14, Zenon DEF Sent, Interrupt, vars, taskVars, counts
<1>15. ASSUME NEW c \in Clients, NEW r \in Requests, Call(c, r)
       PROVE UNCHANGED <<task, back, todo, n_tx, txidle>>
    BY <1>15, Zenon DEF Call, taskVars, counts
<1>16. CASE Size' = Size
    BY <1>16, <1>3, <1>5, <1>6, <1>7, <1>8, <1>9, <1>10, <1>11, <1>12, <1>13,
       <1>14, <1>15, Zenon DEF Next, TaskStep
<1> QED
    BY <1>1, <1>5, <1>6, <1>16

-----------------------------------------------------------------------------
(* The theorems *)

\* SInv is an invariant.
LEMMA SInvAlways == Spec => []SInv
<1>1. SInv /\ [Next]_vars => SInv'
    BY TypeStep, TokenStep, ArmedStep, ServedStep, AnnouncedStep, ClearingStep, CallsStep, QueuedStep
       DEF SInv
<1> QED
    BY SInvInit, <1>1, PTL DEF Spec

\* The counts stay within the rings, and every variable within its type.
THEOREM TypeAlways == Spec => []TypeOK
<1>1. SInv => TypeOK
    BY DEF SInv
<1> QED
    BY SInvAlways, <1>1, PTL

\* A transmission is started only when the one before has ended and its event
\* been handled, and the event of one that has ended is never lost.
THEOREM TransmitterTokenAlways == Spec => []TransmitterToken
<1>1. SInv => TransmitterToken
    BY DEF SInv
<1> QED
    BY SInvAlways, <1>1, PTL

\* When the task waits, for a message or for space in the ring, it has left no
\* reader, output or event undone: however the interrupts fall between its
\* steps.
THEOREM NothingForgottenAlways == Spec => []NothingForgotten
<1>1. SInv => NothingForgotten
    <2> SUFFICES ASSUME SInv PROVE NothingForgotten
        OBVIOUS
    <2>1. n_avail = 0 => ~(n_avail > 0)
        BY SMT
    <2>2. n_tx = 0 => ~(n_tx > 0)
        BY SMT
    <2> QED
        BY <2>1, <2>2, Zenon DEF SInv, NothingForgotten, Served, Armed
<1> QED
    BY SInvAlways, <1>1, PTL

\* The UART holds one character for its event, and otherwise only those that
\* came while the event was still set for one before: whatever the driver was
\* doing at the time.
THEOREM EveryKeyAnnouncedAlways == Spec => []EveryKeyAnnounced
<1>1. SInv => EveryKeyAnnounced
    BY DEF SInv
<1> QED
    BY SInvAlways, <1>1, PTL

\* With rings of 2 characters or more, the only thing that can leave the driver
\* waiting for space that will not appear is a print_buf() of more than NBUF
\* characters.
THEOREM StuckOnlyByLongTextAlways ==
    ASSUME NBUF >= 2
    PROVE  Spec => []StuckOnlyByLongText
<1>1. SInv => StuckOnlyByLongText
    <2> SUFFICES ASSUME SInv, Stuck PROVE printer # Nobody /\ request[printer].n > NBUF
        BY DEF StuckOnlyByLongText
    <2>1. n_tx = NBUF /\ todo > 0 /\ n_tx + todo <= Size
        BY Zenon DEF SInv, Queued, Stuck
    <2>2. todo \in Nat /\ NBUF \in Nat
        BY SerialAssumption DEF SInv, TypeOK
    <2>3. CASE printer = Nobody
        <3>1. Size = 2
            BY <2>3 DEF Size
        <3> QED
            BY <2>1, <2>2, <3>1, SMT
    <2>4. CASE printer # Nobody
        <3>1. Size = request[printer].n
            BY <2>4 DEF Size
        <3>2. request[printer].n \in Nat
            BY <3>1, SizeType, Zenon
        <3> QED
            BY <2>1, <2>2, <2>4, <3>1, <3>2, SMT
    <2> QED
        BY <2>3, <2>4
<1> QED
    BY SInvAlways, <1>1, PTL
=============================================================================
