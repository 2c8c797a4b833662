------------------------------- MODULE Serial -------------------------------
(***************************************************************************)
(* The serial driver of serial.c (for the micro:bit's UART): its task, the *)
(* clients that call serial_putc(), serial_getc() and print_buf(), and the *)
(* UART as the driver uses it.  The rings are given by their counts here;  *)
(* Rings has their contents.                                               *)
(*                                                                         *)
(* The task has the priority of interrupt handlers and shares its state    *)
(* with nobody, so a step is a stretch between two accesses to the UART.   *)
(* Requests wait in a queue, and a pending interrupt is received before    *)
(* any of them, as in Kernel; that a waiting task is given its message at  *)
(* once is the case of a Receive step that follows immediately.            *)
(***************************************************************************)
EXTENDS Integers, Sequences

CONSTANTS
    Clients,        \* Processes that use the driver
    NBUF,           \* Size of the rings
    Lengths,        \* How many characters a print_buf() sends, each '\n'
                    \* being sent as two
    Fifo            \* Bound: characters the UART holds for the driver

Nobody == "nobody"

ASSUME SerialAssumption ==
    /\ NBUF \in Nat \ {0} /\ Fifo \in Nat \ {0}
    /\ Lengths \subseteq Nat
    /\ Nobody \notin Clients

\* The keys that keypress() tells apart.
Keys == {"character", "erase", "enter"}

\* A request and the number of characters it sends.
None == [call |-> "NONE", n |-> 0]
Getc == [call |-> "GETC", n |-> 0]
Putc(n) == [call |-> "PUTC", n |-> n]
Putbuf(n) == [call |-> "PUTBUF", n |-> n]

Requests == {Getc} \cup {Putc(n) : n \in {1, 2}} \cup {Putbuf(n) : n \in Lengths}

VARIABLES
    n_avail,        \* Characters in complete lines
    n_edit,         \* Characters in the line that is being typed
    n_tx,           \* Characters to be sent
    reader,         \* The client that waits for a character
    txidle,         \* The transmitter is believed idle
    task,           \* Where the task is
    back,           \* Where it goes on after reply()
    todo,           \* Characters of the request that are still to be queued
    printer,        \* The client that waits for the end of its print_buf()
    queue,          \* Clients that wait to send a request, in order
    request,        \* request[c]: what c has asked for
    pending,        \* The kernel holds an INTERRUPT for the task
    enabled,        \* The UART's interrupt is enabled
    rx,             \* Characters received by the UART and not yet read
    RXDRDY, TXDRDY, \* The UART's events
    sending,        \* The UART is sending a character
    missed          \* Ghost: characters that came while RXDRDY was still set
                    \* for one before them

counts == <<n_avail, n_edit, n_tx>>
taskVars == <<task, back, todo, printer>>
clientVars == <<queue, request>>
irqVars == <<pending, enabled>>
uartIn == <<rx, RXDRDY, missed>>
uartOut == <<TXDRDY, sending>>
vars == <<counts, reader, txidle, taskVars, clientVars, irqVars, uartIn, uartOut>>

Init ==
    /\ n_avail = 0 /\ n_edit = 0 /\ n_tx = 0
    /\ reader = Nobody /\ txidle = TRUE
    /\ task = "receive" /\ back = "receive" /\ todo = 0 /\ printer = Nobody
    /\ queue = <<>> /\ request = [c \in Clients |-> None]
    /\ pending = FALSE /\ enabled = TRUE
    /\ rx = <<>> /\ RXDRDY = FALSE /\ missed = 0
    /\ TXDRDY = FALSE /\ sending = FALSE

-----------------------------------------------------------------------------
(* The UART *)

\* A character arrives, whatever the driver is doing; an event that is set
\* already cannot announce one more.
Arrive(k) ==
    /\ Len(rx) < Fifo /\ task # "panic"
    /\ rx' = Append(rx, k)
    /\ RXDRDY' = TRUE
    /\ missed' = IF RXDRDY THEN missed + 1 ELSE missed
    /\ UNCHANGED <<counts, reader, txidle, taskVars, clientVars, irqVars, uartOut>>

\* The character in UART_TXD has been sent.
Sent ==
    /\ sending
    /\ sending' = FALSE /\ TXDRDY' = TRUE
    /\ UNCHANGED <<counts, reader, txidle, taskVars, clientVars, irqVars, uartIn>>

\* The interrupt line is up as long as one of the events is.
\* default_handler() disables the interrupt and sends the message.
Interrupt ==
    /\ enabled /\ (RXDRDY \/ TXDRDY) /\ task # "panic"
    /\ enabled' = FALSE /\ pending' = TRUE
    /\ UNCHANGED <<counts, reader, txidle, taskVars, clientVars, uartIn, uartOut>>

-----------------------------------------------------------------------------
\* serial_putc() waits until the task has received, the others for a REPLY.
Call(c, r) ==
    /\ request[c] = None /\ task # "panic"
    /\ request' = [request EXCEPT ![c] = r]
    /\ queue' = Append(queue, c)
    /\ UNCHANGED <<counts, reader, txidle, taskVars, irqVars, uartIn, uartOut>>

-----------------------------------------------------------------------------
(* The task *)

Goto(t) == task' = t /\ UNCHANGED <<back, todo, printer>>

\* receive(ANY) in the main loop, where a pending interrupt comes first, and
\* receive(INTERRUPT) in queue_char(), after which it looks for space again.
ReceiveInterrupt ==
    /\ task \in {"receive", "full"} /\ pending
    /\ pending' = FALSE
    /\ task' = "rx"
    /\ back' = IF task = "full" THEN "queueing" ELSE "receive"
    /\ UNCHANGED <<counts, reader, txidle, todo, printer, clientVars, enabled,
                   uartIn, uartOut>>

\* PUTC, whose client goes on at once, and PUTBUF.
ReceivePrint ==
    /\ task = "receive" /\ ~pending /\ queue # <<>>
    /\ LET c == Head(queue)
       IN /\ request[c] # Getc
          /\ todo' = request[c].n
          /\ \/ /\ request[c].call = "PUTC"
                /\ request' = [request EXCEPT ![c] = None]
                /\ printer' = Nobody
             \/ /\ request[c].call = "PUTBUF"
                /\ printer' = c
                /\ UNCHANGED request
    /\ queue' = Tail(queue)
    /\ task' = "queueing" /\ UNCHANGED back
    /\ UNCHANGED <<counts, reader, txidle, irqVars, uartIn, uartOut>>

ReceiveGetc ==
    /\ task = "receive" /\ ~pending /\ queue # <<>>
    /\ request[Head(queue)] = Getc
    /\ IF reader = Nobody
       THEN /\ reader' = Head(queue) /\ queue' = Tail(queue)
            /\ task' = "reply" /\ back' = "receive"
       ELSE task' = "panic" /\ UNCHANGED <<reader, queue, back>>
    /\ UNCHANGED <<counts, txidle, todo, printer, request, irqVars, uartIn, uartOut>>

\* echo() drops what does not fit.
echo(n) == n_tx' = IF n_tx + n <= NBUF THEN n_tx + n ELSE NBUF

\* keypress().  The control characters, one of which prints a dump, change
\* nothing.
keypress(k) ==
    \/ /\ k = "erase" /\ n_edit > 0
       /\ n_edit' = n_edit - 1 /\ UNCHANGED n_avail
       /\ echo(3)
    \/ /\ k = "enter" /\ n_avail + n_edit < NBUF
       /\ n_avail' = n_avail + n_edit + 1 /\ n_edit' = 0
       /\ echo(2)
    \/ /\ k = "character" /\ n_avail + n_edit < NBUF
       /\ n_edit' = n_edit + 1 /\ UNCHANGED n_avail
       /\ echo(1)
    \/ /\ IF k = "erase" THEN n_edit = 0 ELSE n_avail + n_edit = NBUF
       /\ UNCHANGED counts

\* Seeded fault: UART_RXD is read only if there is room for the character.
TakeKeyIfRoom ==
    /\ task = "rx" /\ RXDRDY
    /\ IF n_avail + n_edit < NBUF THEN keypress(Head(rx)) /\ rx' = Tail(rx)
       ELSE UNCHANGED <<counts, rx>>
    /\ Goto("clear")
    /\ UNCHANGED <<reader, txidle, clientVars, irqVars, RXDRDY, missed, uartOut>>

\* serial_interrupt(): the receiver's part, up to the reading of UART_RXD.
TakeKey ==
    /\ task = "rx" /\ RXDRDY
    /\ keypress(Head(rx))
    /\ rx' = Tail(rx)
    /\ Goto("clear")
    /\ UNCHANGED <<reader, txidle, clientVars, irqVars, RXDRDY, missed, uartOut>>

\* Seeded fault: the transmitter's event is looked at only if there was none of
\* the receiver.
TransmittedElse ==
    /\ IF TXDRDY /\ task = "rx" THEN txidle' = TRUE /\ TXDRDY' = FALSE
       ELSE IF TXDRDY THEN TXDRDY' = FALSE /\ UNCHANGED txidle
       ELSE UNCHANGED <<txidle, TXDRDY>>
    /\ enabled' = TRUE
    /\ Goto("reply")

\* Seeded fault: the interrupt stays disabled.
TransmittedDisabled ==
    /\ IF TXDRDY THEN txidle' = TRUE /\ TXDRDY' = FALSE
       ELSE UNCHANGED <<txidle, TXDRDY>>
    /\ enabled' = enabled
    /\ Goto("reply")

\* The transmitter's part, clear_pending() and enable_irq().
Transmitted ==
    /\ IF TXDRDY THEN txidle' = TRUE /\ TXDRDY' = FALSE
       ELSE UNCHANGED <<txidle, TXDRDY>>
    /\ enabled' = TRUE
    /\ Goto("reply")

\* RXDRDY is cleared only if the receiver's part has been done, but then after
\* UART_RXD has been read.
FinishInterrupt ==
    /\ \/ task = "rx" /\ ~RXDRDY /\ UNCHANGED RXDRDY
       \/ task = "clear" /\ RXDRDY' = FALSE
    /\ Transmitted
    /\ UNCHANGED <<counts, reader, clientVars, pending, rx, missed, sending>>

\* reply(): the reader's part.
Deliver ==
    /\ task = "reply"
    /\ IF reader # Nobody /\ n_avail > 0
       THEN /\ request' = [request EXCEPT ![reader] = None]
            /\ n_avail' = n_avail - 1 /\ reader' = Nobody
       ELSE UNCHANGED <<request, n_avail, reader>>
    /\ Goto("start")
    /\ UNCHANGED <<n_edit, n_tx, txidle, queue, irqVars, uartIn, uartOut>>

\* Seeded fault: a transmission starts only from the main loop.
StartFromLoop ==
    /\ task = "start"
    /\ IF txidle /\ n_tx > 0 /\ back = "receive"
       THEN sending' = TRUE /\ n_tx' = n_tx - 1 /\ txidle' = FALSE
       ELSE UNCHANGED <<sending, n_tx, txidle>>
    /\ task' = back /\ UNCHANGED <<back, todo, printer>>
    /\ UNCHANGED <<n_avail, n_edit, reader, clientVars, irqVars, uartIn, TXDRDY>>

\* Seeded fault: txidle stays set.
StartStillIdle ==
    /\ task = "start"
    /\ IF txidle /\ n_tx > 0
       THEN sending' = TRUE /\ n_tx' = n_tx - 1 /\ UNCHANGED txidle
       ELSE UNCHANGED <<sending, n_tx, txidle>>
    /\ task' = back /\ UNCHANGED <<back, todo, printer>>
    /\ UNCHANGED <<n_avail, n_edit, reader, clientVars, irqVars, uartIn, TXDRDY>>

\* reply(): the transmitter's part.
StartTransmission ==
    /\ task = "start"
    /\ IF txidle /\ n_tx > 0
       THEN sending' = TRUE /\ n_tx' = n_tx - 1 /\ txidle' = FALSE
       ELSE UNCHANGED <<sending, n_tx, txidle>>
    /\ task' = back /\ UNCHANGED <<back, todo, printer>>
    /\ UNCHANGED <<n_avail, n_edit, reader, clientVars, irqVars, uartIn, TXDRDY>>

\* queue_char(): with a full ring it waits for an interrupt.
QueueChar ==
    /\ task = "queueing" /\ todo > 0 /\ n_tx < NBUF
    /\ n_tx' = n_tx + 1
    /\ todo' = todo - 1
    /\ UNCHANGED <<n_avail, n_edit, reader, txidle, task, back, printer,
                   clientVars, irqVars, uartIn, uartOut>>

WaitForSpace ==
    /\ task = "queueing" /\ todo > 0 /\ n_tx = NBUF
    /\ Goto("full")
    /\ UNCHANGED <<counts, reader, txidle, clientVars, irqVars, uartIn, uartOut>>

\* The request is done; the client of a print_buf() gets its REPLY.
Printed ==
    /\ task = "queueing" /\ todo = 0
    /\ request' = [c \in Clients |-> IF c = printer THEN None ELSE request[c]]
    /\ printer' = Nobody
    /\ task' = "reply" /\ back' = "receive"
    /\ UNCHANGED <<counts, reader, txidle, todo, queue, irqVars, uartIn, uartOut>>

-----------------------------------------------------------------------------
TaskStep ==
    \/ ReceiveInterrupt \/ ReceivePrint \/ ReceiveGetc
    \/ TakeKey \/ FinishInterrupt \/ Deliver \/ StartTransmission
    \/ QueueChar \/ WaitForSpace \/ Printed

Next ==
    \/ \E k \in Keys : Arrive(k)
    \/ Sent \/ Interrupt
    \/ \E c \in Clients, r \in Requests : Call(c, r)
    \/ TaskStep

Spec == Init /\ [][Next]_vars

\* The task has the highest priority, and the UART finishes what it sends.
Fairness == WF_vars(TaskStep) /\ WF_vars(Sent) /\ WF_vars(Interrupt)

FairSpec == Spec /\ Fairness

-----------------------------------------------------------------------------
(* Properties *)

Tasks == {"receive", "full", "rx", "clear", "reply", "start", "queueing", "panic"}

\* The variables have their types.
TypeOK ==
    /\ n_avail \in 0 .. NBUF /\ n_edit \in 0 .. NBUF /\ n_tx \in 0 .. NBUF
    /\ n_avail + n_edit <= NBUF
    /\ reader \in Clients \cup {Nobody} /\ txidle \in BOOLEAN
    /\ task \in Tasks /\ back \in {"receive", "queueing"}
    /\ todo \in Nat /\ printer \in Clients \cup {Nobody}
    /\ queue \in Seq(Clients)
    /\ request \in [Clients -> Requests \cup {None}]
    /\ pending \in BOOLEAN /\ enabled \in BOOLEAN
    /\ rx \in Seq(Keys) /\ RXDRDY \in BOOLEAN /\ missed \in Nat
    /\ TXDRDY \in BOOLEAN /\ sending \in BOOLEAN

\* The transmitter is somewhere: believed idle, busy, or done with its event
\* not yet handled, and never in two of these states.
TransmitterToken ==
    /\ txidle \/ sending \/ TXDRDY
    /\ ~(txidle /\ sending) /\ ~(txidle /\ TXDRDY) /\ ~(sending /\ TXDRDY)

\* When the task waits it has left nothing undone: no reader waits while there
\* is a line to read, no output waits for a transmitter that is idle, and an
\* interrupt will come for each event.
NothingForgotten ==
    /\ task = "receive" => /\ ~(reader # Nobody /\ n_avail > 0)
                           /\ ~(txidle /\ n_tx > 0)
    /\ task \in {"receive", "full"} => enabled \/ pending

\* Of the characters that the UART holds one is announced by RXDRDY, until it
\* has been read, and each of the others came while the event was set for one
\* before it: that is, before serial_interrupt() cleared it, which it does only
\* after reading UART_RXD.  Nothing else that the driver does meanwhile loses
\* an announcement, and a full buffer leaves no character unread.
Announced == IF RXDRDY /\ task # "clear" THEN 1 ELSE 0

EveryKeyAnnounced == Len(rx) = missed + Announced

\* "The buffer is full -- wait for a space to appear": a space will appear only
\* if a character is on its way.  That fails for a print_buf() of more than
\* NBUF characters when the transmitter is idle, and in no other case.
Stuck == task = "full" /\ txidle

StuckOnlyByLongText ==
    Stuck => printer # Nobody /\ request[printer].n > NBUF

\* The driver waits, and nothing is there for it.
AtRest == ~pending /\ (task = "full" \/ (task = "receive" /\ queue = <<>>))

\* A print ends, unless the text is too long or the driver panics, or keys go
\* on for ever to come before it has finished with what they interrupt.
PrintEnds ==
    \/ \A c \in Clients :
          request[c].call \in {"PUTC", "PUTBUF"}
              ~> request[c] = None \/ Stuck \/ task = "panic"
    \/ []<><<~AtRest /\ Len(rx') > Len(rx)>>_vars
=============================================================================
