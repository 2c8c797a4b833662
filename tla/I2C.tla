--------------------------------- MODULE I2C ---------------------------------
(***************************************************************************)
(* The I2C driver of i2c.c for one bus: its task, the clients that call    *)
(* i2c_xfer(), and the bus as the driver uses it.  A transaction is given  *)
(* by its kind, address and numbers of bytes; the bytes themselves are     *)
(* left out, but those that were moved are counted.  Requests wait in a    *)
(* queue, as in Serial.                                                    *)
(***************************************************************************)
EXTENDS Integers, Sequences

CONSTANTS
    Masters,        \* Processes that use the bus
    Chips,          \* Addresses at which a chip may be
    Transfers       \* The transactions of processes other than the program

Unused == "unused"

Transfer(kind, addr, n1, n2) == [kind |-> kind, addr |-> addr, n1 |-> n1, n2 |-> n2]

\* What a client of i2c_xfer() may ask for; the sizes are those of two buffers.
XferSet == [kind : {"READ", "WRITE"}, addr : Chips, n1 : Nat, n2 : Nat]

ASSUME I2CAssumption == Unused \notin Masters /\ Transfers \subseteq XferSet

NoTransfer == Transfer("NONE", Unused, 0, 0)

VARIABLES
    (* The driver *)
    i2cTask,        \* Where the task is
    xfer,           \* The transaction in hand
    master,         \* The client that asked for it
    left,           \* Bytes still to be moved in the present loop
    status, error,  \* What the client will be told
    xferQueue,      \* Clients that wait to send a request, in order
    xferOf,         \* xferOf[c]: the transaction that c waits for, as sent
    result,         \* result[c]: the REPLY to c's latest call
    i2cPending,     \* The kernel holds an INTERRUPT for the task
    i2cEnabled,     \* The interrupt of the bus is enabled
    (* The hardware *)
    present,        \* Addresses of the chips that answer
    bus,            \* What the bus is doing
    events,         \* The events that are set
    ERRORSRC,       \* The reason of the latest error
    SHORTS,         \* What happens after a byte has been read
    (* Ghost *)
    moved           \* Bytes moved in the present transaction

i2cTaskVars == <<i2cTask, xfer, master, left, status, error>>
callVars == <<xferQueue, xferOf, result>>
i2cIrq == <<i2cPending, i2cEnabled>>
busVars == <<bus, events, ERRORSRC, SHORTS, moved>>
i2cVars == <<i2cTaskVars, callVars, i2cIrq, busVars, present>>

Reply(s, e, addr) == [status |-> s, error |-> e, addr |-> addr]

I2CInit ==
    /\ i2cTask = "receive" /\ xfer = NoTransfer /\ master = Unused
    /\ left = 0 /\ status = "OK" /\ error = "none"
    /\ xferQueue = <<>> /\ xferOf = [c \in Masters |-> NoTransfer]
    /\ result = [c \in Masters |-> Reply("none", "none", Unused)]
    /\ i2cPending = FALSE /\ i2cEnabled = TRUE
    /\ present \in SUBSET Chips
    /\ bus = "idle" /\ events = {} /\ ERRORSRC = "none" /\ SHORTS = "none"
    /\ moved = 0

-----------------------------------------------------------------------------
(* The bus *)

HardwareStep == UNCHANGED <<i2cTaskVars, callVars, i2cIrq, present, SHORTS>>

\* A byte is sent, after the address if it is the first.  No chip answers at
\* an address where there is none; a chip may refuse a byte.
ByteSent ==
    /\ bus = "sending"
    /\ \/ /\ xfer.addr \in present
          /\ events' = events \cup {"TXDSENT"} /\ moved' = moved + 1
          /\ UNCHANGED ERRORSRC
       \/ /\ events' = events \cup {"ERROR"}
          /\ ERRORSRC' = IF xfer.addr \in present THEN "DNACK" ELSE "ANACK"
          /\ UNCHANGED moved
    /\ bus' = "held"
    /\ HardwareStep

ByteReceived ==
    /\ bus = "receiving"
    /\ \/ /\ xfer.addr \in present
          /\ events' = events \cup {"RXDREADY"} /\ moved' = moved + 1
          /\ bus' = CASE SHORTS = "BB_SUSPEND" -> "held"
                      [] SHORTS = "BB_STOP" -> "stopping"
                      [] OTHER -> "receiving"
          /\ UNCHANGED ERRORSRC
       \/ /\ events' = events \cup {"ERROR"} /\ bus' = "held"
          /\ ERRORSRC' = IF xfer.addr \in present THEN "OVERRUN" ELSE "ANACK"
          /\ UNCHANGED moved
    /\ HardwareStep

Stopped ==
    /\ bus = "stopping"
    /\ bus' = "idle" /\ events' = events \cup {"STOPPED"}
    /\ UNCHANGED <<ERRORSRC, moved>>
    /\ HardwareStep

\* The interrupt line is up as long as an event is set.
I2CInterrupt ==
    /\ i2cEnabled /\ events # {} /\ i2cTask # "panic"
    /\ i2cEnabled' = FALSE /\ i2cPending' = TRUE
    /\ UNCHANGED <<i2cTaskVars, callVars, busVars, present>>

-----------------------------------------------------------------------------
\* A message has a byte for each length: one of 256 is sent as none.
InMessage(t) == Transfer(t.kind, t.addr, t.n1 % 256, t.n2 % 256)

\* i2c_xfer().
i2c_xfer(c, t) ==
    /\ xferOf[c] = NoTransfer /\ i2cTask # "panic"
    /\ xferOf' = [xferOf EXCEPT ![c] = InMessage(t)]
    /\ xferQueue' = Append(xferQueue, c)
    /\ UNCHANGED <<i2cTaskVars, result, i2cIrq, busVars, present>>

-----------------------------------------------------------------------------
(* The task *)

I2CGoes(t) == i2cTask' = t

\* The loop of i2c_do_write() starts with the first byte of the command or of
\* the data.
SendByte == bus' = "sending"

\* The loop of READ: SUSPEND after all bytes but the last, STOP after that.
ReadByte(n) ==
    /\ SHORTS' = IF n > 1 THEN "BB_SUSPEND" ELSE "BB_STOP"
    /\ bus' = "receiving"

\* The second half of a transaction, when its first half has gone well.
SecondHalf(t) ==
    /\ left' = t.n2
    /\ \/ /\ t.kind = "READ" /\ t.n2 > 0
          /\ ReadByte(t.n2) /\ I2CGoes("reading")
       \/ /\ t.kind = "READ" /\ t.n2 = 0
          /\ I2CGoes("ending") /\ UNCHANGED <<SHORTS, bus>>
       \/ /\ t.kind = "WRITE" /\ t.n2 > 0
          /\ SendByte /\ I2CGoes("data") /\ UNCHANGED SHORTS
       \/ /\ t.kind = "WRITE" /\ t.n2 = 0
          /\ bus' = "stopping" /\ I2CGoes("stopping") /\ UNCHANGED SHORTS

\* receive(ANY): the main loop expects no interrupt, and badmesg() panics.
ReceiveTransfer ==
    /\ i2cTask = "receive"
    /\ IF i2cPending
       THEN I2CGoes("panic") /\ UNCHANGED <<xfer, master, left, status, xferQueue, bus,
                                        SHORTS, moved>>
       ELSE /\ xferQueue # <<>>
            /\ LET c == Head(xferQueue)
                   t == xferOf[c]
               IN /\ xfer' = t /\ master' = c
                  /\ IF t.n1 > 0
                     THEN left' = t.n1 /\ SendByte /\ I2CGoes("command") /\ UNCHANGED SHORTS
                     ELSE SecondHalf(t)
            /\ xferQueue' = Tail(xferQueue)
            /\ status' = "OK" /\ moved' = 0
    /\ UNCHANGED <<error, xferOf, result, i2cIrq, present, events, ERRORSRC>>

\* i2c_wait() once the interrupt has come: it clears ERROR or the event it
\* expects, whose absence is a failed assertion, and enables the interrupt.
Taken(event) == IF "ERROR" \in events THEN "ERROR" ELSE event

\* Seeded fault: the interrupt stays disabled.
i2c_waitOnce(event) ==
    /\ i2cPending
    /\ Taken(event) \in events
    /\ events' = events \ {Taken(event)}
    /\ i2cPending' = FALSE /\ UNCHANGED i2cEnabled

i2c_wait(event) ==
    /\ i2cPending
    /\ Taken(event) \in events
    /\ events' = events \ {Taken(event)}
    /\ i2cPending' = FALSE /\ i2cEnabled' = TRUE

Moving == i2cTask \in {"command", "data", "reading"}
Finishing == i2cTask \in {"ending", "stopping", "failing"}

Expected ==
    CASE i2cTask \in {"command", "data"} -> "TXDSENT"
      [] i2cTask = "reading" -> "RXDREADY"
      [] OTHER -> "STOPPED"

\* Where a byte was the last one of its loop.
LoopDone ==
    \/ i2cTask = "command" /\ SecondHalf(xfer)
    \/ /\ i2cTask = "data"
       /\ left' = 0 /\ bus' = "stopping" /\ I2CGoes("stopping") /\ UNCHANGED SHORTS
    \/ /\ i2cTask = "reading"
       /\ left' = 0 /\ I2CGoes("ending") /\ UNCHANGED <<SHORTS, bus>>

NextByte ==
    /\ left' = left - 1
    /\ IF i2cTask = "reading" THEN ReadByte(left - 1)
       ELSE SendByte /\ UNCHANGED SHORTS
    /\ UNCHANGED i2cTask

ByteDone ==
    /\ Moving /\ "ERROR" \notin events /\ i2c_wait(Expected)
    /\ IF left > 1 THEN NextByte ELSE LoopDone
    /\ UNCHANGED <<xfer, master, status, error, callVars, present, ERRORSRC, moved>>

\* An error ends the loop, and i2c_stop() frees the bus.
\* Seeded fault: it does not.
ByteFailedNoStop ==
    /\ Moving /\ "ERROR" \in events /\ i2c_wait(Expected)
    /\ status' = "ERR" /\ I2CGoes("answering")
    /\ UNCHANGED <<xfer, master, left, error, callVars, present, bus, ERRORSRC,
                   SHORTS, moved>>

ByteFailed ==
    /\ Moving /\ "ERROR" \in events /\ i2c_wait(Expected)
    /\ status' = "ERR"
    /\ bus' = "stopping" /\ I2CGoes("failing")
    /\ UNCHANGED <<xfer, master, left, error, callVars, present, ERRORSRC,
                   SHORTS, moved>>

\* The last i2c_wait(), whose result is not looked at.
Stop ==
    /\ Finishing /\ i2c_wait(Expected)
    /\ I2CGoes("answering")
    /\ UNCHANGED <<xfer, master, left, status, error, callVars, present, bus,
                   ERRORSRC, SHORTS, moved>>

\* error is set when something went wrong, and else keeps its value.
\* Seeded fault: the source of the error is not read.
NoteOldError ==
    IF status = "OK" THEN UNCHANGED <<error, ERRORSRC>>
    ELSE ERRORSRC' = "none" /\ UNCHANGED error

NoteError ==
    IF status = "OK" THEN UNCHANGED <<error, ERRORSRC>>
    ELSE error' = ERRORSRC /\ ERRORSRC' = "none"

Answer ==
    /\ i2cTask = "answering"
    /\ NoteError
    /\ result' = [result EXCEPT ![master] = Reply(status, error', xfer.addr)]
    /\ xferOf' = [xferOf EXCEPT ![master] = NoTransfer]
    /\ SHORTS' = IF xfer.kind = "READ" THEN "none" ELSE SHORTS
    /\ I2CGoes("receive")
    /\ UNCHANGED <<xfer, master, left, status, xferQueue, i2cIrq, present, bus,
                   events, moved>>

-----------------------------------------------------------------------------
I2CStep ==
    \/ ReceiveTransfer \/ ByteDone \/ ByteFailed \/ Stop \/ Answer

BusStep == ByteSent \/ ByteReceived \/ Stopped
-----------------------------------------------------------------------------
(* Properties *)

\* The assertion in i2c_wait() holds: an interrupt that comes while the task
\* waits comes with the event it waits for, and none comes between two
\* transactions.
ExpectedEvents ==
    /\ i2cPending => Moving \/ Finishing
    /\ i2cPending => "ERROR" \in events \/ Expected \in events
    /\ i2cTask # "panic"

\* Between two transactions, whatever became of the last, the bus is free,
\* no event, error or shortcut is left over, and the interrupt is enabled.
BusReleased ==
    i2cTask = "receive" =>
        /\ bus = "idle" /\ events = {} /\ ERRORSRC = "none" /\ SHORTS = "none"
        /\ i2cEnabled /\ ~i2cPending

\* A client is told OK exactly if all bytes that its message asked for were
\* moved.
OkMeansMoved ==
    i2cTask = "answering" => (status = "OK" <=> moved = xfer.n1 + xfer.n2)

\* The error that goes with a failed transaction is its own: that no chip has
\* acknowledged the address, exactly if there is none.  With a transaction
\* that succeeds comes the error of an earlier one, which nobody looks at.
ErrorIsOwn ==
    \A c \in Masters :
        result[c].status = "ERR" =>
            /\ result[c].error # "none"
            /\ result[c].error = "ANACK" <=> result[c].addr \notin present

\* The task waits in vain for the end of a READ of no bytes, since nothing
\* will stop the bus, and for nothing else.  A READ of 256 bytes is sent as one
\* of none.
Hung == i2cTask = "ending" /\ bus # "stopping" /\ "STOPPED" \notin events
          /\ "RXDREADY" \notin events

HungOnlyByEmptyRead == Hung => xfer.kind = "READ" /\ xfer.n2 = 0

\* However a transaction goes, the driver meets the events it expects, leaves
\* the bus free for the next, and comes to its end but in one case.
BusKept == ExpectedEvents /\ BusReleased /\ HungOnlyByEmptyRead

\* Every transaction ends.
TransfersEnd ==
    \A c \in Masters : xferOf[c] # NoTransfer ~> xferOf[c] = NoTransfer \/ Hung
=============================================================================
