-------------------------------- MODULE Kprintf --------------------------------
(***************************************************************************)
(* kprintf(), panic() and the printing of a dump, which take the UART from *)
(* the serial driver, "disabling interrupts and polling".  Of the driver   *)
(* there is the part that shares the UART: it starts the transmitter when  *)
(* txidle says so, and serial_interrupt() serves both events.              *)
(***************************************************************************)
EXTENDS Integers

CONSTANT MAXTEXT    \* Bound on the characters of a text

ASSUME KprintfAssumption == MAXTEXT \in Nat \ {0}

Printers == {"kprintf", "dump", "panic"}

VARIABLES
    txidle,         \* The driver's belief about the transmitter
    sending,        \* Characters in the transmitter: 0, 1, or 2
    TXDRDY, RXDRDY, \* The events of the UART
    primask,        \* Whether interrupts are disabled
    who,            \* Who prints, or "driver"
    printing,       \* How far that is: "delay", "setup", "put", "wait"
    left,           \* Characters to be printed
    saved,          \* What get_primask() gave
    (* Ghosts *)
    busy,           \* The driver was transmitting when the printer took over
    lost            \* A character written too early was lost

kprintfVars == <<txidle, sending, TXDRDY, RXDRDY, primask, who, printing,
                 left, saved, busy, lost>>
uart == <<sending, TXDRDY, RXDRDY>>
ghosts == <<busy, lost>>

KprintfInit ==
    /\ txidle = TRUE /\ sending = 0 /\ TXDRDY = FALSE
    /\ RXDRDY = FALSE
    /\ primask = FALSE /\ saved = FALSE
    /\ who = "driver" /\ printing = "put" /\ left = 0
    /\ busy = FALSE /\ lost = FALSE

(* The UART (external).  A character written while another is being sent   *)
(* may be lost, or be sent after it.                                       *)
Write ==
    \/ sending < 2 /\ sending' = sending + 1 /\ UNCHANGED lost
    \/ sending > 0 /\ lost' = TRUE /\ UNCHANGED sending

\* Sending takes a millisecond: kputc() sees an event that is there sooner.
CharacterSent ==
    /\ sending > 0 /\ ~(who # "driver" /\ printing = "wait" /\ TXDRDY)
    /\ sending' = sending - 1 /\ TXDRDY' = TRUE
    /\ UNCHANGED <<txidle, RXDRDY, primask, who, printing, left, saved, ghosts>>

Key ==
    /\ RXDRDY' = TRUE
    /\ UNCHANGED <<txidle, sending, TXDRDY, primask, who, printing, left, saved, ghosts>>

(* The driver, and processes that disable interrupts for a while.          *)
DriverSends ==
    /\ who = "driver" /\ ~primask /\ txidle
    /\ txidle' = FALSE
    /\ Write
    /\ UNCHANGED <<TXDRDY, RXDRDY, primask, who, printing, left, saved, busy>>

serial_interrupt ==
    /\ ~primask /\ (TXDRDY \/ RXDRDY)
    /\ RXDRDY' = FALSE
    /\ IF TXDRDY THEN TXDRDY' = FALSE /\ txidle' = TRUE
       ELSE UNCHANGED <<TXDRDY, txidle>>
    /\ UNCHANGED <<sending, primask, who, printing, left, saved, ghosts>>

ToggleMask ==
    /\ who = "driver"
    /\ primask' = ~primask
    /\ UNCHANGED <<txidle, uart, who, printing, left, saved, ghosts>>

-----------------------------------------------------------------------------
\* kprintf() and panic() disable interrupts; a dump is printed inside a system
\* call, which no interrupt of a device preempts.
BeginPrinting(printer, n) ==
    /\ who = "driver"
    /\ who' = printer /\ printing' = "delay" /\ left' = n
    /\ saved' = primask /\ primask' = TRUE
    /\ busy' = (~txidle)
    /\ UNCHANGED <<txidle, uart, lost>>

\* Seeded fault: both events are cleared.
SetupBoth ==
    /\ who # "driver" /\ printing = "setup"
    /\ RXDRDY' = FALSE /\ TXDRDY' = FALSE
    /\ printing' = "put"
    /\ UNCHANGED <<txidle, sending, primask, who, left, saved, ghosts>>

\* kprintf_setup(): the delay, in which what is being sent is sent, ...
Delay ==
    /\ who # "driver" /\ printing = "delay" /\ sending = 0
    /\ printing' = "setup"
    /\ UNCHANGED <<txidle, uart, primask, who, left, saved, ghosts>>

\* ... and the configuration of the UART.  A key that was not read yet is no
\* longer announced.
Setup ==
    /\ who # "driver" /\ printing = "setup"
    /\ RXDRDY' = FALSE
    /\ printing' = "put"
    /\ UNCHANGED <<txidle, sending, TXDRDY, primask, who, left, saved, ghosts>>

\* kputc(): a character is written, ...
Put ==
    /\ who # "driver" /\ printing = "put" /\ left > 0
    /\ Write
    /\ printing' = "wait"
    /\ UNCHANGED <<txidle, TXDRDY, RXDRDY, primask, who, left, saved, busy>>

\* ... and an event is awaited and cleared.
Answered ==
    /\ who # "driver" /\ printing = "wait" /\ TXDRDY
    /\ TXDRDY' = FALSE
    /\ left' = left - 1 /\ printing' = "put"
    /\ UNCHANGED <<txidle, sending, RXDRDY, primask, who, saved, ghosts>>

Restored == saved

\* kprintf() and a dump return; panic() goes on to spin().
End ==
    /\ who \in {"kprintf", "dump"} /\ printing = "put" /\ left = 0
    /\ who' = "driver"
    /\ primask' = Restored
    /\ busy' = FALSE
    /\ UNCHANGED <<txidle, uart, printing, left, saved, lost>>

KprintfNext ==
    \/ CharacterSent \/ Key \/ DriverSends \/ serial_interrupt \/ ToggleMask
    \/ \E printer \in Printers, n \in 1 .. MAXTEXT : BeginPrinting(printer, n)
    \/ Delay \/ Setup \/ Put \/ Answered \/ End

KprintfSpec == KprintfInit /\ [][KprintfNext]_kprintfVars

-----------------------------------------------------------------------------
\* Printing does not strand the driver: when it waits for its transmitter there
\* is a character in it or an event to come, "Caller gets a UART interrupt".
\* That holds because an event the printer took from the driver is made good by
\* the one of its last character; it fails only if a character has been lost.
DriverGoesOn ==
    who = "driver" /\ ~txidle => lost \/ sending > 0 \/ TXDRDY

\* A character is written while another is being sent only when the driver was
\* transmitting at the start: kputc() takes the driver's event for its own.
OverlapsOnlyDriver == sending = 2 \/ lost => busy \/ who = "driver"

\* Interrupts are masked as long as somebody prints and then as before, so that
\* nobody else changes what the driver believes.
MaskKept ==
    [][/\ who # "driver" => primask /\ txidle' = txidle
       /\ who # "driver" /\ who' = "driver" => primask' = saved]_kprintfVars

\* The kernel can print at any moment without harm to the driver and to a
\* caller who had disabled interrupts.
PrintingHarmless == [](DriverGoesOn /\ OverlapsOnlyDriver) /\ MaskKept
=============================================================================
