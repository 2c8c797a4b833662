------------------------------ MODULE Interrupts -------------------------------
(***************************************************************************)
(* The interrupt controller of a board as startup.c sees it: priorities,   *)
(* enabling and disabling, and the vectors; with the way every driver      *)
(* serves its interrupts.  Registers are sets of interrupt numbers, or     *)
(* bytes at their distance from the first of an array.                     *)
(***************************************************************************)
EXTENDS Boards, Sequences

\* Interrupt numbers.
InterruptsV1 == [RADIO |-> 1, UART |-> 2, I2C0 |-> 3, SPI0 |-> 4, GPIOTE |-> 6,
    ADC |-> 7, TIMER0 |-> 8, TIMER1 |-> 9, TIMER2 |-> 10, RTC0 |-> 11,
    TEMP |-> 12, RNG |-> 13, RTC1 |-> 17]

InterruptsV2 == [RADIO |-> 1, UART |-> 2, I2C0 |-> 3, SPI0 |-> 3, I2C1 |-> 4,
    SPI1 |-> 4, GPIOTE |-> 6, ADC |-> 7, TIMER0 |-> 8, TIMER1 |-> 9,
    TIMER2 |-> 10, RTC0 |-> 11, TEMP |-> 12, RNG |-> 13, RTC1 |-> 17,
    TIMER3 |-> 26, TIMER4 |-> 27, PWM0 |-> 28, PWM1 |-> 33, PWM2 |-> 34,
    SPI2 |-> 35, UART1 |-> 40, PWM3 |-> 45, SPI3 |-> 47]

Devices(b) == IF b = "V1" THEN DOMAIN InterruptsV1 ELSE DOMAIN InterruptsV2
IRQ(b, d) == IF b = "V1" THEN InterruptsV1[d] ELSE InterruptsV2[d]

\* The exceptions whose priority can be set: SVC, PendSV and SysTick, and on V2
\* the faults and the debug monitor.
Exceptions(b) == {-5, -2, -1} \cup IF b = "V1" THEN {} ELSE {-12, -11, -10, -4}

\* The vectors for interrupts 0, 1, ...: the devices each handler is for.
None == {}

VectorsV1 == <<
    {"POWER_CLOCK"}, {"RADIO"}, {"UART"}, {"I2C0"}, {"SPI0"}, None, {"GPIOTE"},
    {"ADC"}, {"TIMER0"}, {"TIMER1"}, {"TIMER2"}, {"RTC0"}, {"TEMP"}, {"RNG"},
    {"ECB"}, {"CCM_AAR"}, {"WDT"}, {"RTC1"}, {"QDEC"}, {"LPCOMP"}, {"SWI0"},
    {"SWI1"}, {"SWI2"}, {"SWI3"}, {"SWI4"}, {"SWI5"},
    None, None, None, None, None, None >>

VectorsV2 == <<
    {"POWER_CLOCK"}, {"RADIO"}, {"UART"}, {"I2C0", "SPI0"}, {"I2C1", "SPI1"},
    {"NFC"}, {"GPIOTE"}, {"ADC"}, {"TIMER0"}, {"TIMER1"}, {"TIMER2"}, {"RTC0"},
    {"TEMP"}, {"RNG"}, {"ECB"}, {"CCM_AAR"}, {"WDT"}, {"RTC1"}, {"QDEC"},
    {"LPCOMP"}, {"SWI0"}, {"SWI1"}, {"SWI2"}, {"SWI3"}, {"SWI4"}, {"SWI5"},
    {"TIMER3"}, {"TIMER4"}, {"PWM0"}, {"PDM"}, None, None, {"MWU"}, {"PWM1"},
    {"PWM2"}, {"SPI2"}, {"RTC2"}, {"I2S"}, {"FPU"}, {"USBD"}, {"UART1"},
    None, None, None, None, {"PWM3"}, None, {"SPI3"} >>

Vector(b, irq) == IF b = "V1" THEN VectorsV1[irq + 1] ELSE VectorsV2[irq + 1]

MAXSET == 2         \* Bound on the calls of irq_priority()

VARIABLES
    SHPR, IPR,      \* Priority registers, as bytes
    enabled, pending,   \* Interrupts enabled and pending in the NVIC
    active,         \* The interrupt whose handler runs, -16 when none
    used,           \* The devices of this program
    event,          \* event[d]: the device wants attention
    driver,         \* driver[d]: "setup", "waiting", "told", "cleared", "ready"
    (* Ghosts *)
    sets,           \* The calls of irq_priority()
    taken           \* The device whose interrupt was taken last, and the vector

interruptVars == <<board, SHPR, IPR, enabled, pending, active, used, event,
                   driver, sets, taken>>

InterruptsInit ==
    /\ board \in BoardNames
    /\ SHPR = [i \in -4 .. 11 |-> 0] /\ IPR = [i \in 0 .. 63 |-> 0]
    /\ enabled = {} /\ pending = {} /\ active = -16
    /\ \E d \in Devices(board) : used = {d, "UART"}
    /\ event = [d \in used |-> FALSE]
    /\ driver = [d \in used |-> "setup"]
    /\ sets = <<>> /\ taken = <<>>

-----------------------------------------------------------------------------
(* startup.c.  SET_BYTE(reg, n, v) changes byte n of a word only.          *)

SET_BYTE(bytes, word, n, v) == [bytes EXCEPT ![4 * word + n] = v % 256]

\* The word for an exception: SHPR[] starts at that of exception -12.
SystemWord(irq) == (irq + (IF board = "V1" THEN 12 ELSE 8)) \div 4

Byte(irq) == irq % 4

irq_priority(irq, prio) ==
    IF irq < 0
    THEN SHPR' = SET_BYTE(SHPR, SystemWord(irq), Byte(irq), prio) /\ UNCHANGED IPR
    ELSE IPR' = SET_BYTE(IPR, irq \div 4, Byte(irq), prio) /\ UNCHANGED SHPR

\* NVIC_ISER[...] = BIT(...), the same for the other registers: ones are
\* written to the bits to be set or cleared.  V1 has one word of each.
BIT(word, i) == IF i < 32 THEN {32 * word + i} ELSE {}

Bit(irq) == IF board = "V1" THEN BIT(0, irq) ELSE BIT(irq \div 32, irq % 32)

enable_irq(irq) == enabled' = enabled \cup Bit(irq)
disable_irq(irq) == enabled' = enabled \ Bit(irq)

\* Seeded fault: nothing is written.
clear_pendingNot(irq) == pending' = pending

clear_pending(irq) == pending' = pending \ Bit(irq)

-----------------------------------------------------------------------------
\* init() may set priorities before drivers enable their interrupts.
SetPriority ==
    /\ Len(sets) < MAXSET /\ \A d \in used : driver[d] = "setup"
    /\ \E irq \in Exceptions(board) \cup {IRQ(board, d) : d \in used} :
          LET prio == IF sets = <<>> THEN 64 ELSE 192
          IN  irq_priority(irq, prio) /\ sets' = Append(sets, <<irq, prio>>)
    /\ UNCHANGED <<board, enabled, pending, active, used, event, driver, taken>>

(* The devices and the NVIC, external.                                     *)
Raise(d) ==
    /\ ~event[d] /\ driver[d] # "setup"
    /\ event' = [event EXCEPT ![d] = TRUE]
    /\ UNCHANGED <<board, SHPR, IPR, enabled, pending, active, used, driver,
                   sets, taken>>

\* An event sets the pending bit, again and again while it lasts.
Pend(d) ==
    /\ event[d] /\ active # IRQ(board, d) /\ IRQ(board, d) \notin pending
    /\ pending' = pending \cup {IRQ(board, d)}
    /\ UNCHANGED <<board, SHPR, IPR, enabled, active, used, event, driver,
                   sets, taken>>

Take(d) ==
    /\ active = -16 /\ IRQ(board, d) \in pending \cap enabled
    /\ active' = IRQ(board, d)
    /\ pending' = pending \ {IRQ(board, d)}
    /\ taken' = <<d, Vector(board, IRQ(board, d))>>
    /\ UNCHANGED <<board, SHPR, IPR, enabled, used, event, driver, sets>>

\* Every handler is default_handler(), which finds the interrupt in SCB_ICSR,
\* disables it and tells the driver.
DefaultHandler ==
    /\ active # -16
    /\ disable_irq(active)
    /\ driver' = [d \in used |-> IF IRQ(board, d) = active THEN "told" ELSE driver[d]]
    /\ active' = -16
    /\ UNCHANGED <<board, SHPR, IPR, pending, used, event, sets, taken>>

(* The drivers: connect and enable; then for each interrupt clear the      *)
(* event, clear the pending bit, enable again.  As a bound, no driver      *)
(* starts where priorities were set, which change nothing of the rest.     *)
StartDriver(d) ==
    /\ active = -16 /\ driver[d] = "setup" /\ sets = <<>>
    /\ enable_irq(IRQ(board, d))
    /\ driver' = [driver EXCEPT ![d] = "waiting"]
    /\ UNCHANGED <<board, SHPR, IPR, pending, active, used, event, sets, taken>>

ClearEvent(d) ==
    /\ active = -16 /\ driver[d] = "told"
    /\ event' = [event EXCEPT ![d] = FALSE]
    /\ driver' = [driver EXCEPT ![d] = "cleared"]
    /\ UNCHANGED <<board, SHPR, IPR, enabled, pending, active, used, sets, taken>>

ClearPending(d) ==
    /\ active = -16 /\ driver[d] = "cleared"
    /\ clear_pending(IRQ(board, d))
    /\ driver' = [driver EXCEPT ![d] = "ready"]
    /\ UNCHANGED <<board, SHPR, IPR, enabled, active, used, event, sets, taken>>

EnableAgain(d) ==
    /\ active = -16 /\ driver[d] = "ready"
    /\ enable_irq(IRQ(board, d))
    /\ driver' = [driver EXCEPT ![d] = "waiting"]
    /\ UNCHANGED <<board, SHPR, IPR, pending, active, used, event, sets, taken>>

InterruptsNext ==
    \/ SetPriority \/ DefaultHandler
    \/ \E d \in used :
          \/ Raise(d) \/ Pend(d) \/ Take(d)
          \/ StartDriver(d) \/ ClearEvent(d) \/ ClearPending(d) \/ EnableAgain(d)

InterruptsSpec == InterruptsInit /\ [][InterruptsNext]_interruptVars

-----------------------------------------------------------------------------
\* The byte the processor uses for an interrupt or exception.
PriorityOf(irq) == IF irq < 0 THEN SHPR[irq + 12] ELSE IPR[irq]

LastSet(irq) ==
    LET calls == {i \in DOMAIN sets : sets[i][1] = irq}
    IN IF calls = {} THEN 0
       ELSE sets[CHOOSE i \in calls : \A j \in calls : j <= i][2]

\* irq_priority() sets the "priority of an IRQ" it is given, and no other.
PrioritySet ==
    \A irq \in Exceptions(board) \cup {IRQ(board, d) : d \in used} :
        PriorityOf(irq) = LastSet(irq)

\* It does so for every device, and on V1 for the exceptions.
DevicePrioritySet ==
    /\ board = "V1" => PrioritySet
    /\ \A irq \in DOMAIN IPR : IPR[irq] = LastSet(irq)

\* An interrupt comes to the vector of its own device and never to one that is
\* empty.
OwnVector == taken # <<>> => taken[1] \in taken[2]

\* A driver is told of an interrupt only when its device has an event: that of
\* the last one does not come again when it enables the interrupt, although the
\* pending bit was set once more while it was served.
NoStaleInterrupt ==
    \A d \in used : driver[d] = "told" =>
        \E e \in used : IRQ(board, e) = IRQ(board, d) /\ event[e]

\* A driver that waits for an interrupt can get it, and one that serves it is
\* left alone, whatever the other drivers enable and disable meanwhile.
EnabledWhileWaiting ==
    \A d \in used : IRQ(board, d) \in enabled <=> driver[d] = "waiting"

\* An event of a device leads, at the priority that was set, to its own vector
\* and to one message for its driver, whatever the other devices do.
InterruptsReachDrivers ==
    DevicePrioritySet /\ OwnVector /\ NoStaleInterrupt /\ EnabledWhileWaiting
=============================================================================
