---------------------------------- MODULE Adc ----------------------------------
(***************************************************************************)
(* The driver of adc.c for both boards: its task, the clients that call    *)
(* adc_reading(), and the converter as the driver uses it.  Which pin a    *)
(* value came from goes with the value.  Requests wait in a queue, as in   *)
(* Serial.                                                                 *)
(***************************************************************************)
EXTENDS Boards, Sequences

CONSTANTS
    Samplers,       \* Processes that use the converter
    AdcPads         \* The pads that they give to adc_reading()

NoSampler == "no sampler"

ASSUME AdcAssumption ==
    /\ NoSampler \notin Samplers
    /\ AdcPads \subseteq DOMAIN PadsV1

\* Before a client has made a call.
NoReading == [pad |-> "none", pin |-> -1, value |-> 0]

VARIABLES
    adcTask,        \* Where the task is
    adcClient,      \* The client whose request is in hand
    adcQueue,       \* Clients that wait to send a request, in order
    adcAsked,       \* adcAsked[c]: the pad that c waits for, or "none"
    adcRequest,     \* adcRequest[c]: the channel that c asks for
    reading,        \* reading[c]: what c was told last, and for which pad
    adcPending,     \* The kernel holds an INTERRUPT for the task
    adcEnabled,     \* The interrupt of the converter is enabled
    PSEL,           \* The channel that is selected, as a number in the register
    converter,      \* What the converter is doing
    adcEvents,      \* The events that are set
    sample          \* ADC_RESULT, or what RESULT.PTR points to on V2

adcTaskVars == <<adcTask, adcClient>>
adcCallVars == <<adcQueue, adcAsked, adcRequest, reading>>
adcIrq == <<adcPending, adcEnabled>>
converterVars == <<PSEL, converter, adcEvents, sample>>
adcVars == <<adcTaskVars, adcCallVars, adcIrq, converterVars, board>>

\* V2 calibrates its converter first.
AdcInit ==
    /\ board \in BoardNames
    /\ IF board = "V2" THEN adcTask = "calibrating" /\ converter = "calibrating"
       ELSE adcTask = "receive" /\ converter = "idle"
    /\ adcClient = NoSampler
    /\ adcQueue = <<>> /\ adcAsked = [c \in Samplers |-> "none"]
    /\ adcRequest = [c \in Samplers |-> -1]
    /\ reading = [c \in Samplers |-> NoReading]
    /\ adcPending = FALSE /\ adcEnabled = TRUE
    /\ PSEL = 0 /\ adcEvents = {} /\ sample = NoReading

-----------------------------------------------------------------------------
(* The converter *)

\* The pin that is measured when the register has this value: PSEL of V1 has
\* a bit for each of AIN0 to AIN7, PSELP of V2 the number of one, from 1 up,
\* or 0 for none.
InputPin ==
    IF board = "V1" THEN [ain \in 2 .. 7 |-> ain - 1][PSEL]
    ELSE <<-1, 2, 3, 4, 5, 28, 29, 30, 31>>[PSEL + 1]

\* A value of V2 can be slightly negative.
Values == IF board = "V1" THEN {0, 1} ELSE {-1, 0, 1}

ConverterDone(event) ==
    /\ converter' = "idle" /\ adcEvents' = adcEvents \cup {event}
    /\ UNCHANGED <<adcTaskVars, adcCallVars, adcIrq, PSEL, board>>

Calibrated ==
    /\ converter = "calibrating"
    /\ ConverterDone("CALDONE") /\ UNCHANGED sample

Sampled ==
    /\ converter = "sampling"
    /\ \E v \in Values : sample' = [sample EXCEPT !.pin = InputPin, !.value = v]
    /\ ConverterDone("END")

\* The interrupt line is up as long as an event is set.
AdcInterrupt ==
    /\ adcEnabled /\ adcEvents # {} /\ adcTask # "panic"
    /\ adcEnabled' = FALSE /\ adcPending' = TRUE
    /\ UNCHANGED <<adcTaskVars, adcCallVars, converterVars, board>>

-----------------------------------------------------------------------------
\* chantab: pins and the channels they belong to, ended by a zero.
chantab(b) ==
    LET Channels == IF b = "V1" THEN <<4, 3, 2, 5, 6, 7>> ELSE <<0, 1, 2, 7, 4, 6>>
        Pads == <<"PAD0", "PAD1", "PAD2", "PAD3", "PAD4", "PAD10">>
    IN Append([i \in 1 .. 6 |-> <<PadPin(b, Pads[i]), Channels[i]>>], <<0, 0>>)

\* The search ends at the pin or at the zero.
Entry(pin) ==
    CHOOSE i \in 1 .. 7 :
        /\ chantab(board)[i][1] \in {pin, 0}
        /\ \A j \in 1 .. i - 1 : chantab(board)[j][1] \notin {pin, 0}

\* adc_reading(), which panics for a pin that is no input of the converter.
adc_reading(c, pad) ==
    /\ adcAsked[c] = "none" /\ adcTask # "panic"
    /\ LET pin == PadPin(board, pad)
           i == Entry(pin)
       IN IF chantab(board)[i][1] = 0
          THEN adcTask' = "panic" /\ UNCHANGED <<adcAsked, adcRequest, adcQueue>>
          ELSE /\ adcAsked' = [adcAsked EXCEPT ![c] = pad]
               /\ adcRequest' = [adcRequest EXCEPT ![c] = chantab(board)[i][2]]
               /\ adcQueue' = Append(adcQueue, c)
               /\ UNCHANGED adcTask
    /\ reading' = [reading EXCEPT ![c] = NoReading]
    /\ UNCHANGED <<adcClient, adcIrq, converterVars, board>>

-----------------------------------------------------------------------------
(* The task *)

AdcGoes(t) == adcTask' = t

\* Seeded fault: the event is not cleared.
AdcHandledKept(event) ==
    /\ adcPending /\ event \in adcEvents
    /\ UNCHANGED adcEvents
    /\ adcPending' = FALSE /\ adcEnabled' = TRUE

\* After the assertion the event is cleared and the interrupt enabled.
AdcHandled(event) ==
    /\ adcPending /\ event \in adcEvents
    /\ adcEvents' = adcEvents \ {event}
    /\ adcPending' = FALSE /\ adcEnabled' = TRUE

CalibrationDone ==
    /\ adcTask = "calibrating" /\ AdcHandled("CALDONE")
    /\ AdcGoes("receive")
    /\ UNCHANGED <<adcClient, adcCallVars, PSEL, converter, sample, board>>

Select(ch) == PSEL' = IF board = "V1" THEN ch ELSE ch + 1

\* receive(ANY): an INTERRUPT would fail the assertion.
StartConversion ==
    /\ adcTask = "receive"
    /\ IF adcPending
       THEN AdcGoes("panic") /\ UNCHANGED <<adcClient, adcQueue, PSEL, converter>>
       ELSE /\ adcQueue # <<>>
            /\ adcClient' = Head(adcQueue) /\ adcQueue' = Tail(adcQueue)
            /\ Select(adcRequest[Head(adcQueue)])
            /\ converter' = "sampling"
            /\ AdcGoes("converting")
    /\ UNCHANGED <<adcAsked, adcRequest, reading, adcIrq, adcEvents, sample, board>>

Result == IF board = "V2" /\ sample.value < 0 THEN 0 ELSE sample.value

ConversionDone ==
    /\ adcTask = "converting" /\ AdcHandled("END")
    /\ reading' = [reading EXCEPT ![adcClient] =
                      [pad |-> adcAsked[adcClient], pin |-> sample.pin, value |-> Result]]
    /\ adcAsked' = [adcAsked EXCEPT ![adcClient] = "none"]
    /\ adcRequest' = [adcRequest EXCEPT ![adcClient] = -1]
    /\ AdcGoes("receive")
    /\ UNCHANGED <<adcClient, adcQueue, PSEL, converter, sample, board>>

AdcStep == CalibrationDone \/ StartConversion \/ ConversionDone

AdcNext ==
    \/ AdcStep \/ Calibrated \/ Sampled \/ AdcInterrupt
    \/ \E c \in Samplers, pad \in AdcPads : adc_reading(c, pad)

AdcSpec == AdcInit /\ [][AdcNext]_adcVars

-----------------------------------------------------------------------------
(* Properties *)

\* What a client is told was measured at the pin it asked for, also when
\* several clients wait, and is not negative.
OwnReading ==
    \A c \in Samplers : reading[c] # NoReading =>
        /\ reading[c].pin = PadPin(board, reading[c].pad)
        /\ reading[c].value >= 0

\* The assertions of adc_task() hold: an interrupt comes only while the task
\* waits for one, and with the event that it waits for.
AdcAssertionsHold ==
    adcPending =>
        \/ adcTask = "calibrating" /\ "CALDONE" \in adcEvents
        \/ adcTask = "converting" /\ "END" \in adcEvents
        \/ adcTask = "panic" \* For a pin that is no input

\* Each client gets the reading of its own pin, by interrupts in their turn.
ReadingsTrue == OwnReading /\ AdcAssertionsHold

\* A call ends with a reading, unless a process asks for a wrong pin.
ReadingsReturn ==
    \A c \in Samplers : adcAsked[c] # "none" ~> adcAsked[c] = "none" \/ adcTask = "panic"
=============================================================================
