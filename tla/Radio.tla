-------------------------------- MODULE Radio --------------------------------
(***************************************************************************)
(* The radio driver of radio.c: its task, the clients that call            *)
(* radio_send() and radio_receive(), and the radio as the driver uses it.  *)
(* A packet is given by its group and whether its checksum is right.       *)
(* Requests wait in a queue, as in Serial.                                 *)
(***************************************************************************)
EXTENDS Integers, Sequences

CONSTANTS
    Stations,       \* Processes that use the radio
    Groups          \* Group numbers

NoStation == "no station"

ASSUME RadioAssumption == NoStation \notin Stations

Own == "own"
Empty == "empty"
Packets == [group : Groups, crc : BOOLEAN]
NoPacket == [group |-> Empty, crc |-> FALSE]

VARIABLES
    (* The driver *)
    radioTask,      \* Where the task is
    mode,           \* DISABLED, READY or LISTENING
    listener,       \* The client that waits for a packet
    sender,         \* The client whose SEND is in hand
    group,          \* Set by radio_group()
    packet_buffer,  \* A packet from the air, or the one to be sent
    onAir,          \* Requests: onAir[c] is what c waits for
    radioQueue,     \* Clients that wait to send a request, in order
    radioPending,   \* The kernel holds an INTERRUPT for the task
    radioEnabled,   \* The radio's interrupt is enabled
    (* The radio *)
    radio,          \* What the radio is doing
    radioEvents,    \* The events that are set
    PREFIX0,        \* The group that it sends to and listens to
    (* Ghosts *)
    met,            \* A packet came in that a SEND in hand had to meet
    regrouped,      \* radio_group() was called during a RECEIVE
    sent            \* The packet in hand has been sent in full

driverVars == <<radioTask, mode, listener, sender, group, packet_buffer>>
requestVars == <<onAir, radioQueue>>
radioIrq == <<radioPending, radioEnabled>>
airVars == <<radio, radioEvents, PREFIX0>>
radioGhosts == <<met, regrouped, sent>>
radioVars == <<driverVars, requestVars, radioIrq, airVars, radioGhosts>>

RadioInit ==
    /\ radioTask = "receive" /\ mode = "DISABLED"
    /\ listener = NoStation /\ sender = NoStation
    /\ group \in Groups /\ packet_buffer = NoPacket
    /\ onAir = [c \in Stations |-> "none"] /\ radioQueue = <<>>
    /\ radioPending = FALSE /\ radioEnabled = TRUE
    /\ radio = "DISABLED" /\ radioEvents = {} /\ PREFIX0 = Empty
    /\ met = FALSE /\ regrouped = FALSE /\ sent = FALSE

-----------------------------------------------------------------------------
(* The radio *)

Happens(s, event) ==
    /\ radio' = s /\ radioEvents' = radioEvents \cup {event}
    /\ UNCHANGED <<driverVars, requestVars, radioIrq, PREFIX0, met, regrouped>>

RampedUp ==
    /\ \/ radio = "RXRU" /\ Happens("RXIDLE", "READY")
       \/ radio = "TXRU" /\ Happens("TXIDLE", "READY")
    /\ UNCHANGED sent

PacketSent == radio = "TX" /\ Happens("TXIDLE", "END") /\ sent' = TRUE

SwitchedOff == radio = "DISABLE" /\ Happens("DISABLED", "DISABLED") /\ UNCHANGED sent

\* A packet comes in for the group that the radio listens to.  The task is at
\* work on a SEND if it is not in receive(ANY).
PacketIn(crc) ==
    /\ radio = "RX"
    /\ radio' = "RXIDLE" /\ radioEvents' = radioEvents \cup {"END"}
    /\ packet_buffer' = [group |-> PREFIX0, crc |-> crc]
    /\ met' = (met \/ radioTask # "receive")
    /\ UNCHANGED <<radioTask, mode, listener, sender, group, requestVars,
                   radioIrq, PREFIX0, regrouped, sent>>

\* The interrupt line is up as long as an event is set.
RadioInterrupt ==
    /\ radioEnabled /\ radioEvents # {} /\ radioTask # "panic"
    /\ radioEnabled' = FALSE /\ radioPending' = TRUE
    /\ UNCHANGED <<driverVars, requestVars, airVars, radioGhosts>>

-----------------------------------------------------------------------------
(* Clients *)

radio_call(c, what) ==
    /\ onAir[c] = "none" /\ radioTask # "panic"
    /\ onAir' = [onAir EXCEPT ![c] = what]
    /\ radioQueue' = Append(radioQueue, c)
    /\ UNCHANGED <<driverVars, radioIrq, airVars, radioGhosts>>

radio_group(g) ==
    /\ radioTask # "panic" /\ group # g
    /\ group' = g
    /\ regrouped' = (mode = "LISTENING")
    /\ UNCHANGED <<radioTask, mode, listener, sender, packet_buffer,
                   requestVars, radioIrq, airVars, met, sent>>

-----------------------------------------------------------------------------
(* The task *)

At(t) == radioTask = t

Answers(c) == onAir' = [onAir EXCEPT ![c] = "none"]

\* Seeded fault: a packet of another group is delivered.
RejectedByCrc == ~packet_buffer.crc

Rejected == ~packet_buffer.crc \/ packet_buffer.group # group

\* A packet has been received.
PacketReceived ==
    /\ At("receive") /\ radioPending
    /\ radioPending' = FALSE
    /\ IF "END" \notin radioEvents \/ mode # "LISTENING"
       THEN /\ radioTask' = "panic"
            /\ UNCHANGED <<radioEnabled, radioEvents, radio, onAir, listener, mode>>
       ELSE /\ radioEvents' = radioEvents \ {"END"}
            /\ radioEnabled' = TRUE
            /\ IF Rejected
               THEN radio' = "RX" /\ UNCHANGED <<onAir, listener, mode>>
               ELSE /\ Answers(listener) /\ listener' = NoStation
                    /\ mode' = "READY" /\ UNCHANGED radio
            /\ UNCHANGED radioTask
    /\ UNCHANGED <<sender, group, packet_buffer, radioQueue, PREFIX0, radioGhosts>>

\* START with the current group, for reception.
Listen == radio' = "RX" /\ PREFIX0' = group /\ regrouped' = FALSE

ReceiveRequest ==
    /\ At("receive") /\ ~radioPending /\ radioQueue # <<>>
    /\ onAir[Head(radioQueue)] = "receive"
    /\ radioQueue' = Tail(radioQueue)
    /\ \/ /\ mode = "LISTENING"
          /\ radioTask' = "panic"
          /\ UNCHANGED <<mode, listener, radio, PREFIX0, regrouped>>
       \/ /\ mode = "DISABLED"
          /\ listener' = Head(radioQueue)
          /\ radio' = "RXRU" /\ radioTask' = "rx ready"
          /\ UNCHANGED <<mode, PREFIX0, regrouped>>
       \/ /\ mode = "READY"
          /\ listener' = Head(radioQueue)
          /\ Listen /\ mode' = "LISTENING"
          /\ UNCHANGED radioTask
    /\ UNCHANGED <<sender, group, packet_buffer, onAir, radioIrq, radioEvents,
                   met, sent>>

\* The packet is put together in the buffer, and the transmitter enabled.
Transmit ==
    /\ packet_buffer' = [group |-> Own, crc |-> TRUE]
    /\ radio' = "TXRU" /\ radioTask' = "tx ready"

SendRequest ==
    /\ At("receive") /\ ~radioPending /\ radioQueue # <<>>
    /\ onAir[Head(radioQueue)] = "send"
    /\ sender' = Head(radioQueue) /\ radioQueue' = Tail(radioQueue)
    /\ sent' = FALSE /\ met' = (met \/ "END" \in radioEvents)
    /\ IF mode = "DISABLED" THEN Transmit
       ELSE radioTask' = "rx off" /\ UNCHANGED <<radio, packet_buffer>>
    /\ UNCHANGED <<mode, listener, group, onAir, radioIrq, radioEvents, PREFIX0,
                   regrouped>>

\* RADIO_DISABLE, with the receiver on; a packet may still have come in before.
SwitchOffReceiver ==
    /\ At("rx off")
    /\ radio' = "DISABLE" /\ radioTask' = "rx disabled"
    /\ UNCHANGED <<mode, listener, sender, group, packet_buffer, requestVars,
                   radioIrq, radioEvents, PREFIX0, radioGhosts>>

radio_await(event) ==
    /\ radioPending
    /\ event \in radioEvents
    /\ radioEvents' = radioEvents \ {event}
    /\ radioPending' = FALSE /\ radioEnabled' = TRUE

Awaits == [t \in {"rx ready", "rx disabled", "tx ready", "tx end", "tx disabled",
                  "rx again"} |->
              CASE t \in {"rx ready", "tx ready", "rx again"} -> "READY"
                [] t = "tx end" -> "END"
                [] OTHER -> "DISABLED"]

\* The assertion in radio_await() fails.
AwaitFails ==
    /\ radioTask \in DOMAIN Awaits /\ radioPending
    /\ Awaits[radioTask] \notin radioEvents
    /\ radioTask' = "panic" /\ radioPending' = FALSE
    /\ UNCHANGED <<mode, listener, sender, group, packet_buffer, requestVars,
                   radioEnabled, airVars, radioGhosts>>

ReceiverReady ==
    /\ At("rx ready") /\ radio_await("READY")
    /\ Listen /\ mode' = "LISTENING" /\ radioTask' = "receive"
    /\ UNCHANGED <<listener, sender, group, packet_buffer, requestVars, met, sent>>

ReceiverOff ==
    /\ At("rx disabled") /\ radio_await("DISABLED")
    /\ Transmit
    /\ UNCHANGED <<mode, listener, sender, group, requestVars, PREFIX0, radioGhosts>>

TransmitterReady ==
    /\ At("tx ready") /\ radio_await("READY")
    /\ radio' = "TX" /\ PREFIX0' = group /\ regrouped' = FALSE
    /\ radioTask' = "tx end"
    /\ UNCHANGED <<mode, listener, sender, group, packet_buffer, requestVars,
                   met, sent>>

TransmissionEnds ==
    /\ At("tx end") /\ radio_await("END")
    /\ radio' = "DISABLE" /\ radioTask' = "tx disabled"
    /\ UNCHANGED <<mode, listener, sender, group, packet_buffer, requestVars,
                   PREFIX0, radioGhosts>>

SendDone == /\ Answers(sender) /\ sender' = NoStation
            /\ radioTask' = "receive"

\* Seeded fault: the mode becomes DISABLED in any case.
TransmitterOffForgets ==
    /\ At("tx disabled") /\ radio_await("DISABLED")
    /\ mode' = "DISABLED" /\ SendDone /\ UNCHANGED radio
    /\ UNCHANGED <<listener, group, packet_buffer, radioQueue, PREFIX0, radioGhosts>>

\* The transmitter is off; a listener is listened for again.
TransmitterOff ==
    /\ At("tx disabled") /\ radio_await("DISABLED")
    /\ IF mode = "LISTENING"
       THEN radio' = "RXRU" /\ radioTask' = "rx again" /\ UNCHANGED <<mode, sender, onAir>>
       ELSE mode' = "DISABLED" /\ SendDone /\ UNCHANGED radio
    /\ UNCHANGED <<listener, group, packet_buffer, radioQueue, PREFIX0, radioGhosts>>

ListenAgain ==
    /\ At("rx again") /\ radio_await("READY")
    /\ radio' = "RX" /\ SendDone
    /\ UNCHANGED <<mode, listener, group, packet_buffer, radioQueue, PREFIX0,
                   radioGhosts>>

-----------------------------------------------------------------------------
RadioStep ==
    \/ PacketReceived \/ ReceiveRequest \/ SendRequest \/ SwitchOffReceiver
    \/ AwaitFails \/ ReceiverReady \/ ReceiverOff \/ TransmitterReady
    \/ TransmissionEnds \/ TransmitterOff \/ ListenAgain

AirStep == RampedUp \/ PacketSent \/ SwitchedOff

RadioNext ==
    \/ RadioStep \/ AirStep \/ RadioInterrupt
    \/ \E crc \in BOOLEAN : PacketIn(crc)
    \/ \E c \in Stations, what \in {"send", "receive"} : radio_call(c, what)
    \/ \E g \in Groups : radio_group(g)

RadioSpec == RadioInit /\ [][RadioNext]_radioVars

\* The task has the highest priority; the radio finishes what it was told.  A
\* packet takes much longer than the task needs for it, so that the task comes
\* to its queue between two packets.
RadioFairness ==
    /\ WF_radioVars(RadioStep) /\ WF_radioVars(AirStep)
    /\ WF_radioVars(RadioInterrupt)
    /\ SF_radioVars(ReceiveRequest \/ SendRequest)

-----------------------------------------------------------------------------
(* Properties *)

\* "assert(*event)": what ends a wait is the event that was waited for.
AwaitsHold ==
    radioTask \in DOMAIN Awaits /\ radioPending => Awaits[radioTask] \in radioEvents

\* It is, but for one case: a packet came in while a SEND was being dealt with
\* and before the receiver was off.
AwaitsFailOnlyOnMeeting == ~met => AwaitsHold

\* Between two requests the radio does what mode says, and no event is left
\* but that of a packet.
ModeMatchesRadio ==
    radioTask = "receive" /\ ~met =>
        /\ mode = "DISABLED" => radio = "DISABLED" /\ radioEvents = {}
        /\ mode = "READY" => radio = "RXIDLE" /\ radioEvents = {}
        /\ mode = "LISTENING" => \/ radio = "RX" /\ radioEvents = {}
                                 \/ radio = "RXIDLE" /\ radioEvents = {"END"}

\* There is a listener exactly when the mode says so, also after a SEND.
ListenerKept ==
    radioTask = "receive" /\ ~met =>
        /\ mode = "LISTENING" <=> listener # NoStation
        /\ listener # NoStation => onAir[listener] = "receive"

\* A client gets no packet but one from the air, for the group of the moment,
\* whose checksum is right; never the packet that was sent last.
DeliversFromAir ==
    [][\A c \in Stations :
          onAir[c] = "receive" /\ onAir'[c] = "none" /\ ~met =>
              packet_buffer.crc /\ packet_buffer.group = group]_radioVars

\* A send that returns has sent its packet in full.
SentInFull ==
    [][\A c \in Stations : onAir[c] = "send" /\ onAir'[c] = "none" /\ ~met => sent]_radioVars

\* A radio that listens, listens to the group that was set, unless it was set
\* during the RECEIVE: then the listener hears neither group.
DeafOnlyIfRegrouped ==
    mode = "LISTENING" /\ radio = "RX" /\ PREFIX0 # group => regrouped

\* But for the packet that meets a SEND and the group set during a RECEIVE,
\* task, radio and clients agree on what goes on, through any mix of requests.
RadioAgrees ==
    /\ AwaitsFailOnlyOnMeeting
    /\ ModeMatchesRadio /\ ListenerKept
    /\ DeafOnlyIfRegrouped

\* The one buffer never gives a client a packet that is not for it, nor the air
\* a part of one.
PacketsTrue == DeliversFromAir /\ SentInFull

\* A send ends, unless a packet met it or a second listener makes the task
\* panic.
SendsEnd ==
    \A c \in Stations :
        onAir[c] = "send" ~> onAir[c] = "none" \/ met \/ radioTask = "panic"
=============================================================================
