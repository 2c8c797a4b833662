---------------------------- MODULE DriverProofs ----------------------------
(***************************************************************************)
(* Theorems of the drivers of the radio, the bus, the converter and the    *)
(* display, and of the program that reads the accelerometer. Each driver   *)
(* has an inductive invariant of its own, which says what the task, the    *)
(* hardware and the interrupt between them are doing in each phase of a    *)
(* request.                                                                *)
(***************************************************************************)
EXTENDS Accel, Radio, Adc, Display, TLAPS

-----------------------------------------------------------------------------
(***************************************************************************)
(* The radio: the task and the hardware agree on what the radio does, and  *)
(* packets are sent and received as asked, for any stations and groups.    *)
(***************************************************************************)

RadioTasks == {"receive", "rx off", "panic"} \cup DOMAIN Awaits

RadioTypes ==
    /\ radioTask \in RadioTasks
    /\ mode \in {"DISABLED", "READY", "LISTENING"}
    /\ listener \in Stations \cup {NoStation}
    /\ sender \in Stations \cup {NoStation}
    /\ onAir \in [Stations -> {"none", "send", "receive"}]
    /\ radioQueue \in Seq(Stations)
    /\ radioPending \in BOOLEAN /\ radioEnabled \in BOOLEAN
    /\ radioEvents \subseteq {"READY", "END", "DISABLED"}
    /\ met \in BOOLEAN /\ sent \in BOOLEAN

\* Who waits for what: a client that is listened for or whose packet is being
\* sent has asked for that, and the clients in the queue are others.
WhoWaits ==
    /\ listener # NoStation => onAir[listener] = "receive"
    /\ sender # NoStation => onAir[sender] = "send"
    /\ \A i \in 1..Len(radioQueue) :
          /\ onAir[radioQueue[i]] # "none"
          /\ radioQueue[i] # listener /\ radioQueue[i] # sender
          /\ \A j \in 1..Len(radioQueue) : i # j => radioQueue[i] # radioQueue[j]

\* Whom the task is at work for.
Work ==
    /\ mode = "LISTENING" => listener # NoStation
    /\ listener # NoStation /\ radioTask # "panic" =>
          mode = "LISTENING" \/ radioTask = "rx ready"
    /\ radioTask = "rx ready" => listener # NoStation /\ mode = "DISABLED"
    /\ radioTask \in {"receive", "rx ready"} => sender = NoStation
    /\ radioTask \notin {"receive", "rx ready", "panic"} => sender # NoStation
    /\ radioTask = "rx again" => mode = "LISTENING"
    /\ radioTask = "rx off" => mode # "DISABLED"

\* The interrupt is disabled as long as its message waits, and there is an
\* event to come for then.
RadioArmed ==
    /\ radioPending => radioEvents # {}
    /\ radioTask # "panic" => radioEnabled = ~radioPending

Doing(s, e) == radio = s /\ radioEvents = e

\* What the radio does at each wait, unless a packet met a SEND: it is still at
\* what it was told, or has done it, with the event for it.
Phases ==
    ~met =>
        /\ radioTask = "receive" =>
              \/ mode = "DISABLED" /\ Doing("DISABLED", {})
              \/ mode = "READY" /\ Doing("RXIDLE", {})
              \/ mode = "LISTENING" /\ (Doing("RX", {}) \/ Doing("RXIDLE", {"END"}))
        /\ radioTask = "rx off" =>
              \/ mode = "READY" /\ Doing("RXIDLE", {})
              \/ mode = "LISTENING" /\ Doing("RX", {})
        /\ radioTask = "rx disabled" => Doing("DISABLE", {}) \/ Doing("DISABLED", {"DISABLED"})
        /\ radioTask \in {"rx ready", "rx again"} => Doing("RXRU", {}) \/ Doing("RXIDLE", {"READY"})
        /\ radioTask = "tx ready" => Doing("TXRU", {}) \/ Doing("TXIDLE", {"READY"})
        /\ radioTask = "tx end" => Doing("TX", {}) \/ (Doing("TXIDLE", {"END"}) /\ sent)
        /\ radioTask = "tx disabled" => Doing("DISABLE", {}) \/ Doing("DISABLED", {"DISABLED"})
        /\ radioTask \in {"tx disabled", "rx again"} => sent

\* A radio listens to the group that was set, or radio_group() has been called.
Deaf == mode = "LISTENING" /\ PREFIX0 # group => regrouped

RadioInv == RadioTypes /\ WhoWaits /\ Work /\ RadioArmed /\ Phases /\ Deaf

-----------------------------------------------------------------------------
\* What radio_await() waits for at each place.
LEMMA AwaitFacts ==
    /\ DOMAIN Awaits = {"rx ready", "rx disabled", "tx ready", "tx end", "tx disabled",
                        "rx again"}
    /\ \A t \in {"rx ready", "tx ready", "rx again"} : Awaits[t] = "READY"
    /\ Awaits["tx end"] = "END"
    /\ \A t \in {"rx disabled", "tx disabled"} : Awaits[t] = "DISABLED"
    BY DEF Awaits

\* The clients behind the first one keep their order.
LEMMA QueueFacts ==
    ASSUME NEW q \in Seq(Stations)
    PROVE  /\ \A c \in Stations :
                 /\ Append(q, c) \in Seq(Stations) /\ Len(Append(q, c)) = Len(q) + 1
                 /\ \A i \in 1..Len(q) : Append(q, c)[i] = q[i]
                 /\ Append(q, c)[Len(q) + 1] = c
           /\ q # <<>> => /\ Tail(q) \in Seq(Stations) /\ Head(q) \in Stations
                          /\ Len(q) \in Nat \ {0} /\ Len(Tail(q)) = Len(q) - 1
                          /\ Head(q) = q[1]
                          /\ \A i \in 1..Len(Tail(q)) : Tail(q)[i] = q[i + 1] 
    OBVIOUS


\* A step that leaves the requests alone.
LEMMA SameRequests ==
    ASSUME WhoWaits, UNCHANGED <<listener, sender, requestVars>>
    PROVE  WhoWaits'
    BY DEF WhoWaits, requestVars

\* The client that is answered is in hand no longer, and not in the queue.
LEMMA AnswerKeepsWaits ==
    ASSUME RadioTypes, WhoWaits, NEW c \in Stations, Answers(c),
           radioQueue' = radioQueue,
           \/ c = listener /\ listener' = NoStation /\ sender' = sender
           \/ c = sender /\ sender' = NoStation /\ listener' = listener
    PROVE  WhoWaits'
<1>1. \A d \in Stations : onAir'[d] = IF d = c THEN "none" ELSE onAir[d]
    BY DEF RadioTypes, Answers
<1>2. listener \in Stations => onAir[listener] = "receive"
    BY RadioAssumption DEF WhoWaits
<1>3. sender \in Stations => onAir[sender] = "send"
    BY RadioAssumption DEF WhoWaits
<1>4. /\ listener' # NoStation => onAir'[listener'] = "receive"
      /\ sender' # NoStation => onAir'[sender'] = "send"
    BY <1>1, <1>2, <1>3 DEF RadioTypes
<1>5. ASSUME NEW i \in 1..Len(radioQueue)
      PROVE  /\ onAir'[radioQueue[i]] # "none"
             /\ radioQueue[i] # listener' /\ radioQueue[i] # sender'
             /\ \A j \in 1..Len(radioQueue) : i # j => radioQueue[i] # radioQueue[j]
    <2>1. radioQueue[i] \in Stations /\ radioQueue[i] # c
        BY DEF RadioTypes, WhoWaits
    <2>2. onAir'[radioQueue[i]] # "none"
        BY <1>1, <2>1 DEF WhoWaits
    <2>3. radioQueue[i] # listener' /\ radioQueue[i] # sender'
        BY <2>1, RadioAssumption DEF WhoWaits
    <2>4. QED
        BY <2>2, <2>3 DEF WhoWaits
<1>6. QED
    BY <1>4, <1>5 DEF WhoWaits

\* The first client of the queue is taken in hand, or forgotten.
LEMMA TakingKeepsWaits ==
    ASSUME RadioTypes, WhoWaits, radioQueue # <<>>,
           radioQueue' = Tail(radioQueue), onAir' = onAir,
           \/ /\ listener' = Head(radioQueue) /\ onAir[Head(radioQueue)] = "receive"
              /\ sender' = sender
           \/ /\ sender' = Head(radioQueue) /\ onAir[Head(radioQueue)] = "send"
              /\ listener' = listener
           \/ UNCHANGED <<listener, sender>>
    PROVE  WhoWaits'
<1>1. /\ Len(radioQueue) \in Nat \ {0} /\ Len(Tail(radioQueue)) = Len(radioQueue) - 1
      /\ Head(radioQueue) = radioQueue[1]
      /\ \A i \in 1..Len(Tail(radioQueue)) : Tail(radioQueue)[i] = radioQueue[i + 1]
    BY QueueFacts DEF RadioTypes
<1>2. ASSUME NEW i \in 1..Len(radioQueue')
      PROVE  /\ i + 1 \in 1..Len(radioQueue) /\ radioQueue'[i] = radioQueue[i + 1]
             /\ radioQueue'[i] # Head(radioQueue)
    <2>1. i + 1 \in 1..Len(radioQueue) /\ 1 \in 1..Len(radioQueue) /\ i + 1 # 1
        BY <1>1
    <2>2. QED
        BY <1>1, <2>1 DEF WhoWaits
<1>3. /\ listener' # NoStation => onAir'[listener'] = "receive"
      /\ sender' # NoStation => onAir'[sender'] = "send"
    BY DEF WhoWaits
<1>4. ASSUME NEW i \in 1..Len(radioQueue')
      PROVE  /\ onAir'[radioQueue'[i]] # "none"
             /\ radioQueue'[i] # listener' /\ radioQueue'[i] # sender'
    BY <1>2 DEF WhoWaits
<1>5. ASSUME NEW i \in 1..Len(radioQueue'), NEW j \in 1..Len(radioQueue'), i # j
      PROVE  radioQueue'[i] # radioQueue'[j]
    <2>1. /\ i + 1 \in 1..Len(radioQueue) /\ radioQueue'[i] = radioQueue[i + 1]
          /\ j + 1 \in 1..Len(radioQueue) /\ radioQueue'[j] = radioQueue[j + 1]
        BY <1>2
    <2>2. i + 1 # j + 1
        BY <1>5, <1>1
    <2>3. QED
        BY <2>1, <2>2 DEF WhoWaits
<1>6. QED
    BY <1>3, <1>4, <1>5 DEF WhoWaits

LEMMA StartRadio == RadioInit => RadioInv
<1> SUFFICES ASSUME RadioInit PROVE RadioInv
    OBVIOUS
<1>1. RadioTypes
    <2>1. radioQueue \in Seq(Stations) /\ onAir \in [Stations -> {"none", "send", "receive"}]
        BY DEF RadioInit
    <2>2. QED
        BY <2>1, AwaitFacts DEF RadioInit, RadioTypes, RadioTasks
<1>2. WhoWaits
    BY DEF RadioInit, WhoWaits
<1>3. Work /\ RadioArmed /\ Phases /\ Deaf
    BY DEF RadioInit, Work, RadioArmed, Phases, Doing, Deaf
<1>4. QED
    BY <1>1, <1>2, <1>3 DEF RadioInv

LEMMA RampedUpKeeps ==
    ASSUME RadioInv, RampedUp
    PROVE  RadioInv'
<1>1. RadioTypes'
    BY AwaitFacts DEF RadioInv, RadioTypes, RadioTasks, RampedUp, Happens, driverVars, requestVars, radioIrq
<1>2. WhoWaits'
    BY SameRequests DEF RadioInv, RampedUp, Happens, driverVars, requestVars, radioIrq
<1>3. Work'
    BY AwaitFacts, RadioAssumption DEF RadioInv, RadioTypes, RadioTasks, Work, RampedUp, Happens, driverVars, requestVars, radioIrq
<1>4. RadioArmed'
    BY AwaitFacts DEF RadioInv, RadioTypes, RadioArmed, RampedUp, Happens, driverVars, requestVars, radioIrq
<1>5. Phases'
    BY AwaitFacts DEF RadioInv, RadioTypes, Work, RadioArmed, Phases, Doing, RampedUp, Happens, driverVars, requestVars, radioIrq
<1>6. Deaf'
    BY DEF RadioInv, RadioTypes, Deaf, RampedUp, Happens, driverVars, requestVars, radioIrq
<1>7. QED
    BY <1>1, <1>2, <1>3, <1>4, <1>5, <1>6 DEF RadioInv

LEMMA PacketSentKeeps ==
    ASSUME RadioInv, PacketSent
    PROVE  RadioInv'
<1>1. RadioTypes'
    BY AwaitFacts DEF RadioInv, RadioTypes, RadioTasks, PacketSent, Happens, driverVars, requestVars, radioIrq
<1>2. WhoWaits'
    BY SameRequests DEF RadioInv, PacketSent, Happens, driverVars, requestVars, radioIrq
<1>3. Work'
    BY AwaitFacts, RadioAssumption DEF RadioInv, RadioTypes, RadioTasks, Work, PacketSent, Happens, driverVars, requestVars, radioIrq
<1>4. RadioArmed'
    BY AwaitFacts DEF RadioInv, RadioTypes, RadioArmed, PacketSent, Happens, driverVars, requestVars, radioIrq
<1>5. Phases'
    BY AwaitFacts DEF RadioInv, RadioTypes, Work, RadioArmed, Phases, Doing, PacketSent, Happens, driverVars, requestVars, radioIrq
<1>6. Deaf'
    BY DEF RadioInv, RadioTypes, Deaf, PacketSent, Happens, driverVars, requestVars, radioIrq
<1>7. QED
    BY <1>1, <1>2, <1>3, <1>4, <1>5, <1>6 DEF RadioInv

LEMMA SwitchedOffKeeps ==
    ASSUME RadioInv, SwitchedOff
    PROVE  RadioInv'
<1>1. RadioTypes'
    BY AwaitFacts DEF RadioInv, RadioTypes, RadioTasks, SwitchedOff, Happens, driverVars, requestVars, radioIrq
<1>2. WhoWaits'
    BY SameRequests DEF RadioInv, SwitchedOff, Happens, driverVars, requestVars, radioIrq
<1>3. Work'
    BY AwaitFacts, RadioAssumption DEF RadioInv, RadioTypes, RadioTasks, Work, SwitchedOff, Happens, driverVars, requestVars, radioIrq
<1>4. RadioArmed'
    BY AwaitFacts DEF RadioInv, RadioTypes, RadioArmed, SwitchedOff, Happens, driverVars, requestVars, radioIrq
<1>5. Phases'
    BY AwaitFacts DEF RadioInv, RadioTypes, Work, RadioArmed, Phases, Doing, SwitchedOff, Happens, driverVars, requestVars, radioIrq
<1>6. Deaf'
    BY DEF RadioInv, RadioTypes, Deaf, SwitchedOff, Happens, driverVars, requestVars, radioIrq
<1>7. QED
    BY <1>1, <1>2, <1>3, <1>4, <1>5, <1>6 DEF RadioInv

LEMMA RadioInterruptKeeps ==
    ASSUME RadioInv, RadioInterrupt
    PROVE  RadioInv'
<1>1. RadioTypes'
    BY AwaitFacts DEF RadioInv, RadioTypes, RadioTasks, RadioInterrupt, driverVars, requestVars, airVars, radioGhosts
<1>2. WhoWaits'
    BY SameRequests DEF RadioInv, RadioInterrupt, driverVars, requestVars, airVars, radioGhosts
<1>3. Work'
    BY AwaitFacts, RadioAssumption DEF RadioInv, RadioTypes, RadioTasks, Work, RadioInterrupt, driverVars, requestVars, airVars, radioGhosts
<1>4. RadioArmed'
    BY AwaitFacts DEF RadioInv, RadioTypes, RadioArmed, RadioInterrupt, driverVars, requestVars, airVars, radioGhosts
<1>5. Phases'
    BY AwaitFacts DEF RadioInv, RadioTypes, Work, RadioArmed, Phases, Doing, RadioInterrupt, driverVars, requestVars, airVars, radioGhosts
<1>6. Deaf'
    BY DEF RadioInv, RadioTypes, Deaf, RadioInterrupt, driverVars, requestVars, airVars, radioGhosts
<1>7. QED
    BY <1>1, <1>2, <1>3, <1>4, <1>5, <1>6 DEF RadioInv

LEMMA SwitchOffReceiverKeeps ==
    ASSUME RadioInv, SwitchOffReceiver
    PROVE  RadioInv'
<1>1. RadioTypes'
    BY AwaitFacts DEF RadioInv, RadioTypes, RadioTasks, SwitchOffReceiver, At, requestVars, radioIrq, radioGhosts
<1>2. WhoWaits'
    BY SameRequests DEF RadioInv, SwitchOffReceiver, At, requestVars, radioIrq, radioGhosts
<1>3. Work'
    BY AwaitFacts, RadioAssumption DEF RadioInv, RadioTypes, RadioTasks, Work, SwitchOffReceiver, At, requestVars, radioIrq, radioGhosts
<1>4. RadioArmed'
    BY AwaitFacts DEF RadioInv, RadioTypes, RadioArmed, SwitchOffReceiver, At, requestVars, radioIrq, radioGhosts
<1>5. Phases'
    BY AwaitFacts DEF RadioInv, RadioTypes, Work, RadioArmed, Phases, Doing, SwitchOffReceiver, At, requestVars, radioIrq, radioGhosts
<1>6. Deaf'
    BY DEF RadioInv, RadioTypes, Deaf, SwitchOffReceiver, At, requestVars, radioIrq, radioGhosts
<1>7. QED
    BY <1>1, <1>2, <1>3, <1>4, <1>5, <1>6 DEF RadioInv

LEMMA AwaitFailsKeeps ==
    ASSUME RadioInv, AwaitFails
    PROVE  RadioInv'
<1>1. RadioTypes'
    BY AwaitFacts DEF RadioInv, RadioTypes, RadioTasks, AwaitFails, requestVars, airVars, radioGhosts
<1>2. WhoWaits'
    BY SameRequests DEF RadioInv, AwaitFails, requestVars, airVars, radioGhosts
<1>3. Work'
    BY AwaitFacts, RadioAssumption DEF RadioInv, RadioTypes, RadioTasks, Work, AwaitFails, requestVars, airVars, radioGhosts
<1>4. RadioArmed'
    BY AwaitFacts DEF RadioInv, RadioTypes, RadioArmed, AwaitFails, requestVars, airVars, radioGhosts
<1>5. Phases'
    BY AwaitFacts DEF RadioInv, RadioTypes, Work, RadioArmed, Phases, Doing, AwaitFails, requestVars, airVars, radioGhosts
<1>6. Deaf'
    BY DEF RadioInv, RadioTypes, Deaf, AwaitFails, requestVars, airVars, radioGhosts
<1>7. QED
    BY <1>1, <1>2, <1>3, <1>4, <1>5, <1>6 DEF RadioInv

LEMMA ReceiverReadyKeeps ==
    ASSUME RadioInv, ReceiverReady
    PROVE  RadioInv'
<1>1. RadioTypes'
    BY AwaitFacts DEF RadioInv, RadioTypes, RadioTasks, ReceiverReady, At, radio_await, Listen, requestVars
<1>2. WhoWaits'
    BY SameRequests DEF RadioInv, ReceiverReady, At, radio_await, Listen, requestVars
<1>3. Work'
    BY AwaitFacts, RadioAssumption DEF RadioInv, RadioTypes, RadioTasks, Work, ReceiverReady, At, radio_await, Listen, requestVars
<1>4. RadioArmed'
    BY AwaitFacts DEF RadioInv, RadioTypes, RadioArmed, ReceiverReady, At, radio_await, Listen, requestVars
<1>5. Phases'
    BY AwaitFacts DEF RadioInv, RadioTypes, Work, RadioArmed, Phases, Doing, ReceiverReady, At, radio_await, Listen, requestVars
<1>6. Deaf'
    BY DEF RadioInv, RadioTypes, Deaf, ReceiverReady, At, radio_await, Listen, requestVars
<1>7. QED
    BY <1>1, <1>2, <1>3, <1>4, <1>5, <1>6 DEF RadioInv

LEMMA ReceiverOffKeeps ==
    ASSUME RadioInv, ReceiverOff
    PROVE  RadioInv'
<1>1. RadioTypes'
    BY AwaitFacts DEF RadioInv, RadioTypes, RadioTasks, ReceiverOff, At, radio_await, Transmit, requestVars, radioGhosts
<1>2. WhoWaits'
    BY SameRequests DEF RadioInv, ReceiverOff, At, radio_await, Transmit, requestVars, radioGhosts
<1>3. Work'
    BY AwaitFacts, RadioAssumption DEF RadioInv, RadioTypes, RadioTasks, Work, ReceiverOff, At, radio_await, Transmit, requestVars, radioGhosts
<1>4. RadioArmed'
    BY AwaitFacts DEF RadioInv, RadioTypes, RadioArmed, ReceiverOff, At, radio_await, Transmit, requestVars, radioGhosts
<1>5. Phases'
    BY AwaitFacts DEF RadioInv, RadioTypes, Work, RadioArmed, Phases, Doing, ReceiverOff, At, radio_await, Transmit, requestVars, radioGhosts
<1>6. Deaf'
    BY DEF RadioInv, RadioTypes, Deaf, ReceiverOff, At, radio_await, Transmit, requestVars, radioGhosts
<1>7. QED
    BY <1>1, <1>2, <1>3, <1>4, <1>5, <1>6 DEF RadioInv

LEMMA TransmitterReadyKeeps ==
    ASSUME RadioInv, TransmitterReady
    PROVE  RadioInv'
<1>1. RadioTypes'
    BY AwaitFacts DEF RadioInv, RadioTypes, RadioTasks, TransmitterReady, At, radio_await, requestVars
<1>2. WhoWaits'
    BY SameRequests DEF RadioInv, TransmitterReady, At, radio_await, requestVars
<1>3. Work'
    BY AwaitFacts, RadioAssumption DEF RadioInv, RadioTypes, RadioTasks, Work, TransmitterReady, At, radio_await, requestVars
<1>4. RadioArmed'
    BY AwaitFacts DEF RadioInv, RadioTypes, RadioArmed, TransmitterReady, At, radio_await, requestVars
<1>5. Phases'
    BY AwaitFacts DEF RadioInv, RadioTypes, Work, RadioArmed, Phases, Doing, TransmitterReady, At, radio_await, requestVars
<1>6. Deaf'
    BY DEF RadioInv, RadioTypes, Deaf, TransmitterReady, At, radio_await, requestVars
<1>7. QED
    BY <1>1, <1>2, <1>3, <1>4, <1>5, <1>6 DEF RadioInv

LEMMA TransmissionEndsKeeps ==
    ASSUME RadioInv, TransmissionEnds
    PROVE  RadioInv'
<1>1. RadioTypes'
    BY AwaitFacts DEF RadioInv, RadioTypes, RadioTasks, TransmissionEnds, At, radio_await, requestVars, radioGhosts
<1>2. WhoWaits'
    BY SameRequests DEF RadioInv, TransmissionEnds, At, radio_await, requestVars, radioGhosts
<1>3. Work'
    BY AwaitFacts, RadioAssumption DEF RadioInv, RadioTypes, RadioTasks, Work, TransmissionEnds, At, radio_await, requestVars, radioGhosts
<1>4. RadioArmed'
    BY AwaitFacts DEF RadioInv, RadioTypes, RadioArmed, TransmissionEnds, At, radio_await, requestVars, radioGhosts
<1>5. Phases'
    BY AwaitFacts DEF RadioInv, RadioTypes, Work, RadioArmed, Phases, Doing, TransmissionEnds, At, radio_await, requestVars, radioGhosts
<1>6. Deaf'
    BY DEF RadioInv, RadioTypes, Deaf, TransmissionEnds, At, radio_await, requestVars, radioGhosts
<1>7. QED
    BY <1>1, <1>2, <1>3, <1>4, <1>5, <1>6 DEF RadioInv

LEMMA PacketInKeeps ==
    ASSUME RadioInv, NEW crc \in BOOLEAN, PacketIn(crc)
    PROVE  RadioInv'
<1>1. RadioTypes'
    BY AwaitFacts DEF RadioInv, RadioTypes, RadioTasks, PacketIn, requestVars, radioIrq
<1>2. WhoWaits'
    BY SameRequests DEF RadioInv, PacketIn, requestVars, radioIrq
<1>3. Work'
    BY AwaitFacts, RadioAssumption DEF RadioInv, RadioTypes, RadioTasks, Work, PacketIn, requestVars, radioIrq
<1>4. RadioArmed'
    BY AwaitFacts DEF RadioInv, RadioTypes, RadioArmed, PacketIn, requestVars, radioIrq
<1>5. Phases'
    BY AwaitFacts DEF RadioInv, RadioTypes, Work, RadioArmed, Phases, Doing, PacketIn, requestVars, radioIrq
<1>6. Deaf'
    BY DEF RadioInv, RadioTypes, Deaf, PacketIn, requestVars, radioIrq
<1>7. QED
    BY <1>1, <1>2, <1>3, <1>4, <1>5, <1>6 DEF RadioInv

LEMMA radio_groupKeeps ==
    ASSUME RadioInv, NEW g \in Groups, radio_group(g)
    PROVE  RadioInv'
<1>1. RadioTypes'
    BY AwaitFacts DEF RadioInv, RadioTypes, RadioTasks, radio_group, requestVars, radioIrq, airVars
<1>2. WhoWaits'
    BY SameRequests DEF RadioInv, radio_group, requestVars, radioIrq, airVars
<1>3. Work'
    BY AwaitFacts, RadioAssumption DEF RadioInv, RadioTypes, RadioTasks, Work, radio_group, requestVars, radioIrq, airVars
<1>4. RadioArmed'
    BY AwaitFacts DEF RadioInv, RadioTypes, RadioArmed, radio_group, requestVars, radioIrq, airVars
<1>5. Phases'
    BY AwaitFacts DEF RadioInv, RadioTypes, Work, RadioArmed, Phases, Doing, radio_group, requestVars, radioIrq, airVars
<1>6. Deaf'
    BY DEF RadioInv, RadioTypes, Deaf, radio_group, requestVars, radioIrq, airVars
<1>7. QED
    BY <1>1, <1>2, <1>3, <1>4, <1>5, <1>6 DEF RadioInv

LEMMA TransmitterOffKeeps ==
    ASSUME RadioInv, TransmitterOff
    PROVE  RadioInv'
<1>1. RadioTypes'
    BY AwaitFacts DEF RadioInv, RadioTypes, RadioTasks, TransmitterOff, At, radio_await, SendDone, radioGhosts, Answers
<1>2. WhoWaits'
    BY AwaitFacts, AnswerKeepsWaits, TakingKeepsWaits, SameRequests DEF RadioInv, RadioTypes, Work, TransmitterOff, At, radio_await, SendDone, radioGhosts, requestVars
<1>3. Work'
    BY AwaitFacts, RadioAssumption DEF RadioInv, RadioTypes, RadioTasks, Work, TransmitterOff, At, radio_await, SendDone, radioGhosts
<1>4. RadioArmed'
    BY AwaitFacts DEF RadioInv, RadioTypes, RadioArmed, TransmitterOff, At, radio_await, SendDone, radioGhosts
<1>5. Phases'
    BY AwaitFacts DEF RadioInv, RadioTypes, Work, RadioArmed, Phases, Doing, TransmitterOff, At, radio_await, SendDone, radioGhosts
<1>6. Deaf'
    BY DEF RadioInv, RadioTypes, Deaf, TransmitterOff, At, radio_await, SendDone, radioGhosts
<1>7. QED
    BY <1>1, <1>2, <1>3, <1>4, <1>5, <1>6 DEF RadioInv

LEMMA ListenAgainKeeps ==
    ASSUME RadioInv, ListenAgain
    PROVE  RadioInv'
<1>1. RadioTypes'
    BY AwaitFacts DEF RadioInv, RadioTypes, RadioTasks, ListenAgain, At, radio_await, SendDone, radioGhosts, Answers
<1>2. WhoWaits'
    BY AwaitFacts, AnswerKeepsWaits, TakingKeepsWaits, SameRequests DEF RadioInv, RadioTypes, Work, ListenAgain, At, radio_await, SendDone, radioGhosts, requestVars
<1>3. Work'
    BY AwaitFacts, RadioAssumption DEF RadioInv, RadioTypes, RadioTasks, Work, ListenAgain, At, radio_await, SendDone, radioGhosts
<1>4. RadioArmed'
    BY AwaitFacts DEF RadioInv, RadioTypes, RadioArmed, ListenAgain, At, radio_await, SendDone, radioGhosts
<1>5. Phases'
    BY AwaitFacts DEF RadioInv, RadioTypes, Work, RadioArmed, Phases, Doing, ListenAgain, At, radio_await, SendDone, radioGhosts
<1>6. Deaf'
    BY DEF RadioInv, RadioTypes, Deaf, ListenAgain, At, radio_await, SendDone, radioGhosts
<1>7. QED
    BY <1>1, <1>2, <1>3, <1>4, <1>5, <1>6 DEF RadioInv

LEMMA PacketReceivedKeeps ==
    ASSUME RadioInv, PacketReceived
    PROVE  RadioInv'
<1>1. RadioTypes'
    BY AwaitFacts DEF RadioInv, RadioTypes, RadioTasks, PacketReceived, At, radioGhosts, Answers
<1>2. WhoWaits'
    BY AwaitFacts, AnswerKeepsWaits, TakingKeepsWaits, SameRequests DEF RadioInv, RadioTypes, Work, PacketReceived, At, radioGhosts, requestVars
<1>3. Work'
    BY AwaitFacts, RadioAssumption DEF RadioInv, RadioTypes, RadioTasks, Work, PacketReceived, At, radioGhosts
<1>4. RadioArmed'
    BY AwaitFacts DEF RadioInv, RadioTypes, RadioArmed, PacketReceived, At, radioGhosts
<1>5. Phases'
    BY AwaitFacts DEF RadioInv, RadioTypes, Work, RadioArmed, Phases, Doing, PacketReceived, At, radioGhosts
<1>6. Deaf'
    BY DEF RadioInv, RadioTypes, Deaf, PacketReceived, At, radioGhosts
<1>7. QED
    BY <1>1, <1>2, <1>3, <1>4, <1>5, <1>6 DEF RadioInv

LEMMA ReceiveRequestKeeps ==
    ASSUME RadioInv, ReceiveRequest
    PROVE  RadioInv'
<1>1. /\ Tail(radioQueue) \in Seq(Stations) /\ Head(radioQueue) \in Stations
      /\ Head(radioQueue) # NoStation
    <2>1. radioQueue \in Seq(Stations) /\ radioQueue # <<>>
        BY DEF RadioInv, RadioTypes, ReceiveRequest
    <2>2. QED
        BY <2>1, QueueFacts, RadioAssumption
<1>2. ASSUME mode = "LISTENING", radioTask' = "panic",
             UNCHANGED <<mode, listener, radio, PREFIX0, regrouped>>
      PROVE  RadioInv'
    <2>1. RadioTypes' /\ Work' /\ RadioArmed' /\ Deaf'
        BY <1>1, <1>2
           DEF RadioInv, RadioTypes, RadioTasks, Work, RadioArmed, Deaf, ReceiveRequest, At,
               radioIrq
    <2>2. Phases'
        BY <1>2 DEF Phases
    <2>3. WhoWaits'
        BY <1>2, TakingKeepsWaits DEF RadioInv, ReceiveRequest
    <2>4. QED
        BY <2>1, <2>2, <2>3 DEF RadioInv
<1>3. ASSUME mode = "DISABLED", listener' = Head(radioQueue),
             radio' = "RXRU", radioTask' = "rx ready",
             UNCHANGED <<mode, PREFIX0, regrouped>>
      PROVE  RadioInv'
    <2>1. RadioTypes'
        BY <1>1, <1>3, AwaitFacts DEF RadioInv, RadioTypes, RadioTasks, ReceiveRequest, radioIrq
    <2>2. Work' /\ RadioArmed' /\ Deaf'
        BY <1>1, <1>3 DEF RadioInv, Work, RadioArmed, Deaf, ReceiveRequest, At, radioIrq
    <2>3. Phases'
        BY <1>3 DEF RadioInv, Phases, Doing, ReceiveRequest, At
    <2>4. WhoWaits'
        BY <1>3, TakingKeepsWaits DEF RadioInv, ReceiveRequest
    <2>5. QED
        BY <2>1, <2>2, <2>3, <2>4 DEF RadioInv
<1>4. ASSUME mode = "READY", listener' = Head(radioQueue), Listen,
             mode' = "LISTENING", UNCHANGED radioTask
      PROVE  RadioInv'
    <2>1. RadioTypes'
        BY <1>1, <1>4, AwaitFacts DEF RadioInv, RadioTypes, RadioTasks, ReceiveRequest, radioIrq
    <2>2. Work' /\ RadioArmed'
        BY <1>1, <1>4 DEF RadioInv, Work, RadioArmed, ReceiveRequest, At, radioIrq
    <2>3. Phases' /\ Deaf'
        BY <1>4 DEF RadioInv, Phases, Deaf, Doing, ReceiveRequest, At, Listen
    <2>4. WhoWaits'
        BY <1>4, TakingKeepsWaits DEF RadioInv, ReceiveRequest
    <2>5. QED
        BY <2>1, <2>2, <2>3, <2>4 DEF RadioInv
<1>5. QED
    BY <1>2, <1>3, <1>4 DEF ReceiveRequest

LEMMA SendRequestKeeps ==
    ASSUME RadioInv, SendRequest
    PROVE  RadioInv'
<1>1. /\ Tail(radioQueue) \in Seq(Stations) /\ Head(radioQueue) \in Stations
      /\ Head(radioQueue) # NoStation
    <2>1. radioQueue \in Seq(Stations) /\ radioQueue # <<>>
        BY DEF RadioInv, RadioTypes, SendRequest
    <2>2. QED
        BY <2>1, QueueFacts, RadioAssumption
<1>2. \/ radioTask' = "tx ready" /\ mode = "DISABLED" /\ radio' = "TXRU"
      \/ radioTask' = "rx off" /\ mode # "DISABLED" /\ radio' = radio
    BY DEF SendRequest, Transmit
<1>3. RadioTypes'
    BY <1>1, <1>2, AwaitFacts DEF RadioInv, RadioTypes, RadioTasks, SendRequest, radioIrq
<1>4. WhoWaits'
    BY TakingKeepsWaits DEF RadioInv, SendRequest
<1>5. Work'
    BY <1>1, <1>2 DEF RadioInv, RadioTypes, Work, SendRequest, At
<1>6. RadioArmed' /\ Deaf'
    BY <1>2 DEF RadioInv, RadioArmed, Deaf, SendRequest, At, radioIrq
<1>7. Phases'
    BY <1>2 DEF RadioInv, RadioTypes, Phases, Doing, SendRequest, At
<1>8. QED
    BY <1>3, <1>4, <1>5, <1>6, <1>7 DEF RadioInv

LEMMA radio_callKeeps ==
    ASSUME RadioInv, NEW c \in Stations, NEW what \in {"send", "receive"},
           radio_call(c, what)
    PROVE  RadioInv'
<1>1. RadioTypes'
    BY QueueFacts, AwaitFacts
       DEF RadioInv, RadioTypes, RadioTasks, radio_call, driverVars, radioIrq, airVars, radioGhosts
<1>2. Work' /\ RadioArmed' /\ Phases' /\ Deaf'
    BY DEF RadioInv, Work, RadioArmed, Phases, Doing, Deaf, radio_call, driverVars, radioIrq,
           airVars, radioGhosts
<1>3. /\ onAir[c] = "none" /\ c # listener /\ c # sender
      /\ \A i \in 1..Len(radioQueue) : radioQueue[i] # c
    BY RadioAssumption DEF RadioInv, WhoWaits, radio_call
<1>4. \A d \in Stations : onAir'[d] = IF d = c THEN what ELSE onAir[d]
    BY DEF RadioInv, RadioTypes, radio_call
<1>5. /\ Len(radioQueue) \in Nat /\ Len(radioQueue') = Len(radioQueue) + 1
      /\ \A i \in 1..Len(radioQueue) :
            radioQueue[i] \in Stations /\ radioQueue'[i] = radioQueue[i]
      /\ radioQueue'[Len(radioQueue) + 1] = c
    BY QueueFacts DEF RadioInv, RadioTypes, radio_call
<1>6. WhoWaits'
    <2>1. listener' = listener /\ sender' = sender
        BY DEF radio_call, driverVars
    <2>2. /\ listener' # NoStation => onAir'[listener'] = "receive"
          /\ sender' # NoStation => onAir'[sender'] = "send"
        BY <2>1, <1>3, <1>4 DEF RadioInv, RadioTypes, WhoWaits
    <2>3. ASSUME NEW i \in 1..Len(radioQueue')
          PROVE  \/ i \in 1..Len(radioQueue)
                 \/ i = Len(radioQueue) + 1
        BY <1>5
    <2>4. ASSUME NEW i \in 1..Len(radioQueue')
          PROVE  /\ onAir'[radioQueue'[i]] # "none"
                 /\ radioQueue'[i] # listener' /\ radioQueue'[i] # sender'
        BY <2>1, <2>3, <1>3, <1>4, <1>5 DEF RadioInv, WhoWaits
    <2>5. ASSUME NEW i \in 1..Len(radioQueue'), NEW j \in 1..Len(radioQueue'), i # j
          PROVE  radioQueue'[i] # radioQueue'[j]
        BY <2>3, <2>5, <1>3, <1>5 DEF RadioInv, WhoWaits
    <2>6. QED
        BY <2>2, <2>4, <2>5 DEF WhoWaits
<1>7. QED
    BY <1>1, <1>2, <1>6 DEF RadioInv

-----------------------------------------------------------------------------
(* The theorems *)

LEMMA RadioInvStep == RadioInv /\ [RadioNext]_radioVars => RadioInv'
<1> SUFFICES ASSUME RadioInv, [RadioNext]_radioVars PROVE RadioInv'
    OBVIOUS
<1>1. CASE RadioStep
    BY <1>1, PacketReceivedKeeps, ReceiveRequestKeeps, SendRequestKeeps,
       SwitchOffReceiverKeeps, AwaitFailsKeeps, ReceiverReadyKeeps, ReceiverOffKeeps,
       TransmitterReadyKeeps, TransmissionEndsKeeps, TransmitterOffKeeps, ListenAgainKeeps
       DEF RadioStep
<1>2. CASE AirStep \/ RadioInterrupt
    BY <1>2, RampedUpKeeps, PacketSentKeeps, SwitchedOffKeeps, RadioInterruptKeeps DEF AirStep
<1>3. CASE \E crc \in BOOLEAN : PacketIn(crc)
    BY <1>3, PacketInKeeps
<1>4. CASE \E c \in Stations, what \in {"send", "receive"} : radio_call(c, what)
    BY <1>4, radio_callKeeps
<1>5. CASE \E g \in Groups : radio_group(g)
    BY <1>5, radio_groupKeeps
<1>6. CASE UNCHANGED radioVars
    <2>1. RadioTypes' /\ WhoWaits' /\ Work'
        BY <1>6 DEF RadioInv, RadioTypes, WhoWaits, Work, radioVars, driverVars, requestVars,
                    radioIrq, airVars, radioGhosts
    <2>2. RadioArmed' /\ Phases' /\ Deaf'
        BY <1>6 DEF RadioInv, RadioArmed, Phases, Doing, Deaf, radioVars, driverVars, radioIrq,
                    airVars, radioGhosts
    <2>3. QED
        BY <2>1, <2>2 DEF RadioInv
<1>7. QED
    BY <1>1, <1>2, <1>3, <1>4, <1>5, <1>6 DEF RadioNext

\* The invariant of the radio driver holds at all times.
THEOREM RadioInvariance == RadioSpec => []RadioInv
<1>1. QED
    BY StartRadio, RadioInvStep, PTL DEF RadioSpec

LEMMA RadioInvAgrees == RadioInv => RadioAgrees
<1> SUFFICES ASSUME RadioInv PROVE RadioAgrees
    OBVIOUS
<1>1. AwaitsFailOnlyOnMeeting
    BY AwaitFacts DEF RadioInv, RadioArmed, Phases, Doing, AwaitsFailOnlyOnMeeting, AwaitsHold
<1>2. ModeMatchesRadio
    BY DEF RadioInv, Phases, Doing, ModeMatchesRadio
<1>3. ListenerKept
    BY DEF RadioInv, WhoWaits, Work, ListenerKept
<1>4. DeafOnlyIfRegrouped
    BY DEF RadioInv, Deaf, DeafOnlyIfRegrouped
<1>5. QED
    BY <1>1, <1>2, <1>3, <1>4 DEF RadioAgrees

\* But for the packet that meets a SEND and the group set during a RECEIVE, the
\* driver, the radio and the clients agree on what goes on: for any number of
\* clients, any groups and any number of requests in the queue (radio.c).
THEOREM RadioAgreement == RadioSpec => []RadioAgrees
<1>1. QED
    BY RadioInvariance, RadioInvAgrees, PTL

\* Only PacketReceived and the end of a SEND answer a client.
LEMMA WhoIsAnswered ==
    ASSUME RadioInv, [RadioNext]_radioVars, NEW c \in Stations,
           onAir[c] # "none", onAir'[c] = "none"
    PROVE  \/ PacketReceived /\ c = listener /\ onAir[c] = "receive" /\ ~Rejected
           \/ /\ c = sender /\ onAir[c] = "send"
              /\ radioTask \in {"tx disabled", "rx again"}
              /\ radio_await(IF radioTask = "rx again" THEN "READY" ELSE "DISABLED")
<1>1. CASE onAir' = onAir
    BY <1>1
<1>2. CASE PacketReceived
    BY <1>2 DEF RadioInv, RadioTypes, WhoWaits, Work, PacketReceived, At, Answers
<1>3. CASE TransmitterOff \/ ListenAgain
    BY <1>3, RadioAssumption
       DEF RadioInv, RadioTypes, WhoWaits, Work, TransmitterOff, ListenAgain, At, SendDone, Answers
<1>4. CASE \E d \in Stations, what \in {"send", "receive"} : radio_call(d, what)
    BY <1>4 DEF RadioInv, RadioTypes, radio_call
<1>5. QED
    BY <1>1, <1>2, <1>3, <1>4
       DEF RadioNext, RadioStep, AirStep, ReceiveRequest, SendRequest, SwitchOffReceiver,
           AwaitFails, ReceiverReady, ReceiverOff, TransmitterReady, TransmissionEnds, RampedUp,
           PacketSent, SwitchedOff, Happens, RadioInterrupt, PacketIn, radio_group, radioVars,
           requestVars

\* A client gets only packets from the air that are for the group of the moment
\* and have the right checksum, and a send returns only after the packet has
\* been sent in full, as long as no packet met a SEND (radio.c).
THEOREM RadioPackets == RadioSpec => PacketsTrue
<1>1. RadioInv /\ [RadioNext]_radioVars =>
          [\A c \in Stations :
              onAir[c] = "receive" /\ onAir'[c] = "none" /\ ~met =>
                  packet_buffer.crc /\ packet_buffer.group = group]_radioVars
    BY WhoIsAnswered DEF Rejected
<1>2. RadioInv /\ [RadioNext]_radioVars =>
          [\A c \in Stations : onAir[c] = "send" /\ onAir'[c] = "none" /\ ~met => sent]_radioVars
    BY WhoIsAnswered DEF RadioInv, Phases
<1>3. RadioSpec => DeliversFromAir /\ SentInFull
    BY <1>1, <1>2, RadioInvariance, PTL DEF RadioSpec, DeliversFromAir, SentInFull
<1>4. QED
    BY <1>3 DEF PacketsTrue

-----------------------------------------------------------------------------
(***************************************************************************)
(* The bus: the driver keeps to the protocol of the hardware, and a        *)
(* transfer is answered with what happened on the bus; the program that    *)
(* looks for an accelerometer transfers one thing at a time, with a chip   *)
(* that is there.                                                          *)
(***************************************************************************)

I2CTasks == {"receive", "command", "data", "reading", "ending", "stopping", "failing",
             "answering"}
Errors == {"none", "ANACK", "DNACK", "OVERRUN"}
Replies == [status : {"none", "OK", "ERR"}, error : Errors, addr : Chips \cup {Unused}]

I2CTypes ==
    /\ i2cTask \in I2CTasks
    /\ xfer \in XferSet \cup {NoTransfer} /\ master \in Masters \cup {Unused}
    /\ left \in Nat /\ moved \in Nat
    /\ status \in {"OK", "ERR"} /\ error \in Errors /\ ERRORSRC \in Errors
    /\ xferQueue \in Seq(Masters)
    /\ xferOf \in [Masters -> XferSet \cup {NoTransfer}]
    /\ result \in [Masters -> Replies]
    /\ i2cPending \in BOOLEAN /\ i2cEnabled \in BOOLEAN

\* The transaction in hand is the one its client waits for.
InHand ==
    i2cTask # "receive" => /\ xfer \in XferSet /\ master \in Masters
                           /\ xferOf[master] = xfer

I2CArmed ==
    /\ i2cPending => events # {}
    /\ i2cEnabled = ~i2cPending

BusDoes(b, e) == bus = b /\ events = e

\* STOP has been given: the bus is at it, or idle with the event for it.
StopGiven == BusDoes("stopping", {}) \/ BusDoes("idle", {"STOPPED"})

\* What the bus does while the task waits at each place: it is still at what
\* it was told, or has done it, or holds the clock after an error.
BusPhases ==
    /\ i2cTask \in {"receive", "answering"} => BusDoes("idle", {})
    /\ i2cTask \in {"command", "data"} =>
          \/ BusDoes("sending", {})
          \/ BusDoes("held", {"TXDSENT"}) \/ BusDoes("held", {"ERROR"})
    /\ i2cTask = "reading" =>
          \/ BusDoes("receiving", {}) \/ BusDoes("held", {"ERROR"})
          \/ left > 1 /\ BusDoes("held", {"RXDREADY"})
          \/ /\ left = 1
             /\ BusDoes("stopping", {"RXDREADY"}) \/ BusDoes("idle", {"RXDREADY", "STOPPED"})
    /\ i2cTask = "ending" =>
          \/ StopGiven
          \/ xfer.n2 = 0 /\ (BusDoes("held", {}) \/ BusDoes("idle", {}))
    /\ i2cTask \in {"stopping", "failing"} => StopGiven

\* The shortcut is set for the bytes that are read, and only then.
Shortcut ==
    /\ i2cTask \in {"data", "stopping"} => xfer.kind = "WRITE"
    /\ i2cTask \in {"reading", "ending"} => xfer.kind = "READ"
    /\ i2cTask = "reading" => SHORTS = IF left > 1 THEN "BB_SUSPEND" ELSE "BB_STOP"
    /\ i2cTask \in {"receive", "command"} \/ xfer.kind = "WRITE" => SHORTS = "none"

Got == IF "TXDSENT" \in events \/ "RXDREADY" \in events THEN 1 ELSE 0

\* The bytes that have been moved at each place.
Count ==
    /\ i2cTask = "command" => left \in 1..xfer.n1 /\ moved = xfer.n1 - left + Got
    /\ i2cTask \in {"data", "reading"} =>
          left \in 1..xfer.n2 /\ moved = xfer.n1 + xfer.n2 - left + Got
    /\ i2cTask \in {"ending", "stopping"} => moved = xfer.n1 + xfer.n2
    /\ i2cTask = "failing" => moved < xfer.n1 + xfer.n2
    /\ i2cTask = "answering" =>
          IF status = "OK" THEN moved = xfer.n1 + xfer.n2 ELSE moved < xfer.n1 + xfer.n2
    /\ i2cTask # "receive" /\ moved > 0 => xfer.addr \in present

OwnError(e, addr) == e # "none" /\ (e = "ANACK" <=> addr \notin present)

\* ERRORSRC tells of the transaction in hand, and only after an error.
Outcome ==
    /\ i2cTask \in {"command", "data", "reading", "ending", "stopping"} => status = "OK"
    /\ i2cTask = "failing" => status = "ERR"
    /\ IF i2cTask # "receive" /\ ("ERROR" \in events \/ status = "ERR")
       THEN OwnError(ERRORSRC, xfer.addr) ELSE ERRORSRC = "none"

I2CInv ==
    /\ I2CTypes /\ InHand /\ I2CArmed /\ BusPhases /\ Shortcut /\ Count /\ Outcome
    /\ ErrorIsOwn

-----------------------------------------------------------------------------
Steps == {"start", "probe1", "probe2", "write1", "write2", "read", "panic"}

\* The program is in a call of its own, or knows how the last one ended.
ProgramInv ==
    /\ step \in Steps
    /\ step \in {"start", "panic"} => xferOf[Program] = NoTransfer
    /\ xferOf[Program] # NoTransfer =>
          /\ xferOf[Program].n1 = 1
          /\ step \in {"probe1", "write1"} => xferOf[Program].addr = "ACC1"
          /\ step \in {"probe2", "write2"} => xferOf[Program].addr = "ACC2"
    /\ step # "start" /\ xferOf[Program] = NoTransfer => result[Program].status \in {"OK", "ERR"}
    /\ xferOf[Program] = NoTransfer /\ result[Program].status = "OK" =>
          /\ step \in {"probe1", "write1"} => "ACC1" \in present
          /\ step \in {"probe2", "write2"} => "ACC2" \in present

LevelInv == I2CInv /\ ProgramInv /\ ChipIsThere

-----------------------------------------------------------------------------
\* What the records are made of.
LEMMA XferFacts ==
    /\ \A t \in XferSet : /\ t.kind \in {"READ", "WRITE"} /\ t.n1 \in Nat /\ t.n2 \in Nat
                          /\ t.addr \in Chips /\ t # NoTransfer
    /\ NoTransfer.kind = "NONE" /\ NoTransfer.n1 = 0
<1>1. NoTransfer.kind = "NONE" /\ NoTransfer.n1 = 0
    BY DEF NoTransfer, Transfer
<1>2. QED
    BY <1>1 DEF XferSet

\* What becomes of a transaction in a message.
LEMMA MessageFacts ==
    ASSUME NEW t \in XferSet
    PROVE  /\ InMessage(t) \in XferSet
           /\ InMessage(t).addr = t.addr /\ (t.n1 = 1 => InMessage(t).n1 = 1)
<1>1. t.n1 % 256 \in Nat /\ t.n2 % 256 \in Nat /\ 1 % 256 = 1
    BY DEF XferSet
<1>2. t.kind \in {"READ", "WRITE"} /\ t.addr \in Chips
    BY DEF XferSet
<1>3. QED
    BY <1>1, <1>2 DEF InMessage, Transfer, XferSet

\* A queue of clients, after a client has come or has been taken from it.
LEMMA XferQueueFacts ==
    ASSUME NEW q \in Seq(Masters)
    PROVE  /\ \A c \in Masters : Append(q, c) \in Seq(Masters)
           /\ q # <<>> => Tail(q) \in Seq(Masters) /\ Head(q) \in Masters
    OBVIOUS

LEMMA StartBus == I2CInit => I2CInv
<1> SUFFICES ASSUME I2CInit PROVE I2CInv
    OBVIOUS
<1>1. I2CTypes
    <2>1. result \in [Masters -> Replies] /\ xferOf \in [Masters -> XferSet \cup {NoTransfer}]
        BY DEF I2CInit, Replies, Reply, Errors
    <2>2. xferQueue \in Seq(Masters)
        BY DEF I2CInit
    <2>3. QED
        BY <2>1, <2>2 DEF I2CInit, I2CTypes, I2CTasks, Errors
<1>2. InHand /\ I2CArmed /\ BusPhases /\ Shortcut /\ Count /\ Outcome
    BY XferFacts DEF I2CInit, InHand, I2CArmed, BusPhases, BusDoes, Shortcut, Count, Outcome
<1>3. ErrorIsOwn
    BY DEF I2CInit, ErrorIsOwn, Reply
<1>4. QED
    BY <1>1, <1>2, <1>3 DEF I2CInv

LEMMA ByteSentKeeps ==
    ASSUME I2CInv, ByteSent
    PROVE  I2CInv'
<1> USE XferFacts
<1>1. I2CTypes'
    BY XferQueueFacts DEF I2CInv, I2CTypes, InHand, I2CTasks, Errors, Replies, ByteSent, HardwareStep, i2cTaskVars, callVars, i2cIrq
<1>2. InHand'
    BY DEF I2CInv, I2CTypes, InHand, ByteSent, HardwareStep, i2cTaskVars, callVars, i2cIrq
<1>3. I2CArmed'
    BY DEF I2CInv, I2CTypes, I2CArmed, BusPhases, StopGiven, BusDoes, ByteSent, HardwareStep, i2cTaskVars, callVars, i2cIrq
<1>4. BusPhases'
    BY DEF I2CInv, I2CTypes, InHand, BusPhases, StopGiven, BusDoes, Shortcut, ByteSent, HardwareStep, i2cTaskVars, callVars, i2cIrq
<1>5. Shortcut'
    BY DEF I2CInv, I2CTypes, InHand, Shortcut, ByteSent, HardwareStep, i2cTaskVars, callVars, i2cIrq
<1>6. Count'
    BY DEF I2CInv, I2CTypes, InHand, BusPhases, BusDoes, StopGiven, Count, Got, Outcome, Shortcut, ByteSent, HardwareStep, i2cTaskVars, callVars, i2cIrq
<1>7. Outcome'
    BY DEF I2CInv, I2CTypes, InHand, BusPhases, BusDoes, StopGiven, Outcome, OwnError, ByteSent, HardwareStep, i2cTaskVars, callVars, i2cIrq
<1>8. ErrorIsOwn'
    BY DEF I2CInv, I2CTypes, InHand, Outcome, OwnError, ErrorIsOwn, Replies, ByteSent, HardwareStep, i2cTaskVars, callVars, i2cIrq
<1>9. QED
    BY <1>1, <1>2, <1>3, <1>4, <1>5, <1>6, <1>7, <1>8 DEF I2CInv

LEMMA ByteReceivedKeeps ==
    ASSUME I2CInv, ByteReceived
    PROVE  I2CInv'
<1> USE XferFacts
<1>1. I2CTypes'
    BY XferQueueFacts DEF I2CInv, I2CTypes, InHand, I2CTasks, Errors, Replies, ByteReceived, HardwareStep, i2cTaskVars, callVars, i2cIrq
<1>2. InHand'
    BY DEF I2CInv, I2CTypes, InHand, ByteReceived, HardwareStep, i2cTaskVars, callVars, i2cIrq
<1>3. I2CArmed'
    BY DEF I2CInv, I2CTypes, I2CArmed, BusPhases, StopGiven, BusDoes, ByteReceived, HardwareStep, i2cTaskVars, callVars, i2cIrq
<1>4. BusPhases'
    <2>1. /\ i2cTask = "reading" /\ events = {} /\ left \in Nat \ {0}
          /\ SHORTS = IF left > 1 THEN "BB_SUSPEND" ELSE "BB_STOP"
        BY DEF I2CInv, I2CTypes, I2CTasks, BusPhases, StopGiven, BusDoes, Shortcut, Count, ByteReceived
    <2>2. \/ bus' = "held" /\ events' = {"ERROR"}
          \/ left > 1 /\ bus' = "held" /\ events' = {"RXDREADY"}
          \/ left = 1 /\ bus' = "stopping" /\ events' = {"RXDREADY"}
        BY <2>1 DEF ByteReceived
    <2>3. i2cTask' = "reading" /\ left' = left
        BY <2>1 DEF ByteReceived, HardwareStep, i2cTaskVars
    <2>4. QED
        BY <2>2, <2>3 DEF BusPhases, BusDoes
<1>5. Shortcut'
    BY DEF I2CInv, I2CTypes, InHand, Shortcut, ByteReceived, HardwareStep, i2cTaskVars, callVars, i2cIrq
<1>6. Count'
    BY DEF I2CInv, I2CTypes, InHand, BusPhases, BusDoes, StopGiven, Count, Got, Outcome, Shortcut, ByteReceived, HardwareStep, i2cTaskVars, callVars, i2cIrq
<1>7. Outcome'
    BY DEF I2CInv, I2CTypes, InHand, BusPhases, BusDoes, StopGiven, Outcome, OwnError, ByteReceived, HardwareStep, i2cTaskVars, callVars, i2cIrq
<1>8. ErrorIsOwn'
    BY DEF I2CInv, I2CTypes, InHand, Outcome, OwnError, ErrorIsOwn, Replies, ByteReceived, HardwareStep, i2cTaskVars, callVars, i2cIrq
<1>9. QED
    BY <1>1, <1>2, <1>3, <1>4, <1>5, <1>6, <1>7, <1>8 DEF I2CInv

LEMMA StoppedKeeps ==
    ASSUME I2CInv, Stopped
    PROVE  I2CInv'
<1> USE XferFacts
<1>1. I2CTypes'
    BY XferQueueFacts DEF I2CInv, I2CTypes, InHand, I2CTasks, Errors, Replies, Stopped, HardwareStep, i2cTaskVars, callVars, i2cIrq
<1>2. InHand'
    BY DEF I2CInv, I2CTypes, InHand, Stopped, HardwareStep, i2cTaskVars, callVars, i2cIrq
<1>3. I2CArmed'
    BY DEF I2CInv, I2CTypes, I2CArmed, BusPhases, StopGiven, BusDoes, Stopped, HardwareStep, i2cTaskVars, callVars, i2cIrq
<1>4. BusPhases'
    BY DEF I2CInv, I2CTypes, InHand, BusPhases, StopGiven, BusDoes, Shortcut, Stopped, HardwareStep, i2cTaskVars, callVars, i2cIrq
<1>5. Shortcut'
    BY DEF I2CInv, I2CTypes, InHand, Shortcut, Stopped, HardwareStep, i2cTaskVars, callVars, i2cIrq
<1>6. Count'
    BY DEF I2CInv, I2CTypes, InHand, BusPhases, BusDoes, StopGiven, Count, Got, Outcome, Shortcut, Stopped, HardwareStep, i2cTaskVars, callVars, i2cIrq
<1>7. Outcome'
    BY DEF I2CInv, I2CTypes, InHand, BusPhases, BusDoes, StopGiven, Outcome, OwnError, Stopped, HardwareStep, i2cTaskVars, callVars, i2cIrq
<1>8. ErrorIsOwn'
    BY DEF I2CInv, I2CTypes, InHand, Outcome, OwnError, ErrorIsOwn, Replies, Stopped, HardwareStep, i2cTaskVars, callVars, i2cIrq
<1>9. QED
    BY <1>1, <1>2, <1>3, <1>4, <1>5, <1>6, <1>7, <1>8 DEF I2CInv

LEMMA I2CInterruptKeeps ==
    ASSUME I2CInv, I2CInterrupt
    PROVE  I2CInv'
<1> USE XferFacts
<1>1. I2CTypes'
    BY XferQueueFacts DEF I2CInv, I2CTypes, InHand, I2CTasks, Errors, Replies, I2CInterrupt, i2cTaskVars, callVars, busVars
<1>2. InHand'
    BY DEF I2CInv, I2CTypes, InHand, I2CInterrupt, i2cTaskVars, callVars, busVars
<1>3. I2CArmed'
    BY DEF I2CInv, I2CTypes, I2CArmed, BusPhases, StopGiven, BusDoes, I2CInterrupt, i2cTaskVars, callVars, busVars
<1>4. BusPhases'
    BY DEF I2CInv, I2CTypes, InHand, BusPhases, StopGiven, BusDoes, Shortcut, I2CInterrupt, i2cTaskVars, callVars, busVars
<1>5. Shortcut'
    BY DEF I2CInv, I2CTypes, InHand, Shortcut, I2CInterrupt, i2cTaskVars, callVars, busVars
<1>6. Count'
    BY DEF I2CInv, I2CTypes, InHand, BusPhases, BusDoes, StopGiven, Count, Got, Outcome, Shortcut, I2CInterrupt, i2cTaskVars, callVars, busVars
<1>7. Outcome'
    BY DEF I2CInv, I2CTypes, InHand, BusPhases, BusDoes, StopGiven, Outcome, OwnError, I2CInterrupt, i2cTaskVars, callVars, busVars
<1>8. ErrorIsOwn'
    BY DEF I2CInv, I2CTypes, InHand, Outcome, OwnError, ErrorIsOwn, Replies, I2CInterrupt, i2cTaskVars, callVars, busVars
<1>9. QED
    BY <1>1, <1>2, <1>3, <1>4, <1>5, <1>6, <1>7, <1>8 DEF I2CInv

\* Where the second half of a transaction begins, with all of it to be done.
LEMMA SecondHalfFacts ==
    ASSUME NEW t \in XferSet, SecondHalf(t)
    PROVE  /\ left' = t.n2
           /\ \/ /\ i2cTask' = "reading" /\ t.kind = "READ" /\ t.n2 > 0 /\ bus' = "receiving"
                 /\ SHORTS' = IF t.n2 > 1 THEN "BB_SUSPEND" ELSE "BB_STOP"
              \/ /\ i2cTask' = "ending" /\ t.kind = "READ" /\ t.n2 = 0
                 /\ UNCHANGED <<bus, SHORTS>>
              \/ /\ i2cTask' = "data" /\ t.kind = "WRITE" /\ t.n2 > 0 /\ bus' = "sending"
                 /\ UNCHANGED SHORTS
              \/ /\ i2cTask' = "stopping" /\ t.kind = "WRITE" /\ t.n2 = 0 /\ bus' = "stopping"
                 /\ UNCHANGED SHORTS
    BY DEF SecondHalf, ReadByte, SendByte, I2CGoes

LEMMA ByteDoneKeeps ==
    ASSUME I2CInv, ByteDone
    PROVE  I2CInv'
<1> USE XferFacts
<1>a. /\ xfer \in XferSet /\ xfer.n1 \in Nat /\ xfer.n2 \in Nat
      /\ moved \in Nat /\ left \in Nat /\ moved' = moved /\ xfer' = xfer
    BY DEF I2CInv, I2CTypes, InHand, Moving, ByteDone
<1>b. Got = 1 /\ events' \subseteq {"STOPPED"} /\ Got' = 0
    BY DEF I2CInv, BusPhases, BusDoes, Got, ByteDone, Moving, i2c_wait, Taken, Expected
<1>c. \/ left > 1 /\ left' = left - 1 /\ i2cTask' = i2cTask
      \/ left <= 1 /\ i2cTask = "command" /\ SecondHalf(xfer)
      \/ left <= 1 /\ i2cTask = "data" /\ left' = 0 /\ i2cTask' = "stopping"
      \/ left <= 1 /\ i2cTask = "reading" /\ left' = 0 /\ i2cTask' = "ending"
    BY <1>a DEF ByteDone, NextByte, LoopDone, I2CGoes
<1>1. I2CTypes'
    <2>1. left' \in Nat /\ i2cTask' \in I2CTasks
        BY <1>a, <1>c, SecondHalfFacts DEF I2CInv, I2CTypes, I2CTasks
    <2>2. QED
        BY <2>1 DEF I2CInv, I2CTypes, ByteDone, callVars, i2c_wait
<1>2. InHand'
    BY DEF I2CInv, I2CTypes, InHand, ByteDone, Moving, i2c_wait, Taken, Expected, callVars, I2CGoes, SendByte, ReadByte, NextByte, LoopDone, SecondHalf
<1>3. I2CArmed'
    BY DEF I2CInv, I2CTypes, I2CArmed, BusPhases, StopGiven, BusDoes, ByteDone, Moving, i2c_wait, Taken, Expected, callVars, I2CGoes, SendByte, ReadByte, NextByte, LoopDone, SecondHalf
<1>4. BusPhases'
    BY DEF I2CInv, I2CTypes, InHand, BusPhases, StopGiven, BusDoes, Shortcut, ByteDone, Moving, i2c_wait, Taken, Expected, callVars, I2CGoes, SendByte, ReadByte, NextByte, LoopDone, SecondHalf
<1>5. Shortcut'
    BY DEF I2CInv, I2CTypes, InHand, Shortcut, ByteDone, Moving, i2c_wait, Taken, Expected, callVars, I2CGoes, SendByte, ReadByte, NextByte, LoopDone, SecondHalf
<1>6. Count'
    <2>1. CASE i2cTask = "command"
        <3>1. left \in 1..xfer.n1 /\ moved = xfer.n1 - left + 1
            BY <2>1, <1>b DEF I2CInv, Count
        <3>2. moved > 0 => xfer.addr \in present'
            BY <2>1 DEF I2CInv, Count, ByteDone
        <3>3. CASE left > 1
            BY <2>1, <3>1, <3>2, <3>3, <1>a, <1>b, <1>c DEF Count
        <3>4. CASE left <= 1
            <4>1. moved = xfer.n1 /\ SecondHalf(xfer)
                BY <2>1, <3>1, <3>4, <1>a, <1>c
            <4>2. QED
                BY <4>1, <3>2, <1>a, <1>b, SecondHalfFacts DEF Count
        <3>5. QED
            BY <3>3, <3>4, <1>a
    <2>2. CASE i2cTask \in {"data", "reading"}
        <3>1. left \in 1..xfer.n2 /\ moved = xfer.n1 + xfer.n2 - left + 1
            BY <2>2, <1>b DEF I2CInv, Count
        <3>2. moved > 0 => xfer.addr \in present'
            BY <2>2 DEF I2CInv, Count, ByteDone
        <3>3. QED
            BY <2>2, <3>1, <3>2, <1>a, <1>b, <1>c DEF Count
    <2>3. QED
        BY <2>1, <2>2 DEF ByteDone, Moving
<1>7. Outcome'
    BY DEF I2CInv, I2CTypes, InHand, BusPhases, BusDoes, StopGiven, Outcome, OwnError, ByteDone, Moving, i2c_wait, Taken, Expected, callVars, I2CGoes, SendByte, ReadByte, NextByte, LoopDone, SecondHalf
<1>8. ErrorIsOwn'
    BY DEF I2CInv, I2CTypes, InHand, Outcome, OwnError, ErrorIsOwn, Replies, ByteDone, Moving, i2c_wait, Taken, Expected, callVars, I2CGoes, SendByte, ReadByte, NextByte, LoopDone, SecondHalf
<1>9. QED
    BY <1>1, <1>2, <1>3, <1>4, <1>5, <1>6, <1>7, <1>8 DEF I2CInv

LEMMA ByteFailedKeeps ==
    ASSUME I2CInv, ByteFailed
    PROVE  I2CInv'
<1> USE XferFacts
<1>1. I2CTypes'
    BY XferQueueFacts DEF I2CInv, I2CTypes, InHand, I2CTasks, Errors, Replies, ByteFailed, Moving, i2c_wait, Taken, Expected, callVars, I2CGoes
<1>2. InHand'
    BY DEF I2CInv, I2CTypes, InHand, ByteFailed, Moving, i2c_wait, Taken, Expected, callVars, I2CGoes
<1>3. I2CArmed'
    BY DEF I2CInv, I2CTypes, I2CArmed, BusPhases, StopGiven, BusDoes, ByteFailed, Moving, i2c_wait, Taken, Expected, callVars, I2CGoes
<1>4. BusPhases'
    BY DEF I2CInv, I2CTypes, InHand, BusPhases, StopGiven, BusDoes, Shortcut, ByteFailed, Moving, i2c_wait, Taken, Expected, callVars, I2CGoes
<1>5. Shortcut'
    BY DEF I2CInv, I2CTypes, InHand, Shortcut, ByteFailed, Moving, i2c_wait, Taken, Expected, callVars, I2CGoes
<1>6. Count'
    BY DEF I2CInv, I2CTypes, InHand, BusPhases, BusDoes, StopGiven, Count, Got, Outcome, Shortcut, ByteFailed, Moving, i2c_wait, Taken, Expected, callVars, I2CGoes
<1>7. Outcome'
    BY DEF I2CInv, I2CTypes, InHand, BusPhases, BusDoes, StopGiven, Outcome, OwnError, ByteFailed, Moving, i2c_wait, Taken, Expected, callVars, I2CGoes
<1>8. ErrorIsOwn'
    BY DEF I2CInv, I2CTypes, InHand, Outcome, OwnError, ErrorIsOwn, Replies, ByteFailed, Moving, i2c_wait, Taken, Expected, callVars, I2CGoes
<1>9. QED
    BY <1>1, <1>2, <1>3, <1>4, <1>5, <1>6, <1>7, <1>8 DEF I2CInv

LEMMA StopKeeps ==
    ASSUME I2CInv, Stop
    PROVE  I2CInv'
<1> USE XferFacts
<1>1. I2CTypes'
    BY XferQueueFacts DEF I2CInv, I2CTypes, InHand, I2CTasks, Errors, Replies, Stop, Finishing, i2c_wait, Taken, Expected, callVars, I2CGoes
<1>2. InHand'
    BY DEF I2CInv, I2CTypes, InHand, Stop, Finishing, i2c_wait, Taken, Expected, callVars, I2CGoes
<1>3. I2CArmed'
    BY DEF I2CInv, I2CTypes, I2CArmed, BusPhases, StopGiven, BusDoes, Stop, Finishing, i2c_wait, Taken, Expected, callVars, I2CGoes
<1>4. BusPhases'
    BY DEF I2CInv, I2CTypes, InHand, BusPhases, StopGiven, BusDoes, Shortcut, Stop, Finishing, i2c_wait, Taken, Expected, callVars, I2CGoes
<1>5. Shortcut'
    BY DEF I2CInv, I2CTypes, InHand, Shortcut, Stop, Finishing, i2c_wait, Taken, Expected, callVars, I2CGoes
<1>6. Count'
    BY DEF I2CInv, I2CTypes, InHand, BusPhases, BusDoes, StopGiven, Count, Got, Outcome, Shortcut, Stop, Finishing, i2c_wait, Taken, Expected, callVars, I2CGoes
<1>7. Outcome'
    BY DEF I2CInv, I2CTypes, InHand, BusPhases, BusDoes, StopGiven, Outcome, OwnError, Stop, Finishing, i2c_wait, Taken, Expected, callVars, I2CGoes
<1>8. ErrorIsOwn'
    BY DEF I2CInv, I2CTypes, InHand, Outcome, OwnError, ErrorIsOwn, Replies, Stop, Finishing, i2c_wait, Taken, Expected, callVars, I2CGoes
<1>9. QED
    BY <1>1, <1>2, <1>3, <1>4, <1>5, <1>6, <1>7, <1>8 DEF I2CInv

LEMMA ReceiveTransferKeeps ==
    ASSUME I2CInv, ReceiveTransfer
    PROVE  I2CInv'
<1> USE XferFacts
<1> DEFINE c == Head(xferQueue)
<1>1. /\ bus = "idle" /\ events = {} /\ ERRORSRC = "none" /\ SHORTS = "none" /\ ~i2cPending
      /\ events' = {} /\ ERRORSRC' = "none"
    BY DEF I2CInv, I2CTypes, I2CArmed, BusPhases, BusDoes, Shortcut, Outcome, ReceiveTransfer
<1>2. /\ xferQueue \in Seq(Masters) /\ xferQueue # <<>>
      /\ xfer' = xferOf[c] /\ master' = c /\ status' = "OK" /\ moved' = 0
      /\ xferOf' = xferOf /\ xferQueue' = Tail(xferQueue)
    BY <1>1 DEF I2CInv, I2CTypes, ReceiveTransfer
<1>3. c \in Masters /\ xferQueue' \in Seq(Masters)
    BY <1>2, XferQueueFacts
<1>4. \/ /\ xferOf[c].n1 > 0 /\ left' = xferOf[c].n1 /\ bus' = "sending"
         /\ i2cTask' = "command" /\ UNCHANGED SHORTS
      \/ ~(xferOf[c].n1 > 0) /\ SecondHalf(xferOf[c])
    BY <1>1 DEF ReceiveTransfer, SendByte, I2CGoes
<1>5. xferOf[c] \in XferSet
    <2>1. xferOf[c] # NoTransfer
        BY <1>4 DEF SecondHalf
    <2>2. QED
        BY <2>1, <1>3 DEF I2CInv, I2CTypes
<1>6. xfer' \in XferSet /\ xfer'.n1 \in Nat /\ xfer'.n2 \in Nat /\ xfer' = xferOf[c]
    BY <1>2, <1>5
<1>7. \/ /\ xfer'.n1 > 0 /\ left' = xfer'.n1 /\ bus' = "sending"
         /\ i2cTask' = "command" /\ SHORTS' = "none"
      \/ /\ xfer'.n1 = 0 /\ left' = xfer'.n2
         /\ \/ /\ i2cTask' = "reading" /\ xfer'.kind = "READ" /\ xfer'.n2 > 0 /\ bus' = "receiving"
               /\ SHORTS' = IF xfer'.n2 > 1 THEN "BB_SUSPEND" ELSE "BB_STOP"
            \/ /\ i2cTask' = "ending" /\ xfer'.kind = "READ" /\ xfer'.n2 = 0
               /\ bus' = "idle" /\ SHORTS' = "none"
            \/ /\ i2cTask' = "data" /\ xfer'.kind = "WRITE" /\ xfer'.n2 > 0 /\ bus' = "sending"
               /\ SHORTS' = "none"
            \/ /\ i2cTask' = "stopping" /\ xfer'.kind = "WRITE" /\ xfer'.n2 = 0
               /\ bus' = "stopping" /\ SHORTS' = "none"
    BY <1>1, <1>4, <1>6, SecondHalfFacts
<1>8. I2CTypes'
    <2>1. left' \in Nat /\ i2cTask' \in I2CTasks
        BY <1>6, <1>7 DEF I2CTasks
    <2>2. QED
        BY <2>1, <1>2, <1>3, <1>6 DEF I2CInv, I2CTypes, ReceiveTransfer, i2cIrq
<1>9. InHand' /\ I2CArmed'
    BY <1>1, <1>2, <1>3, <1>6 DEF I2CInv, InHand, I2CArmed, ReceiveTransfer, i2cIrq
<1>10. BusPhases' /\ Shortcut'
    BY <1>1, <1>6, <1>7 DEF BusPhases, StopGiven, BusDoes, Shortcut
<1>11. Count'
    <2>1. Got' = 0 /\ moved' = 0
        BY <1>1, <1>2 DEF Got
    <2>2. CASE i2cTask' = "command"
        BY <2>1, <2>2, <1>6, <1>7 DEF Count
    <2>3. CASE i2cTask' \in {"data", "reading", "ending", "stopping"} /\ xfer'.n1 = 0
        BY <2>1, <2>3, <1>6, <1>7 DEF Count
    <2>4. QED
        BY <2>2, <2>3, <1>7
<1>12. Outcome' /\ ErrorIsOwn'
    BY <1>1, <1>2, <1>7 DEF I2CInv, Outcome, ErrorIsOwn, ReceiveTransfer
<1>13. QED
    BY <1>8, <1>9, <1>10, <1>11, <1>12 DEF I2CInv

LEMMA AnswerKeeps ==
    ASSUME I2CInv, Answer
    PROVE  I2CInv'
<1> USE XferFacts
<1>1. I2CTypes'
    BY XferQueueFacts DEF I2CInv, I2CTypes, InHand, I2CTasks, Errors, Replies, Answer, I2CGoes, i2cIrq, NoteError, Reply
<1>2. InHand'
    BY DEF I2CInv, I2CTypes, InHand, Answer, I2CGoes, i2cIrq, NoteError, Reply
<1>3. I2CArmed'
    BY DEF I2CInv, I2CTypes, I2CArmed, BusPhases, StopGiven, BusDoes, Answer, I2CGoes, i2cIrq, NoteError, Reply
<1>4. BusPhases'
    BY DEF I2CInv, I2CTypes, InHand, BusPhases, StopGiven, BusDoes, Shortcut, Answer, I2CGoes, i2cIrq, NoteError, Reply
<1>5. Shortcut'
    BY DEF I2CInv, I2CTypes, InHand, Shortcut, Answer, I2CGoes, i2cIrq, NoteError, Reply
<1>6. Count'
    BY DEF I2CInv, I2CTypes, InHand, BusPhases, BusDoes, StopGiven, Count, Got, Outcome, Shortcut, Answer, I2CGoes, i2cIrq, NoteError, Reply
<1>7. Outcome'
    BY DEF I2CInv, I2CTypes, InHand, BusPhases, BusDoes, StopGiven, Outcome, OwnError, Answer, I2CGoes, i2cIrq, NoteError, Reply
<1>8. ErrorIsOwn'
    BY DEF I2CInv, I2CTypes, InHand, Outcome, OwnError, ErrorIsOwn, Replies, Answer, I2CGoes, i2cIrq, NoteError, Reply
<1>9. QED
    BY <1>1, <1>2, <1>3, <1>4, <1>5, <1>6, <1>7, <1>8 DEF I2CInv

LEMMA i2c_xferKeeps ==
    ASSUME I2CInv, NEW c \in Masters, NEW t \in XferSet, i2c_xfer(c, t)
    PROVE  I2CInv'
<1> USE XferFacts, MessageFacts
<1>1. I2CTypes'
    BY XferQueueFacts DEF I2CInv, I2CTypes, i2c_xfer, i2cTaskVars, i2cIrq, busVars
<1>2. InHand'
    BY DEF I2CInv, I2CTypes, InHand, i2c_xfer, i2cTaskVars
<1>3. I2CArmed' /\ BusPhases' /\ Shortcut' /\ Count'
    BY DEF I2CInv, I2CArmed, BusPhases, StopGiven, BusDoes, Shortcut, Count, Got, i2c_xfer,
           i2cTaskVars, i2cIrq, busVars
<1>4. Outcome' /\ ErrorIsOwn'
    BY DEF I2CInv, Outcome, OwnError, ErrorIsOwn, i2c_xfer, i2cTaskVars, busVars
<1>5. QED
    BY <1>1, <1>2, <1>3, <1>4 DEF I2CInv

\* The driver and its bus keep their invariant, whoever uses them.
LEMMA I2CStepKeeps ==
    ASSUME I2CInv, I2CStep \/ BusStep \/ I2CInterrupt
    PROVE  I2CInv'
    BY ByteSentKeeps, ByteReceivedKeeps, StoppedKeeps, I2CInterruptKeeps, ReceiveTransferKeeps,
       ByteDoneKeeps, ByteFailedKeeps, StopKeeps, AnswerKeeps DEF I2CStep, BusStep

-----------------------------------------------------------------------------
(* The program *)

\* What the program asks for: one byte, the number of a register, comes first.
LEMMA ProgramTransfers ==
    /\ Program \in Masters
    /\ \A a \in {"ACC1", "ACC2"} : \A m \in Nat :
          \A t \in {i2c_probe(a), i2c_write_reg(a), i2c_read_bytes(a, m)} :
              t \in XferSet /\ t.n1 = 1 /\ t.addr = a
    BY AccelAssumption DEF i2c_probe, i2c_write_reg, i2c_read_bytes, Transfer, XferSet

\* A call of the program's: it waits for an answer then.
LEMMA ProgramCalls ==
    ASSUME LevelInv, NEW s \in Steps \ {"start", "panic"}, NEW a \in {"ACC1", "ACC2"},
           NEW t \in XferSet, t.n1 = 1, t.addr = a, Calls(s, t),
           s \in {"probe1", "write1"} => a = "ACC1",
           s \in {"probe2", "write2"} => a = "ACC2"
    PROVE  I2CInv' /\ ProgramInv'
<1>1. I2CInv'
    BY i2c_xferKeeps, ProgramTransfers DEF LevelInv, Calls
<1>2. /\ xferOf'[Program] = InMessage(t) /\ step' = s
      /\ InMessage(t) # NoTransfer /\ InMessage(t).n1 = 1 /\ InMessage(t).addr = a
    BY ProgramTransfers, MessageFacts, XferFacts DEF LevelInv, I2CInv, I2CTypes, Calls, i2c_xfer
<1>3. ProgramInv'
    BY <1>2 DEF ProgramInv, Steps
<1>4. QED
    BY <1>1, <1>3

LEMMA ProgramStepKeeps ==
    ASSUME LevelInv, ProgramStep
    PROVE  LevelInv'
<1> USE ProgramTransfers
<1>1. CASE Start
    <2>1. I2CInv' /\ ProgramInv'
        BY <1>1, ProgramCalls DEF Start, Steps
    <2>2. ChipIsThere'
        BY <1>1 DEF LevelInv, ChipIsThere, Start, Calls, i2c_xfer
    <2>3. QED
        BY <2>1, <2>2 DEF LevelInv
<1>2. CASE Probed1
    <2>1. I2CInv' /\ ProgramInv'
        BY <1>2, ProgramCalls DEF Probed1, Steps
    <2>2. ChipIsThere'
        BY <1>2 DEF LevelInv, ProgramInv, ChipIsThere, Probed1, Went, Calls, i2c_xfer
    <2>3. QED
        BY <2>1, <2>2 DEF LevelInv
<1>3. ASSUME Panics, accel' = accel,
             NEW s \in Steps \ {"start", "panic"}, Went(s, FALSE)
      PROVE  LevelInv'
    <2>1. /\ xferOf[Program] = NoTransfer /\ result[Program].status # "OK"
          /\ step # "start" /\ step' = "panic" /\ i2cVars' = i2cVars
        BY <1>3 DEF Went, Panics
    <2>2. result[Program].status = "ERR"
        BY <2>1 DEF LevelInv, ProgramInv
    <2>3. I2CInv'
        BY <2>1 DEF LevelInv, I2CInv, I2CTypes, InHand, I2CArmed, BusPhases, StopGiven, BusDoes,
                    Shortcut, Count, Got, Outcome, OwnError, ErrorIsOwn, i2cVars, i2cTaskVars,
                    callVars, i2cIrq, busVars
    <2>4. ProgramInv' /\ ChipIsThere'
        BY <1>3, <2>1, <2>2
           DEF LevelInv, ProgramInv, Steps, ChipIsThere, i2cVars, callVars
    <2>5. QED
        BY <2>3, <2>4 DEF LevelInv
<1>4. CASE Probed2
    <2>1. CASE Went("probe2", TRUE)
        <3>1. I2CInv' /\ ProgramInv'
            BY <1>4, <2>1, ProgramCalls DEF Probed2, Steps, Went
        <3>2. ChipIsThere'
            BY <1>4, <2>1 DEF LevelInv, ProgramInv, ChipIsThere, Probed2, Went, Calls, i2c_xfer
        <3>3. QED
            BY <3>1, <3>2 DEF LevelInv
    <2>2. QED
        BY <1>4, <2>1, <1>3 DEF Probed2, Steps
<1>5. ASSUME NEW chip \in {1, 2}, Reads(chip) 
      PROVE  I2CInv' /\ ProgramInv' /\ step' = "read" /\ present' = present
    <2>1. I2CInv' /\ ProgramInv'
        BY <1>5, ProgramCalls DEF Reads, Steps
    <2>2. QED
        BY <1>5, <2>1 DEF Reads, Calls, i2c_xfer
<1>6. CASE SetUp
    <2>1. CASE Went("write1", TRUE) /\ accel' = 1 /\ Reads(1)
        <3>1. "ACC1" \in present
            BY <2>1 DEF LevelInv, ProgramInv, Went
        <3>2. QED
            BY <2>1, <3>1, <1>5 DEF LevelInv, ChipIsThere
    <2>2. CASE Went("write2", TRUE) /\ accel' = 2 /\ Reads(2)
        <3>1. "ACC2" \in present
            BY <2>2 DEF LevelInv, ProgramInv, Went
        <3>2. QED
            BY <2>2, <3>1, <1>5 DEF LevelInv, ChipIsThere
    <2>3. QED
        BY <1>6, <2>1, <2>2, <1>3 DEF SetUp, Steps
<1>7. CASE ReadAgain
    <2>1. CASE Went("read", TRUE) /\ Reads(accel)
        <3>1. accel \in {1, 2}
            BY <2>1 DEF Reads
        <3>2. I2CInv' /\ ProgramInv' /\ step' = "read" /\ present' = present
            BY <2>1, <3>1, <1>5
        <3>3. ChipIsThere'
            BY <1>7, <3>2 DEF LevelInv, ChipIsThere, ReadAgain
        <3>4. QED
            BY <3>2, <3>3 DEF LevelInv
    <2>2. QED
        BY <1>7, <2>1, <1>3 DEF ReadAgain, Steps
<1>8. QED
    BY <1>1, <1>2, <1>4, <1>6, <1>7 DEF ProgramStep

\* What the driver and the other processes do meanwhile: the program is told
\* how its own call ended, and nothing else.
LEMMA MeanwhileKeeps ==
    ASSUME LevelInv, UNCHANGED accelVars, I2CStep \/ BusStep \/ I2CInterrupt \/ OthersCall
    PROVE  LevelInv'
<1> USE ProgramTransfers
<1>1. I2CInv'
    BY I2CStepKeeps, i2c_xferKeeps, I2CAssumption DEF LevelInv, OthersCall
<1>2. present' = present
    BY DEF I2CStep, BusStep, OthersCall, ReceiveTransfer, ByteDone, ByteFailed, Stop, Answer,
           ByteSent, ByteReceived, Stopped, HardwareStep, I2CInterrupt, i2c_xfer
<1>3. CASE xferOf'[Program] = xferOf[Program] /\ result'[Program] = result[Program]
    BY <1>1, <1>2, <1>3 DEF LevelInv, ProgramInv, ChipIsThere, accelVars
<1>4. CASE Answer
    <2>1. /\ master \in Masters /\ xferOf[master] = xfer /\ xfer \in XferSet /\ xfer # NoTransfer
          /\ status \in {"OK", "ERR"}
        BY <1>4, XferFacts DEF LevelInv, I2CInv, I2CTypes, InHand, Answer
    <2>2. /\ xferOf' = [xferOf EXCEPT ![master] = NoTransfer]
          /\ result' = [result EXCEPT ![master] = Reply(status, error', xfer.addr)]
          /\ xferOf \in [Masters -> XferSet \cup {NoTransfer}] /\ result \in [Masters -> Replies]
        BY <1>4 DEF LevelInv, I2CInv, I2CTypes, Answer
    <2>3. CASE master # Program
        BY <2>1, <2>2, <2>3, <1>3
    <2>4. CASE master = Program
        <3>1. /\ xferOf[Program] # NoTransfer /\ xferOf'[Program] = NoTransfer
              /\ result'[Program].status = status
            BY <2>1, <2>2, <2>4 DEF Reply
        <3>2. status = "OK" => xferOf[Program].addr \in present
            <4>1. status = "OK" => moved = xfer.n1 + xfer.n2
                BY <1>4 DEF LevelInv, I2CInv, Count, Answer
            <4>2. xfer.n1 = 1 /\ xfer.n2 \in Nat
                BY <2>1, <2>4, <3>1, XferFacts DEF LevelInv, ProgramInv
            <4>3. moved > 0 => xfer.addr \in present
                BY <1>4 DEF LevelInv, I2CInv, Count, Answer
            <4>4. QED
                BY <4>1, <4>2, <4>3, <2>1, <2>4
        <3>3. step # "start" /\ step # "panic" /\ step' = step /\ accel' = accel
            BY <3>1 DEF LevelInv, ProgramInv, accelVars
        <3>4. ProgramInv' /\ ChipIsThere'
            BY <3>1, <3>2, <3>3, <2>1, <1>2 DEF LevelInv, ProgramInv, ChipIsThere
        <3>5. QED
            BY <1>1, <3>4 DEF LevelInv
    <2>5. QED
        BY <2>3, <2>4
<1>5. CASE OthersCall
    <2>1. PICK c \in Masters \ {Program}, t \in Transfers : i2c_xfer(c, t)
        BY <1>5 DEF OthersCall
    <2>2. xferOf'[Program] = xferOf[Program] /\ result' = result
        BY <2>1 DEF LevelInv, I2CInv, I2CTypes, i2c_xfer
    <2>3. QED
        BY <2>2, <1>3
<1>6. CASE BusStep \/ I2CInterrupt \/ ReceiveTransfer \/ ByteDone \/ ByteFailed \/ Stop
    <2>1. xferOf' = xferOf /\ result' = result
        BY <1>6 DEF BusStep, ByteSent, ByteReceived, Stopped, HardwareStep, I2CInterrupt,
                    ReceiveTransfer, ByteDone, ByteFailed, Stop, callVars
    <2>2. QED
        BY <2>1, <1>3
<1>7. QED
    BY <1>4, <1>5, <1>6 DEF I2CStep

-----------------------------------------------------------------------------
(* The theorems *)

\* The invariant of the driver, the bus and the program holds at all times.
THEOREM LevelInvariance == LevelSpec => []LevelInv
<1>1. LevelInit => LevelInv
    BY StartBus, ProgramTransfers
       DEF LevelInit, I2CInit, LevelInv, ProgramInv, Steps, ChipIsThere, Reply
<1>2. LevelInv /\ [LevelNext]_levelVars => LevelInv'
    <2> SUFFICES ASSUME LevelInv, [LevelNext]_levelVars PROVE LevelInv'
        OBVIOUS
    <2>1. CASE UNCHANGED levelVars
        <3>1. UNCHANGED i2cVars /\ UNCHANGED accelVars
            BY <2>1 DEF levelVars
        <3>2. I2CInv'
            BY <3>1 DEF LevelInv, I2CInv, I2CTypes, InHand, I2CArmed, BusPhases, StopGiven,
                        BusDoes, Shortcut, Count, Got, Outcome, OwnError, ErrorIsOwn, i2cVars,
                        i2cTaskVars, callVars, i2cIrq, busVars
        <3>3. ProgramInv' /\ ChipIsThere'
            BY <3>1 DEF LevelInv, ProgramInv, ChipIsThere, accelVars, i2cVars, callVars
        <3>4. QED
            BY <3>2, <3>3 DEF LevelInv
    <2>2. QED
        BY <2>1, ProgramStepKeeps, MeanwhileKeeps DEF LevelNext
<1>3. QED
    BY <1>1, <1>2, PTL DEF LevelSpec

\* The I2C driver meets the events that it expects, whatever becomes of each
\* transaction, leaves the bus free for the next one, and waits in vain only at
\* the end of a READ of no bytes: for any number of processes, any mix of
\* transactions of any sizes and any chips on the bus (i2c.c).
THEOREM BusIsKept == LevelSpec => []BusKept
<1>1. LevelInv => BusKept
    <2> SUFFICES ASSUME LevelInv PROVE BusKept
        OBVIOUS
    <2>1. ExpectedEvents
        BY DEF LevelInv, I2CInv, I2CTypes, I2CTasks, I2CArmed, BusPhases, BusDoes, StopGiven,
               ExpectedEvents, Moving, Finishing, Expected
    <2>2. BusReleased
        BY DEF LevelInv, I2CInv, I2CTypes, I2CArmed, BusPhases, BusDoes, Shortcut, Outcome,
               BusReleased
    <2>3. HungOnlyByEmptyRead
        BY DEF LevelInv, I2CInv, BusPhases, BusDoes, StopGiven, Shortcut, Hung,
               HungOnlyByEmptyRead
    <2>4. QED
        BY <2>1, <2>2, <2>3 DEF BusKept
<1>2. QED
    BY <1>1, LevelInvariance, PTL

\* A client is told OK exactly if all bytes of its transaction were moved, and
\* else the error of its own transaction; what the program concludes about the
\* chips from the answers is true (i2c.c, accel.c).
THEOREM AnswersAreTrue == LevelSpec => []AnswersTrue
<1>1. LevelInv => AnswersTrue
    BY XferFacts DEF LevelInv, I2CInv, I2CTypes, InHand, Count, OkMeansMoved, AnswersTrue
<1>2. QED
    BY <1>1, LevelInvariance, PTL

-----------------------------------------------------------------------------
(***************************************************************************)
(* The converter: each reading is of the pad that was asked for, on either *)
(* board, and its value is that of the conversion for it.                  *)
(***************************************************************************)

AdcTasks == {"calibrating", "receive", "converting", "panic"}
ReadingSet == [pad : AdcPads \cup {"none"}, pin : Int, value : Int]

AdcTypes ==
    /\ board \in BoardNames /\ adcTask \in AdcTasks
    /\ adcClient \in Samplers \cup {NoSampler}
    /\ adcQueue \in Seq(Samplers)
    /\ adcAsked \in [Samplers -> AdcPads \cup {"none"}]
    /\ adcRequest \in [Samplers -> Int]
    /\ reading \in [Samplers -> ReadingSet]
    /\ adcPending \in BOOLEAN /\ adcEnabled \in BOOLEAN
    /\ sample \in ReadingSet

\* The channel belongs to the pad: the pin of the pad is its input.
Selects(b, pad, ch) ==
    IF b = "V1" THEN ch \in 2 .. 7 /\ PadPin(b, pad) = ch - 1
    ELSE ch \in 0 .. 7 /\ PadPin(b, pad) = <<-1, 2, 3, 4, 5, 28, 29, 30, 31>>[ch + 2]

\* Each call in progress asks for the channel of its pad, and each client waits
\* once in the queue, or is in hand.
CallsInOrder ==
    /\ \A c \in Samplers : adcAsked[c] # "none" => Selects(board, adcAsked[c], adcRequest[c])
    /\ \A i \in 1..Len(adcQueue) :
          /\ adcAsked[adcQueue[i]] # "none"
          /\ adcTask = "converting" => adcQueue[i] # adcClient
          /\ \A j \in 1..Len(adcQueue) : i # j => adcQueue[i] # adcQueue[j]
    /\ adcTask = "converting" => adcClient \in Samplers /\ adcAsked[adcClient] # "none"

AdcArmed ==
    /\ adcPending => adcEvents # {}
    /\ adcTask # "panic" => adcEnabled = ~adcPending

\* What is measured for the client in hand.
ItsPin == PadPin(board, adcAsked[adcClient])

ConverterDoes(s, e) == converter = s /\ adcEvents = e

\* What the converter does while the task waits at each place.
ConverterPhases ==
    /\ converter = "sampling" => InputPin \in Int
    /\ adcTask = "calibrating" =>
          ConverterDoes("calibrating", {}) \/ ConverterDoes("idle", {"CALDONE"})
    /\ adcTask = "receive" => ConverterDoes("idle", {})
    /\ adcTask = "converting" =>
          /\ InputPin = ItsPin
          /\ \/ ConverterDoes("sampling", {})
             \/ /\ ConverterDoes("idle", {"END"})
                /\ sample.pin = ItsPin /\ (board = "V1" => sample.value >= 0)

AdcInv == AdcTypes /\ CallsInOrder /\ AdcArmed /\ ConverterPhases /\ OwnReading

-----------------------------------------------------------------------------
(* The table *)

LEMMA PadFacts ==
    /\ "none" \notin AdcPads
    /\ \A b \in BoardNames, pad \in AdcPads : PadPin(b, pad) \in Int
<1>1. /\ "none" \notin DOMAIN PadsV1 /\ \A pad \in DOMAIN PadsV1 : PadsV1[pad] \in Int
    BY DEF PadsV1
<1>2. \A pad \in DOMAIN PadsV1 : PadsV2[pad] \in Int
    BY DEF PadsV1, PadsV2, DEVPIN
<1>3. QED
    BY <1>1, <1>2, AdcAssumption DEF PadPin

\* The rows of chantab, for either board.
LEMMA ChannelRows ==
    ASSUME NEW b \in BoardNames
    PROVE  /\ chantab(b)[7][1] = 0
           /\ \A i \in 1 .. 6 : /\ chantab(b)[i][1] \in Int /\ chantab(b)[i][2] \in Int
                                /\ \A pad \in AdcPads :
                                      PadPin(b, pad) = chantab(b)[i][1] =>
                                          Selects(b, pad, chantab(b)[i][2])
<1> DEFINE Channels == IF b = "V1" THEN <<4, 3, 2, 5, 6, 7>> ELSE <<0, 1, 2, 7, 4, 6>>
           Pads == <<"PAD0", "PAD1", "PAD2", "PAD3", "PAD4", "PAD10">>
           Six == [i \in 1 .. 6 |-> <<PadPin(b, Pads[i]), Channels[i]>>]
<1>1. Six \in Seq(Int \X Int)
    <2>1. \A i \in 1 .. 6 : PadPin(b, Pads[i]) \in Int /\ Channels[i] \in Int
        BY DEF PadPin, PadsV1, PadsV2, DEVPIN
    <2>2. QED
        BY <2>1
<1>2. chantab(b) = Append(Six, <<0, 0>>)
    BY DEF chantab
<1>3. /\ chantab(b)[7] = <<0, 0>>
      /\ \A i \in 1 .. 6 : chantab(b)[i] = <<PadPin(b, Pads[i]), Channels[i]>>
    <2>1. Len(Six) = 6
        OBVIOUS
    <2>2. QED
        BY <1>1, <1>2, <2>1
<1>4. ASSUME NEW i \in 1 .. 6
      PROVE  /\ PadPin(b, Pads[i]) \in Int /\ Channels[i] \in Int
             /\ \A pad \in AdcPads :
                   PadPin(b, pad) = PadPin(b, Pads[i]) => Selects(b, pad, Channels[i])
    BY DEF PadPin, PadsV1, PadsV2, DEVPIN, Selects, BoardNames
<1>5. QED
    BY <1>3, <1>4

\* The search of adc_reading() ends at the channel of the pad or at the zero.
LEMMA EntryFacts ==
    ASSUME AdcTypes, NEW pad \in AdcPads,
           chantab(board)[Entry(PadPin(board, pad))][1] # 0
    PROVE  LET ch == chantab(board)[Entry(PadPin(board, pad))][2]
           IN ch \in Int /\ Selects(board, pad, ch)
<1>1. PICK i : i = Entry(PadPin(board, pad))
    OBVIOUS
<1>2. i \in 1 .. 7 /\ chantab(board)[i][1] \in {PadPin(board, pad), 0}
    <2> DEFINE Ends(k) == chantab(board)[k][1] \in {PadPin(board, pad), 0}
    <2>1. Ends(7)
        BY ChannelRows DEF AdcTypes
    <2>2. \E k \in 1 .. 7 : Ends(k) /\ \A j \in 1 .. k - 1 : ~Ends(j)
        <3> HIDE DEF Ends
        <3>1. CASE Ends(1)
            BY <3>1
        <3>2. CASE ~Ends(1) /\ Ends(2)
            BY <3>2
        <3>3. CASE ~Ends(1) /\ ~Ends(2) /\ Ends(3)
            BY <3>3
        <3>4. CASE ~Ends(1) /\ ~Ends(2) /\ ~Ends(3) /\ Ends(4)
            BY <3>4
        <3>5. CASE ~Ends(1) /\ ~Ends(2) /\ ~Ends(3) /\ ~Ends(4) /\ Ends(5)
            BY <3>5
        <3>6. CASE ~Ends(1) /\ ~Ends(2) /\ ~Ends(3) /\ ~Ends(4) /\ ~Ends(5) /\ Ends(6)
            BY <3>6
        <3>7. CASE ~Ends(1) /\ ~Ends(2) /\ ~Ends(3) /\ ~Ends(4) /\ ~Ends(5) /\ ~Ends(6)
            BY <3>7, <2>1
        <3>8. QED
            BY <3>1, <3>2, <3>3, <3>4, <3>5, <3>6, <3>7
    <2>3. QED
        BY <1>1, <2>2 DEF Entry
<1>3. i \in 1 .. 6 /\ chantab(board)[i][1] = PadPin(board, pad)
    BY <1>1, <1>2, ChannelRows DEF AdcTypes
<1>4. chantab(board)[i][2] \in Int /\ Selects(board, pad, chantab(board)[i][2])
    BY <1>3, ChannelRows DEF AdcTypes
<1>5. QED
    BY <1>1, <1>4

\* The channel that is selected is the one that is measured.
LEMMA SelectFacts ==
    ASSUME AdcTypes, UNCHANGED board, NEW pad \in AdcPads, NEW ch \in Int,
           Selects(board, pad, ch), Select(ch)
    PROVE  InputPin' = PadPin(board, pad) /\ InputPin' \in Int
<1>1. CASE board = "V1"
    BY <1>1, PadFacts DEF Selects, Select, InputPin, AdcTypes
<1>2. CASE board = "V2"
    BY <1>2, PadFacts DEF Selects, Select, InputPin, AdcTypes
<1>3. QED
    BY <1>1, <1>2 DEF AdcTypes, BoardNames

\* A queue of clients, after a client has come or has been taken from it.
LEMMA AdcQueueFacts ==
    ASSUME NEW q \in Seq(Samplers)
    PROVE  /\ Len(q) \in Nat
           /\ \A c \in Samplers :
                 /\ Append(q, c) \in Seq(Samplers) /\ Len(Append(q, c)) = Len(q) + 1
                 /\ \A i \in 1..Len(q) : Append(q, c)[i] = q[i]
                 /\ Append(q, c)[Len(q) + 1] = c
           /\ q # <<>> => /\ Tail(q) \in Seq(Samplers) /\ Head(q) \in Samplers
                          /\ Len(q) \in Nat \ {0} /\ Len(Tail(q)) = Len(q) - 1
                          /\ Head(q) = q[1]
                          /\ \A i \in 1..Len(Tail(q)) : Tail(q)[i] = q[i + 1]
    OBVIOUS

LEMMA StartAdc == AdcInit => AdcInv
<1> SUFFICES ASSUME AdcInit PROVE AdcInv
    OBVIOUS
<1>1. AdcTypes
    <2>1. /\ adcQueue \in Seq(Samplers) /\ reading \in [Samplers -> ReadingSet]
          /\ adcAsked \in [Samplers -> AdcPads \cup {"none"}] /\ adcRequest \in [Samplers -> Int]
          /\ sample \in ReadingSet
        BY DEF AdcInit, NoReading, ReadingSet
    <2>2. QED
        BY <2>1 DEF AdcInit, AdcTypes, AdcTasks
<1>2. CallsInOrder /\ OwnReading
    BY DEF AdcInit, CallsInOrder, OwnReading
<1>3. AdcArmed /\ ConverterPhases
    BY DEF AdcInit, AdcArmed, ConverterPhases, ConverterDoes
<1>4. QED
    BY <1>1, <1>2, <1>3 DEF AdcInv

-----------------------------------------------------------------------------
(* The steps *)

\* A step that leaves the clients and their calls alone.
LEMMA SameCalls ==
    ASSUME AdcInv, UNCHANGED <<adcCallVars, adcClient, board>>,
           adcTask' = "converting" => adcTask = "converting"
    PROVE  CallsInOrder' /\ OwnReading'
    BY DEF AdcInv, CallsInOrder, OwnReading, adcCallVars

LEMMA CalibratedKeeps ==
    ASSUME AdcInv, Calibrated
    PROVE  AdcInv'
<1> USE DEF Calibrated, ConverterDone, adcTaskVars, adcCallVars, adcIrq
<1>1. CallsInOrder' /\ OwnReading'
    BY SameCalls
<1>2. AdcTypes' /\ AdcArmed'
    BY DEF AdcInv, AdcTypes, AdcArmed
<1>3. ConverterPhases'
    BY DEF AdcInv, ConverterPhases, ConverterDoes, InputPin, ItsPin
<1>4. QED
    BY <1>1, <1>2, <1>3 DEF AdcInv

LEMMA SampledKeeps ==
    ASSUME AdcInv, Sampled
    PROVE  AdcInv'
<1> USE DEF ConverterDone, adcTaskVars, adcCallVars, adcIrq
<1>1. PICK v \in Values : sample' = [sample EXCEPT !.pin = InputPin, !.value = v]
    BY DEF Sampled
<1>2. /\ v \in Int /\ (board = "V1" => v >= 0) /\ InputPin \in Int
      /\ sample' \in ReadingSet /\ sample'.pin = InputPin /\ sample'.value = v
    <2>1. v \in Int /\ (board = "V1" => v >= 0) /\ InputPin \in Int
        BY DEF Values, AdcInv, ConverterPhases, Sampled
    <2>2. QED
        BY <1>1, <2>1 DEF AdcInv, AdcTypes, ReadingSet
<1>3. CallsInOrder' /\ OwnReading'
    BY SameCalls DEF Sampled
<1>4. AdcTypes' /\ AdcArmed'
    BY <1>2 DEF AdcInv, AdcTypes, AdcArmed, Sampled
<1>5. InputPin' = InputPin /\ ItsPin' = ItsPin
    BY DEF InputPin, ItsPin, Sampled
<1>6. ConverterPhases'
    BY <1>2, <1>5 DEF AdcInv, ConverterPhases, ConverterDoes, Sampled
<1>7. QED
    BY <1>3, <1>4, <1>6 DEF AdcInv

LEMMA AdcInterruptKeeps ==
    ASSUME AdcInv, AdcInterrupt
    PROVE  AdcInv'
<1> USE DEF AdcInterrupt, adcTaskVars, adcCallVars, converterVars
<1>1. CallsInOrder' /\ OwnReading'
    BY SameCalls
<1>2. AdcTypes' /\ AdcArmed'
    BY DEF AdcInv, AdcTypes, AdcArmed
<1>3. ConverterPhases'
    BY DEF AdcInv, ConverterPhases, ConverterDoes, InputPin, ItsPin
<1>4. QED
    BY <1>1, <1>2, <1>3 DEF AdcInv

LEMMA CalibrationDoneKeeps ==
    ASSUME AdcInv, CalibrationDone
    PROVE  AdcInv'
<1> USE DEF CalibrationDone, AdcHandled, AdcGoes, adcCallVars
<1>1. CallsInOrder' /\ OwnReading'
    BY SameCalls
<1>2. AdcTypes' /\ AdcArmed'
    BY DEF AdcInv, AdcTypes, AdcTasks, AdcArmed
<1>3. ConverterPhases'
    BY DEF AdcInv, ConverterPhases, ConverterDoes, InputPin
<1>4. QED
    BY <1>1, <1>2, <1>3 DEF AdcInv

LEMMA adc_readingKeeps ==
    ASSUME AdcInv, NEW c \in Samplers, NEW pad \in AdcPads, adc_reading(c, pad)
    PROVE  AdcInv'
<1>1. /\ adcClient' = adcClient /\ board' = board /\ InputPin' = InputPin
      /\ UNCHANGED <<adcPending, adcEnabled, PSEL, converter, adcEvents, sample>>
      /\ adcAsked[c] = "none" /\ adcTask # "panic"
    BY DEF adc_reading, adcIrq, converterVars, InputPin
<1>2. /\ reading' \in [Samplers -> ReadingSet]
      /\ \A d \in Samplers : reading'[d] = IF d = c THEN NoReading ELSE reading[d]
    BY DEF AdcInv, AdcTypes, adc_reading, NoReading, ReadingSet
<1>3. OwnReading'
    BY <1>1, <1>2 DEF AdcInv, OwnReading
<1>4. CASE adcTask' = "panic" /\ UNCHANGED <<adcAsked, adcRequest, adcQueue>>
    <2>1. AdcTypes' /\ AdcArmed'
        BY <1>1, <1>2, <1>4 DEF AdcInv, AdcTypes, AdcTasks, AdcArmed
    <2>2. CallsInOrder' /\ ConverterPhases'
        BY <1>1, <1>4 DEF AdcInv, CallsInOrder, ConverterPhases
    <2>3. QED
        BY <1>3, <2>1, <2>2 DEF AdcInv
<1>5. ASSUME NEW ch \in Int, Selects(board, pad, ch), UNCHANGED adcTask,
             adcAsked' = [adcAsked EXCEPT ![c] = pad],
             adcRequest' = [adcRequest EXCEPT ![c] = ch], adcQueue' = Append(adcQueue, c)
      PROVE  AdcInv'
    <2>1. /\ \A d \in Samplers : /\ adcAsked'[d] = IF d = c THEN pad ELSE adcAsked[d]
                                 /\ adcRequest'[d] = IF d = c THEN ch ELSE adcRequest[d]
          /\ adcAsked' \in [Samplers -> AdcPads \cup {"none"}]
          /\ adcRequest' \in [Samplers -> Int]
        BY <1>5 DEF AdcInv, AdcTypes
    <2>2. /\ Len(adcQueue) \in Nat /\ Len(adcQueue') = Len(adcQueue) + 1
          /\ adcQueue' \in Seq(Samplers)
          /\ \A i \in 1..Len(adcQueue) :
                adcQueue[i] \in Samplers /\ adcQueue'[i] = adcQueue[i]
          /\ adcQueue'[Len(adcQueue) + 1] = c
        <3>1. adcQueue \in Seq(Samplers)
            BY DEF AdcInv, AdcTypes
        <3>2. QED
            BY <1>5, <3>1, AdcQueueFacts
    <2>3. AdcTypes' /\ AdcArmed'
        BY <1>1, <1>2, <1>5, <2>1, <2>2 DEF AdcInv, AdcTypes, AdcArmed
    <2>4. adcTask = "converting" => /\ adcClient # c /\ adcClient \in Samplers
                                    /\ adcAsked[adcClient] # "none" /\ ItsPin' = ItsPin
        BY <1>1, <2>1 DEF AdcInv, CallsInOrder, ItsPin
    <2>5. ConverterPhases'
        BY <1>1, <1>5, <2>4 DEF AdcInv, ConverterPhases, ConverterDoes
    <2>6. \A d \in Samplers :
              adcAsked'[d] # "none" => Selects(board', adcAsked'[d], adcRequest'[d])
        BY <1>1, <1>5, <2>1 DEF AdcInv, CallsInOrder
    <2>7. \A i \in 1..Len(adcQueue') : i \in 1..Len(adcQueue) \/ i = Len(adcQueue) + 1
        BY <2>2
    <2>8. \A i \in 1..Len(adcQueue) : adcQueue[i] # c
        BY <1>1 DEF AdcInv, CallsInOrder
    <2>9. ASSUME NEW i \in 1..Len(adcQueue')
          PROVE  /\ adcAsked'[adcQueue'[i]] # "none"
                 /\ adcTask' = "converting" => adcQueue'[i] # adcClient'
        BY <1>1, <1>5, <2>1, <2>2, <2>4, <2>7, <2>8, PadFacts DEF AdcInv, CallsInOrder
    <2>10. ASSUME NEW i \in 1..Len(adcQueue'), NEW j \in 1..Len(adcQueue'), i # j
           PROVE  adcQueue'[i] # adcQueue'[j]
        BY <2>2, <2>7, <2>8, <2>10 DEF AdcInv, CallsInOrder
    <2>11. CallsInOrder'
        BY <1>1, <1>5, <2>1, <2>4, <2>6, <2>9, <2>10 DEF CallsInOrder
    <2>12. QED
        BY <1>3, <2>3, <2>5, <2>11 DEF AdcInv
<1>6. PICK i : i = Entry(PadPin(board, pad))
    OBVIOUS
<1>7. CASE chantab(board)[i][1] # 0
    <2>1. chantab(board)[i][2] \in Int /\ Selects(board, pad, chantab(board)[i][2])
        BY <1>6, <1>7, EntryFacts DEF AdcInv
    <2>2. QED
        BY <1>5, <1>6, <1>7, <2>1 DEF adc_reading
<1>8. QED
    BY <1>4, <1>6, <1>7 DEF adc_reading

LEMMA StartConversionKeeps ==
    ASSUME AdcInv, StartConversion
    PROVE  AdcInv'
<1> DEFINE c == Head(adcQueue)
<1>1. /\ adcTask = "receive" /\ ~adcPending /\ converter = "idle" /\ adcEvents = {}
      /\ adcQueue \in Seq(Samplers)
    BY DEF AdcInv, AdcTypes, AdcArmed, ConverterPhases, ConverterDoes, StartConversion
<1>2. /\ adcQueue # <<>> /\ adcClient' = c /\ adcQueue' = Tail(adcQueue)
      /\ Select(adcRequest[c]) /\ converter' = "sampling" /\ adcTask' = "converting"
      /\ UNCHANGED <<adcAsked, adcRequest, reading, adcPending, adcEnabled, adcEvents, sample,
                     board>>
    BY <1>1 DEF StartConversion, AdcGoes, adcIrq
<1>3. /\ Tail(adcQueue) \in Seq(Samplers) /\ c \in Samplers
      /\ Len(adcQueue) \in Nat \ {0} /\ Len(Tail(adcQueue)) = Len(adcQueue) - 1
      /\ c = adcQueue[1]
      /\ \A i \in 1..Len(Tail(adcQueue)) : Tail(adcQueue)[i] = adcQueue[i + 1]
    BY <1>1, <1>2, AdcQueueFacts
<1>4. adcAsked[c] # "none" /\ Selects(board, adcAsked[c], adcRequest[c])
    BY <1>3 DEF AdcInv, CallsInOrder
<1>5. adcAsked[c] \in AdcPads /\ adcRequest[c] \in Int
    BY <1>3, <1>4 DEF AdcInv, AdcTypes
<1>6. InputPin' = ItsPin' /\ InputPin' \in Int
    BY <1>2, <1>4, <1>5, SelectFacts DEF AdcInv, ItsPin
<1>7. AdcTypes' /\ AdcArmed' /\ ConverterPhases' /\ OwnReading'
    BY <1>1, <1>2, <1>3, <1>6
       DEF AdcInv, AdcTypes, AdcTasks, AdcArmed, ConverterPhases, ConverterDoes, OwnReading
<1>8. CallsInOrder'
    <2>1. ASSUME NEW i \in 1..Len(adcQueue')
          PROVE  /\ i + 1 \in 1..Len(adcQueue) /\ adcQueue'[i] = adcQueue[i + 1]
                 /\ adcQueue'[i] # c
        <3>1. i + 1 \in 1..Len(adcQueue) /\ 1 \in 1..Len(adcQueue) /\ i + 1 # 1
            BY <1>2, <1>3
        <3>2. QED
            BY <1>2, <1>3, <3>1 DEF AdcInv, CallsInOrder
    <2>2. ASSUME NEW i \in 1..Len(adcQueue'), NEW j \in 1..Len(adcQueue'), i # j
          PROVE  adcQueue'[i] # adcQueue'[j]
        <3>1. /\ i + 1 \in 1..Len(adcQueue) /\ adcQueue'[i] = adcQueue[i + 1]
              /\ j + 1 \in 1..Len(adcQueue) /\ adcQueue'[j] = adcQueue[j + 1]
            BY <2>1
        <3>2. i + 1 # j + 1
            BY <2>2, <1>2, <1>3
        <3>3. QED
            BY <3>1, <3>2 DEF AdcInv, CallsInOrder
    <2>3. \A i \in 1..Len(adcQueue') :
              adcAsked'[adcQueue'[i]] # "none" /\ adcQueue'[i] # adcClient'
        BY <1>2, <2>1 DEF AdcInv, CallsInOrder
    <2>4. QED
        BY <1>2, <1>3, <1>4, <2>2, <2>3 DEF AdcInv, CallsInOrder
<1>9. QED
    BY <1>7, <1>8 DEF AdcInv

LEMMA ConversionDoneKeeps ==
    ASSUME AdcInv, ConversionDone
    PROVE  AdcInv'
<1>1. /\ adcTask = "converting" /\ adcTask' = "receive" /\ adcPending' = FALSE
      /\ adcEnabled' = TRUE /\ adcClient' = adcClient /\ board' = board /\ adcQueue' = adcQueue
      /\ UNCHANGED <<PSEL, converter, sample>>
      /\ adcClient \in Samplers /\ adcAsked[adcClient] # "none"
      /\ adcEvents = {"END"} /\ adcEvents' = {} /\ converter = "idle"
      /\ sample.pin = ItsPin /\ (board = "V1" => sample.value >= 0)
      /\ sample.value \in Int /\ Result \in Int /\ Result >= 0
    BY DEF AdcInv, AdcTypes, ReadingSet, CallsInOrder, ConverterPhases, ConverterDoes,
           ConversionDone, AdcHandled, AdcGoes, Result, BoardNames
<1>2. adcAsked[adcClient] \in AdcPads /\ ItsPin \in Int
    BY <1>1, PadFacts DEF AdcInv, AdcTypes, ItsPin
<1>3. PICK r : r = [pad |-> adcAsked[adcClient], pin |-> sample.pin, value |-> Result]
    OBVIOUS
<1>4. /\ r \in ReadingSet /\ r.pin = PadPin(board, r.pad) /\ r.value >= 0
    BY <1>1, <1>2, <1>3 DEF ReadingSet, ItsPin
<1>5. /\ reading' \in [Samplers -> ReadingSet]
      /\ \A d \in Samplers : reading'[d] = IF d = adcClient THEN r ELSE reading[d]
    BY <1>3, <1>4 DEF AdcInv, AdcTypes, ConversionDone
<1>6. /\ adcAsked' \in [Samplers -> AdcPads \cup {"none"}]
      /\ adcRequest' \in [Samplers -> Int]
      /\ \A d \in Samplers :
            /\ adcAsked'[d] = IF d = adcClient THEN "none" ELSE adcAsked[d]
            /\ d # adcClient => adcRequest'[d] = adcRequest[d]
    BY <1>1, <1>2 DEF AdcInv, AdcTypes, ConversionDone
<1>7. AdcTypes' /\ AdcArmed' /\ OwnReading'
    BY <1>1, <1>4, <1>5, <1>6 DEF AdcInv, AdcTypes, AdcTasks, AdcArmed, OwnReading
<1>8. ConverterPhases'
    BY <1>1 DEF ConverterPhases, ConverterDoes
<1>9. CallsInOrder'
    <2>1. \A i \in 1..Len(adcQueue) : adcQueue[i] \in Samplers /\ adcQueue[i] # adcClient
        BY <1>1 DEF AdcInv, AdcTypes, CallsInOrder
    <2>2. QED
        BY <1>1, <1>6, <2>1 DEF AdcInv, CallsInOrder
<1>10. QED
    BY <1>7, <1>8, <1>9 DEF AdcInv

-----------------------------------------------------------------------------
(* The theorems *)

\* The invariant of the driver of the converter holds at all times.
THEOREM AdcInvariance == AdcSpec => []AdcInv
<1>1. AdcInv /\ [AdcNext]_adcVars => AdcInv'
    <2> SUFFICES ASSUME AdcInv, [AdcNext]_adcVars PROVE AdcInv'
        OBVIOUS
    <2>1. CASE UNCHANGED adcVars
        <3>1. CallsInOrder' /\ OwnReading'
            BY <2>1, SameCalls DEF adcVars, adcTaskVars
        <3>2. AdcTypes' /\ AdcArmed' /\ ConverterPhases'
            BY <2>1 DEF AdcInv, AdcTypes, AdcArmed, ConverterPhases, ConverterDoes, InputPin,
                        ItsPin, adcVars, adcTaskVars, adcCallVars, adcIrq, converterVars
        <3>3. QED
            BY <3>1, <3>2 DEF AdcInv
    <2>2. QED
        BY <2>1, CalibratedKeeps, SampledKeeps, AdcInterruptKeeps, CalibrationDoneKeeps,
           StartConversionKeeps, ConversionDoneKeeps, adc_readingKeeps DEF AdcNext, AdcStep
<1>2. QED
    BY StartAdc, <1>1, PTL DEF AdcSpec

\* Each client gets a reading of the pin that it asked for, whoever else waits,
\* and never a negative one; an interrupt comes only when the task waits for it,
\* with the event it waits for: on both boards, for any number of clients and
\* any pads (adc.c).
THEOREM ReadingsAreTrue == AdcSpec => []ReadingsTrue
<1>1. AdcInv => ReadingsTrue
    BY DEF AdcInv, AdcTypes, AdcTasks, AdcArmed, ConverterPhases, ConverterDoes, ReadingsTrue,
           AdcAssertionsHold
<1>2. QED
    BY <1>1, AdcInvariance, PTL

-----------------------------------------------------------------------------
(***************************************************************************)
(* The display: an image is the same whether it was drawn with image_set() *)
(* or written with IMAGE, on either board; what the LEDs show is a picture *)
(* that was shown, row by row, and a panic shows the stars.                *)
(*                                                                         *)
(* The first invariant says which words of an image the pixels drawn so    *)
(* far have made; the second which words of the image on show are of which *)
(* picture, and which pins are high in each step of the refresh.           *)
(***************************************************************************)

(* The pins of the boards *)

LEMMA RowFacts ==
    /\ RowPins("V1") = <<13, 14, 15>> /\ NRows("V1") = 3
    /\ RowPins("V2") = <<21, 22, 15, 24, 19>> /\ NRows("V2") = 5
<1>1. RowPins("V1") = <<13, 14, 15>>
    BY DEF RowPins
<1>2. RowPins("V2") = <<21, 22, 15, 24, 19>>
    BY DEF RowPins, DEVPIN
<1>3. QED
    BY <1>1, <1>2 DEF NRows

LEMMA ColumnFacts ==
    /\ ColumnPins("V1") = [c \in 1 .. 9 |-> c + 3]
    /\ ColumnPins("V2") = [c \in 1 .. 5 |-> <<28, 11, 31, 37, 30>>[c]]
<1>1. ColumnPins("V1") = [c \in 1 .. 9 |-> c + 3]
    BY DEF ColumnPins
<1>2. /\ PadPin("V2", "PAD4") = 28 /\ PadPin("V2", "PAD7") = 11 /\ PadPin("V2", "PAD3") = 31
      /\ PadPin("V2", "PAD6") = 37 /\ PadPin("V2", "PAD10") = 30
    BY DEF PadPin, PadsV2, DEVPIN
<1>3. ASSUME NEW c \in 1 .. 5
      PROVE  PadPin("V2", <<"PAD4", "PAD7", "PAD3", "PAD6", "PAD10">>[c])
                 = <<28, 11, 31, 37, 30>>[c]
    <2>1. c = 1 \/ c = 2 \/ c = 3 \/ c = 4 \/ c = 5
        OBVIOUS
    <2>2. QED
        BY <1>2, <2>1
<1>4. QED
    BY <1>1, <1>3 DEF ColumnPins

LEMMA AllColumnsFacts ==
    /\ AllColumns["V1"] = 4 .. 12
    /\ AllColumns["V2"] = {28, 11, 31, 37, 30}
<1>1. AllColumns["V1"] = {ColumnPins("V1")[c] : c \in 1 .. 9}
    BY ColumnFacts DEF AllColumns, BoardNames
<1>2. AllColumns["V2"] = {ColumnPins("V2")[c] : c \in 1 .. 5}
    BY ColumnFacts DEF AllColumns, BoardNames
<1>3. \A c \in 1 .. 9 : ColumnPins("V1")[c] = c + 3
    BY ColumnFacts
<1>4. {ColumnPins("V1")[c] : c \in 1 .. 9} = 4 .. 12
    <2>1. ASSUME NEW q \in 4 .. 12 PROVE \E c \in 1 .. 9 : ColumnPins("V1")[c] = q
        <3>1. q - 3 \in 1 .. 9 /\ (q - 3) + 3 = q
            OBVIOUS
        <3>2. QED
            BY <1>3, <3>1
    <2>2. QED
        BY <1>3, <2>1
<1>5. {ColumnPins("V2")[c] : c \in 1 .. 5} = {28, 11, 31, 37, 30}
    <2>1. /\ ColumnPins("V2")[1] = 28 /\ ColumnPins("V2")[2] = 11 /\ ColumnPins("V2")[3] = 31
          /\ ColumnPins("V2")[4] = 37 /\ ColumnPins("V2")[5] = 30
        BY ColumnFacts
    <2>2. 1 .. 5 = {1, 2, 3, 4, 5}
        OBVIOUS
    <2>3. QED
        BY <2>1, <2>2
<1>6. QED
    BY <1>1, <1>2, <1>4, <1>5

\* The LEDs of V1 by their row in the display, from the top.
LEMMA LayoutFacts ==
    /\ Layout[1] = <<11, 24, 12, 25, 13>>
    /\ Layout[2] = <<34, 35, 36, 37, 38>>
    /\ Layout[3] = <<22, 19, 23, 39, 21>>
    /\ Layout[4] = <<18, 17, 16, 15, 14>>
    /\ Layout[5] = <<33, 27, 31, 26, 32>>
    BY DEF Layout

LEMMA LayoutBounds ==
    ASSUME NEW i \in 1 .. 5, NEW j \in 1 .. 5
    PROVE  /\ Layout[i][j] \in Nat
           /\ Layout[i][j] \div 10 \in 1 .. 3
           /\ Layout[i][j] % 10 \in 1 .. 9
<1>1. i \in {1, 2, 3, 4, 5} /\ j \in {1, 2, 3, 4, 5}
    OBVIOUS
<1>2. CASE i = 1
    BY <1>1, <1>2, LayoutFacts
<1>3. CASE i = 2
    BY <1>1, <1>3, LayoutFacts
<1>4. CASE i = 3
    BY <1>1, <1>4, LayoutFacts
<1>5. CASE i = 4
    BY <1>1, <1>5, LayoutFacts
<1>6. CASE i = 5
    BY <1>1, <1>6, LayoutFacts
<1>7. QED
    BY <1>1, <1>2, <1>3, <1>4, <1>5, <1>6

\* No two places of the display have the same LED.
LEMMA LayoutDistinct ==
    ASSUME NEW i \in 1 .. 5, NEW j \in 1 .. 5, NEW k \in 1 .. 5, NEW l \in 1 .. 5,
           Layout[i][j] = Layout[k][l]
    PROVE  i = k /\ j = l
<1>1. i \in {1, 2, 3, 4, 5} /\ j \in {1, 2, 3, 4, 5} /\ k \in {1, 2, 3, 4, 5} /\ l \in {1, 2, 3, 4, 5}
    OBVIOUS
<1>2. ASSUME NEW a \in {1, 2, 3, 4, 5}
      PROVE  /\ Layout[1][a] \in {11, 24, 12, 25, 13} /\ Layout[2][a] \in {34, 35, 36, 37, 38}
             /\ Layout[3][a] \in {22, 19, 23, 39, 21} /\ Layout[4][a] \in {18, 17, 16, 15, 14}
             /\ Layout[5][a] \in {33, 27, 31, 26, 32}
    BY LayoutFacts
<1>3. i = k
    <2>1. CASE i = 1
        BY <1>1, <1>2, <2>1
    <2>2. CASE i = 2
        BY <1>1, <1>2, <2>2
    <2>3. CASE i = 3
        BY <1>1, <1>2, <2>3
    <2>4. CASE i = 4
        BY <1>1, <1>2, <2>4
    <2>5. CASE i = 5
        BY <1>1, <1>2, <2>5
    <2>6. QED
        BY <1>1, <2>1, <2>2, <2>3, <2>4, <2>5
<1>4. j = l
    <2>1. CASE i = 1
        BY <1>1, <1>3, <2>1, LayoutFacts
    <2>2. CASE i = 2
        BY <1>1, <1>3, <2>2, LayoutFacts
    <2>3. CASE i = 3
        BY <1>1, <1>3, <2>3, LayoutFacts
    <2>4. CASE i = 4
        BY <1>1, <1>3, <2>4, LayoutFacts
    <2>5. CASE i = 5
        BY <1>1, <1>3, <2>5, LayoutFacts
    <2>6. QED
        BY <1>1, <2>1, <2>2, <2>3, <2>4, <2>5
<1>5. QED
    BY <1>3, <1>4

\* img_map finds the LED at (x, y) that IMAGE has in that place.
LEMMA img_mapFacts ==
    ASSUME NEW x \in 0 .. 4, NEW y \in 0 .. 4
    PROVE  LET led == Layout[5 - y][x + 1]
           IN img_map[y + 1][x + 1] = 32 * ((led \div 10) - 1) + ((led % 10) + 3)
<1>1. x \in {0, 1, 2, 3, 4} /\ y \in {0, 1, 2, 3, 4}
    OBVIOUS
<1>2. /\ img_map[1] = <<70, 42, 68, 41, 69>>
      /\ img_map[2] = <<11, 10, 9, 8, 7>>
      /\ img_map[3] = <<37, 12, 38, 76, 36>>
      /\ img_map[4] = <<71, 72, 73, 74, 75>>
      /\ img_map[5] = <<4, 39, 5, 40, 6>>
    BY DEF img_map, PIX
<1>3. CASE y = 0
    BY <1>1, <1>2, <1>3, LayoutFacts
<1>4. CASE y = 1
    BY <1>1, <1>2, <1>4, LayoutFacts
<1>5. CASE y = 2
    BY <1>1, <1>2, <1>5, LayoutFacts
<1>6. CASE y = 3
    BY <1>1, <1>2, <1>6, LayoutFacts
<1>7. CASE y = 4
    BY <1>1, <1>2, <1>7, LayoutFacts
<1>8. QED
    BY <1>1, <1>3, <1>4, <1>5, <1>6, <1>7

-----------------------------------------------------------------------------
(* LEDs *)

\* The row and the column of the LED at (x, y).
RowOf(b, x, y) == IF b = "V1" THEN Layout[5 - y][x + 1] \div 10 ELSE 5 - y
ColumnOf(b, x, y) == IF b = "V1" THEN Layout[5 - y][x + 1] % 10 ELSE x + 1

Rows(b) == 1 .. NRows(b)
Columns(b) == IF b = "V1" THEN 1 .. 9 ELSE 1 .. 5

LEMMA LedFacts ==
    ASSUME NEW b \in BoardNames, NEW x \in 0 .. 4, NEW y \in 0 .. 4
    PROVE  /\ RowOf(b, x, y) \in Rows(b) /\ ColumnOf(b, x, y) \in Columns(b)
           /\ Led[b][<<x, y>>] = <<RowPins(b)[RowOf(b, x, y)], ColumnPins(b)[ColumnOf(b, x, y)]>>
<1>1. 5 - y \in 1 .. 5 /\ x + 1 \in 1 .. 5
    OBVIOUS
<1>2. RowOf(b, x, y) \in Rows(b) /\ ColumnOf(b, x, y) \in Columns(b)
    BY <1>1, LayoutBounds, RowFacts DEF RowOf, ColumnOf, Rows, Columns, BoardNames
<1>3. Led[b][<<x, y>>] = LedPins(b, 5 - y, x + 1)
    <2>1. PICK p : p = <<x, y>>
        OBVIOUS
    <2>2. p \in Pixels /\ p[1] = x /\ p[2] = y
        BY <2>1 DEF Pixels
    <2>3. Led[b][p] = LedPins(b, 5 - p[2], p[1] + 1)
        BY <2>2 DEF Led
    <2>4. QED
        BY <2>1, <2>2, <2>3
<1>4. QED
    BY <1>2, <1>3 DEF LedPins, RowOf, ColumnOf, BoardNames

\* Each LED has a row and a column of its own.
LEMMA LedDistinct ==
    ASSUME NEW b \in BoardNames,
           NEW x \in 0 .. 4, NEW y \in 0 .. 4, NEW u \in 0 .. 4, NEW v \in 0 .. 4,
           RowOf(b, x, y) = RowOf(b, u, v), ColumnOf(b, x, y) = ColumnOf(b, u, v)
    PROVE  x = u /\ y = v
<1>1. CASE b = "V1"
    <2>1. PICK i, j, k, l : i = 5 - y /\ j = x + 1 /\ k = 5 - v /\ l = u + 1
        OBVIOUS
    <2>2. i \in 1 .. 5 /\ j \in 1 .. 5 /\ k \in 1 .. 5 /\ l \in 1 .. 5
        BY <2>1
    <2>3. PICK p, q : p = Layout[i][j] /\ q = Layout[k][l]
        OBVIOUS
    <2>4. p \in Nat /\ q \in Nat /\ p \div 10 = q \div 10 /\ p % 10 = q % 10
        BY <1>1, <2>1, <2>2, <2>3, LayoutBounds DEF RowOf, ColumnOf
    <2>5. p = q
        BY <2>4
    <2>6. i = k /\ j = l
        BY <2>2, <2>3, <2>5, LayoutDistinct
    <2>7. QED
        BY <2>1, <2>6
<1>2. CASE b # "V1"
    BY <1>2 DEF RowOf, ColumnOf
<1>3. QED
    BY <1>1, <1>2

\* The pins of one port all have different numbers.
LEMMA PinFacts ==
    ASSUME NEW b \in BoardNames
    PROVE  /\ \A k \in Rows(b) :
                 /\ RowPins(b)[k] \in 0 .. 31 /\ PORT(RowPins(b)[k]) = 0
                 /\ PIN(RowPins(b)[k]) = RowPins(b)[k]
           /\ \A k, l \in Rows(b) : RowPins(b)[k] = RowPins(b)[l] => k = l
           /\ \A c \in Columns(b) :
                 /\ ColumnPins(b)[c] \in 0 .. 63 /\ PORT(ColumnPins(b)[c]) \in {0, 1}
                 /\ PIN(ColumnPins(b)[c]) \in 0 .. 31
                 /\ PORT(ColumnPins(b)[c]) = 0 => PIN(ColumnPins(b)[c]) = ColumnPins(b)[c]
           /\ \A c, d \in Columns(b) : ColumnPins(b)[c] = ColumnPins(b)[d] => c = d
           /\ \A k \in Rows(b), c \in Columns(b) : RowPins(b)[k] # ColumnPins(b)[c]
           /\ \A c, d \in Columns(b) :
                 /\ PORT(ColumnPins(b)[c]) = PORT(ColumnPins(b)[d])
                 /\ PIN(ColumnPins(b)[c]) = PIN(ColumnPins(b)[d])
                 => c = d
<1>1. CASE b = "V1"
    <2>1. Rows(b) = {1, 2, 3} /\ Columns(b) = 1 .. 9
        BY <1>1, RowFacts DEF Rows, Columns
    <2>2. /\ RowPins(b)[1] = 13 /\ RowPins(b)[2] = 14 /\ RowPins(b)[3] = 15
        BY <1>1, RowFacts
    <2>3. \A c \in Columns(b) : ColumnPins(b)[c] = c + 3 /\ c \in 1 .. 9
        BY <1>1, <2>1, ColumnFacts
    <2>4. \A q \in 0 .. 31 : PORT(q) = 0 /\ PIN(q) = q
        BY DEF PORT, PIN
    <2>5. \A c \in Columns(b) : ColumnPins(b)[c] \in 4 .. 12
        BY <2>3
    <2>6. QED
        BY <2>1, <2>2, <2>3, <2>4, <2>5
<1>2. CASE b = "V2"
    <2>1. Rows(b) = {1, 2, 3, 4, 5} /\ Columns(b) = {1, 2, 3, 4, 5}
        BY <1>2, RowFacts DEF Rows, Columns
    <2>2. /\ RowPins(b)[1] = 21 /\ RowPins(b)[2] = 22 /\ RowPins(b)[3] = 15
          /\ RowPins(b)[4] = 24 /\ RowPins(b)[5] = 19
        BY <1>2, RowFacts
    <2>3. /\ ColumnPins(b)[1] = 28 /\ ColumnPins(b)[2] = 11 /\ ColumnPins(b)[3] = 31
          /\ ColumnPins(b)[4] = 37 /\ ColumnPins(b)[5] = 30
        BY <1>2, ColumnFacts
    <2>4. (\A q \in 0 .. 31 : PORT(q) = 0 /\ PIN(q) = q) /\ PORT(37) = 1 /\ PIN(37) = 5
        BY DEF PORT, PIN
    <2>5. QED
        BY <2>1, <2>2, <2>3, <2>4
<1>3. QED
    BY <1>1, <1>2 DEF BoardNames

LEMMA AllColumnsAre ==
    ASSUME NEW b \in BoardNames
    PROVE  AllColumns[b] = {ColumnPins(b)[c] : c \in Columns(b)}
    BY ColumnFacts DEF AllColumns, Columns, BoardNames

LEMMA PixelFacts ==
    ASSUME NEW p \in Pixels
    PROVE  p[1] \in 0 .. 4 /\ p[2] \in 0 .. 4 /\ p = <<p[1], p[2]>>
    BY DEF Pixels

-----------------------------------------------------------------------------
(* Words *)

\* In this row of the picture the column has no LED that is lit.
Dark(b, picture, k, c) ==
    \A p \in picture : ~(RowOf(b, p[1], p[2]) = k /\ ColumnOf(b, p[1], p[2]) = c)

LEMMA LedIs ==
    ASSUME NEW b \in BoardNames, NEW p \in Pixels, NEW k \in Rows(b), NEW c \in Columns(b)
    PROVE  Led[b][p] = <<RowPins(b)[k], ColumnPins(b)[c]>>
             <=> RowOf(b, p[1], p[2]) = k /\ ColumnOf(b, p[1], p[2]) = c
<1>1. PICK l, d : l = RowOf(b, p[1], p[2]) /\ d = ColumnOf(b, p[1], p[2])
    OBVIOUS
<1>2. l \in Rows(b) /\ d \in Columns(b) /\ Led[b][p] = <<RowPins(b)[l], ColumnPins(b)[d]>>
    <2>1. PICK x \in 0 .. 4, y \in 0 .. 4 : x = p[1] /\ y = p[2] /\ p = <<x, y>>
        BY PixelFacts
    <2>2. /\ RowOf(b, x, y) \in Rows(b) /\ ColumnOf(b, x, y) \in Columns(b)
          /\ Led[b][<<x, y>>] = <<RowPins(b)[RowOf(b, x, y)], ColumnPins(b)[ColumnOf(b, x, y)]>>
        BY LedFacts
    <2>3. QED
        BY Zenon, <1>1, <2>1, <2>2
<1>3. Led[b][p] = <<RowPins(b)[k], ColumnPins(b)[c]>>
          <=> RowPins(b)[l] = RowPins(b)[k] /\ ColumnPins(b)[d] = ColumnPins(b)[c]
    BY <1>2
<1>4. QED
    BY <1>1, <1>2, <1>3, PinFacts

LEMMA RowWordFacts ==
    ASSUME NEW b \in BoardNames, NEW picture \in SUBSET Pixels, NEW k \in Rows(b),
           NEW port \in {0, 1}, NEW z
    PROVE  z \in RowWord(b, picture, k, port)
             <=> \/ port = 0 /\ z = RowPins(b)[k]
                 \/ \E c \in Columns(b) : /\ PORT(ColumnPins(b)[c]) = port
                                          /\ z = PIN(ColumnPins(b)[c])
                                          /\ Dark(b, picture, k, c)
<1>1. PICK pin : pin = RowPins(b)[k]
    OBVIOUS
<1>2. PICK bright : bright = {q \in AllColumns[b] : \E p \in picture : Led[b][p] = <<pin, q>>}
    OBVIOUS
<1>3. RowWord(b, picture, k, port)
          = {PIN(q) : q \in {r \in {pin} \cup (AllColumns[b] \ bright) : PORT(r) = port}}
    BY <1>1, <1>2 DEF RowWord
<1>4. PORT(pin) = 0 /\ PIN(pin) = pin
    BY <1>1, PinFacts
<1>5. \A c \in Columns(b) : ColumnPins(b)[c] \in bright <=> ~Dark(b, picture, k, c)
    BY <1>1, <1>2, LedIs, AllColumnsAre DEF Dark
<1>6. \A q : q \in AllColumns[b] \ bright
               <=> \E c \in Columns(b) : q = ColumnPins(b)[c] /\ Dark(b, picture, k, c)
    BY <1>5, AllColumnsAre
<1>7. QED
    BY <1>1, <1>3, <1>4, <1>6

LEMMA LedPortsFacts ==
    ASSUME NEW b \in BoardNames, NEW port \in {0, 1}, NEW z
    PROVE  z \in LedPorts[b][port]
             <=> \/ port = 0 /\ \E k \in Rows(b) : z = RowPins(b)[k]
                 \/ \E c \in Columns(b) : /\ PORT(ColumnPins(b)[c]) = port
                                          /\ z = PIN(ColumnPins(b)[c])
<1>1. PICK pins : pins = AllColumns[b] \cup {RowPins(b)[k] : k \in Rows(b)}
    OBVIOUS
<1>2. LedPorts[b][port] = {PIN(q) : q \in {r \in pins : PORT(r) = port}}
    BY <1>1 DEF LedPorts, Rows
<1>3. QED
    BY <1>1, <1>2, AllColumnsAre, PinFacts

LEMMA RowWordInPorts ==
    ASSUME NEW b \in BoardNames, NEW picture \in SUBSET Pixels, NEW k \in Rows(b),
           NEW port \in {0, 1}
    PROVE  RowWord(b, picture, k, port) \subseteq LedPorts[b][port]
<1>1. ASSUME NEW z \in RowWord(b, picture, k, port) PROVE z \in LedPorts[b][port]
    <2>1. CASE port = 0 /\ z = RowPins(b)[k]
        BY <2>1, LedPortsFacts
    <2>2. CASE \E c \in Columns(b) : /\ PORT(ColumnPins(b)[c]) = port
                                    /\ z = PIN(ColumnPins(b)[c])
                                    /\ Dark(b, picture, k, c)
        BY <2>2, LedPortsFacts
    <2>3. QED
        BY <1>1, <2>1, <2>2, RowWordFacts
<1>2. QED
    BY <1>1

\* The LEDs that are lit when both ports have a row of some picture.
LEMMA LitRow ==
    ASSUME NEW b \in BoardNames, NEW picture \in SUBSET Pixels, NEW k \in Rows(b)
    PROVE  /\ \A l \in Rows(b) :
                 PIN(RowPins(b)[l]) \in RowWord(b, picture, k, 0) <=> l = k
           /\ \A c \in Columns(b) :
                 PIN(ColumnPins(b)[c]) \in RowWord(b, picture, k, PORT(ColumnPins(b)[c]))
                     <=> Dark(b, picture, k, c)
<1>1. ASSUME NEW l \in Rows(b), PIN(RowPins(b)[l]) \in RowWord(b, picture, k, 0) PROVE l = k
    <2>1. CASE PIN(RowPins(b)[l]) = RowPins(b)[k]
        BY <2>1, PinFacts
    <2>2. ASSUME NEW c \in Columns(b), PORT(ColumnPins(b)[c]) = 0,
                 PIN(RowPins(b)[l]) = PIN(ColumnPins(b)[c])
          PROVE  FALSE
        BY <2>2, PinFacts
    <2>3. QED
        BY <1>1, <2>1, <2>2, RowWordFacts
<1>2. PIN(RowPins(b)[k]) \in RowWord(b, picture, k, 0)
    BY RowWordFacts, PinFacts
<1>3. ASSUME NEW c \in Columns(b),
             PIN(ColumnPins(b)[c]) \in RowWord(b, picture, k, PORT(ColumnPins(b)[c]))
      PROVE  Dark(b, picture, k, c)
    <2>1. PICK port, z : port \in {0, 1} /\ port = PORT(ColumnPins(b)[c]) /\ z = PIN(ColumnPins(b)[c])
        BY PinFacts
    <2>2. ~(port = 0 /\ z = RowPins(b)[k])
        BY <2>1, PinFacts
    <2>3. PICK d \in Columns(b) : /\ PORT(ColumnPins(b)[d]) = port /\ z = PIN(ColumnPins(b)[d])
                                  /\ Dark(b, picture, k, d)
        BY <1>3, <2>1, <2>2, RowWordFacts
    <2>4. c = d
        BY <2>1, <2>3, PinFacts
    <2>5. QED
        BY <2>3, <2>4
<1>4. ASSUME NEW c \in Columns(b), Dark(b, picture, k, c)
      PROVE  PIN(ColumnPins(b)[c]) \in RowWord(b, picture, k, PORT(ColumnPins(b)[c]))
    <2>1. PORT(ColumnPins(b)[c]) \in {0, 1}
        BY PinFacts
    <2>2. QED
        BY <1>4, <2>1, RowWordFacts
<1>5. QED
    BY <1>1, <1>2, <1>3, <1>4

-----------------------------------------------------------------------------
(* Images *)

\* The word of an image that has this row for this port.
Index(b, k, port) == IF b = "V1" THEN k - 1 ELSE 2 * (k - 1) + port

Ports(b) == IF b = "V1" THEN {0} ELSE {0, 1}

LEMMA IMAGEFacts ==
    ASSUME NEW b \in BoardNames, NEW picture
    PROVE  /\ IMAGE(b, picture) = [w \in 0 .. NIMG(b) - 1 |-> IMAGE(b, picture)[w]]
           /\ \A k \in Rows(b), port \in Ports(b) :
                 /\ Index(b, k, port) \in 0 .. NIMG(b) - 1
                 /\ IMAGE(b, picture)[Index(b, k, port)] = RowWord(b, picture, k, port)
           /\ \A w \in 0 .. NIMG(b) - 1 :
                 \E k \in Rows(b), port \in Ports(b) : w = Index(b, k, port)
<1>1. CASE b = "V1"
    <2>1. NIMG(b) = 3 /\ Rows(b) = 1 .. 3 /\ Ports(b) = {0} /\ NIMG(b) - 1 = 2
        BY <1>1, RowFacts DEF NIMG, Rows, Ports
    <2>2. IMAGE(b, picture) = [w \in 0 .. 2 |-> RowWord(b, picture, w + 1, 0)]
        BY <1>1, <2>1 DEF IMAGE
    <2>3. ASSUME NEW k \in Rows(b), NEW port \in Ports(b)
          PROVE  /\ Index(b, k, port) \in 0 .. 2
                 /\ IMAGE(b, picture)[Index(b, k, port)] = RowWord(b, picture, k, port)
        <3>1. port = 0 /\ Index(b, k, port) \in 0 .. 2 /\ Index(b, k, port) + 1 = k
            BY <1>1, <2>1 DEF Index
        <3>2. QED
            BY <2>2, <3>1
    <2>4. ASSUME NEW w \in 0 .. 2
          PROVE  \E k \in Rows(b), port \in Ports(b) : w = Index(b, k, port)
        <3>1. w + 1 \in Rows(b) /\ 0 \in Ports(b) /\ w = Index(b, w + 1, 0)
            BY <1>1, <2>1 DEF Index
        <3>2. QED
            BY <3>1, Zenon
    <2>5. IMAGE(b, picture) = [w \in 0 .. 2 |-> IMAGE(b, picture)[w]]
        BY <2>2
    <2>6. QED
        BY <2>1, <2>3, <2>4, <2>5
<1>2. CASE b # "V1"
    <2>1. NIMG(b) = 10 /\ Rows(b) = 1 .. 5 /\ Ports(b) = {0, 1} /\ NIMG(b) - 1 = 9
        BY <1>2, RowFacts DEF NIMG, Rows, Ports, BoardNames
    <2>2. IMAGE(b, picture) = [w \in 0 .. 9 |-> RowWord(b, picture, (w \div 2) + 1, w % 2)]
        BY <1>2, <2>1 DEF IMAGE
    <2>3. ASSUME NEW k \in Rows(b), NEW port \in Ports(b)
          PROVE  /\ Index(b, k, port) \in 0 .. 9
                 /\ IMAGE(b, picture)[Index(b, k, port)] = RowWord(b, picture, k, port)
        <3>1. /\ Index(b, k, port) \in 0 .. 9 /\ (Index(b, k, port) \div 2) + 1 = k
              /\ Index(b, k, port) % 2 = port
            BY <1>2, <2>1 DEF Index
        <3>2. QED
            BY <2>2, <3>1
    <2>4. ASSUME NEW w \in 0 .. 9
          PROVE  \E k \in Rows(b), port \in Ports(b) : w = Index(b, k, port)
        <3>1. /\ (w \div 2) + 1 \in Rows(b) /\ w % 2 \in Ports(b)
              /\ w = Index(b, (w \div 2) + 1, w % 2)
            BY <1>2, <2>1 DEF Index
        <3>2. QED
            BY <3>1, Zenon
    <2>5. IMAGE(b, picture) = [w \in 0 .. 9 |-> IMAGE(b, picture)[w]]
        BY <2>2
    <2>6. QED
        BY <2>1, <2>3, <2>4, <2>5
<1>3. QED
    BY <1>1, <1>2

LEMMA PortFacts ==
    ASSUME NEW b \in BoardNames, NEW c \in Columns(b)
    PROVE  PORT(ColumnPins(b)[c]) \in Ports(b)
<1>1. CASE b = "V1"
    <2>1. ColumnPins(b)[c] \in 4 .. 12
        BY <1>1, ColumnFacts DEF Columns
    <2>2. QED
        BY <1>1, <2>1 DEF PORT, Ports
<1>2. CASE b # "V1"
    BY <1>2, PinFacts DEF Ports
<1>3. QED
    BY <1>1, <1>2

LEMMA IndexDistinct ==
    ASSUME NEW b \in BoardNames, NEW k \in Rows(b), NEW l \in Rows(b),
           NEW port \in Ports(b), NEW other \in Ports(b)
    PROVE  Index(b, k, port) = Index(b, l, other) <=> k = l /\ port = other
<1>1. k \in Int /\ l \in Int
    BY RowFacts DEF Rows, BoardNames
<1>2. CASE b = "V1"
    BY <1>1, <1>2 DEF Index, Ports
<1>3. CASE b # "V1"
    BY <1>1, <1>3 DEF Index, Ports
<1>4. QED
    BY <1>2, <1>3

\* image_set() finds the word of the LED's row and the bit of its column.
LEMMA map_pixelFacts ==
    ASSUME board \in BoardNames, NEW x \in 0 .. 4, NEW y \in 0 .. 4
    PROVE  LET col == ColumnPins(board)[ColumnOf(board, x, y)]
           IN /\ map_pixel(x, y) \div 32 = Index(board, RowOf(board, x, y), PORT(col))
              /\ map_pixel(x, y) % 32 = PIN(col)
<1>1. PICK k, c, col : /\ k = RowOf(board, x, y) /\ c = ColumnOf(board, x, y)
                       /\ col = ColumnPins(board)[c]
    OBVIOUS
<1>2. k \in Rows(board) /\ c \in Columns(board)
    BY <1>1, LedFacts
<1>3. CASE board = "V1"
    <2>1. k \in 1 .. 3 /\ c \in 1 .. 9 /\ col = c + 3
        BY <1>1, <1>2, <1>3, RowFacts, ColumnFacts DEF Rows, Columns
    <2>2. map_pixel(x, y) = 32 * (k - 1) + (c + 3)
        BY <1>1, <1>3, img_mapFacts DEF map_pixel, RowOf, ColumnOf
    <2>3. /\ (32 * (k - 1) + (c + 3)) \div 32 = k - 1
          /\ (32 * (k - 1) + (c + 3)) % 32 = c + 3
          /\ (c + 3) % 32 = c + 3
        BY <2>1
    <2>4. QED
        BY <1>1, <1>3, <2>1, <2>2, <2>3 DEF Index, PIN
<1>4. CASE board = "V2"
    <2>1. k = 5 - y /\ c = x + 1
        BY <1>1, <1>4 DEF RowOf, ColumnOf
    <2>2. k \in 1 .. 5 /\ col \in 0 .. 63
        BY <1>1, <1>2, <2>1, PinFacts
    <2>3. map_pixel(x, y) = 64 * (k - 1) + col
        <3>1. 4 - y = k - 1
            BY <2>1
        <3>2. QED
            BY <1>1, <1>4, <2>1, <3>1 DEF map_pixel
    <2>4. /\ (64 * (k - 1) + col) \div 32 = 2 * (k - 1) + (col \div 32)
          /\ (64 * (k - 1) + col) % 32 = col % 32
        BY <2>2
    <2>5. QED
        BY <1>1, <1>4, <2>3, <2>4 DEF Index, PIN, PORT
<1>5. QED
    BY <1>3, <1>4 DEF BoardNames

\* One more pixel in a picture takes one bit from one word.
LEMMA OneMorePixel ==
    ASSUME NEW b \in BoardNames, NEW picture \in SUBSET Pixels, NEW p \in Pixels,
           NEW k \in Rows(b), NEW port \in {0, 1}
    PROVE  LET c == ColumnOf(b, p[1], p[2])
               col == ColumnPins(b)[c]
           IN RowWord(b, picture \cup {p}, k, port)
                = IF k = RowOf(b, p[1], p[2]) /\ port = PORT(col)
                  THEN RowWord(b, picture, k, port) \ {PIN(col)}
                  ELSE RowWord(b, picture, k, port)
<1>1. PICK l, c, bit : /\ l = RowOf(b, p[1], p[2]) /\ c = ColumnOf(b, p[1], p[2])
                       /\ bit = PIN(ColumnPins(b)[c])
    OBVIOUS
<1>2. l \in Rows(b) /\ c \in Columns(b)
    BY <1>1, PixelFacts, LedFacts
<1>3. \A d : Dark(b, picture \cup {p}, k, d) <=> Dark(b, picture, k, d) /\ ~(l = k /\ c = d)
    BY <1>1 DEF Dark
<1>4. picture \cup {p} \in SUBSET Pixels
    OBVIOUS
<1>5. PICK new, old : /\ new = RowWord(b, picture \cup {p}, k, port)
                      /\ old = RowWord(b, picture, k, port)
    OBVIOUS
<1>6. ASSUME NEW z
      PROVE  /\ z \in new <=> \/ port = 0 /\ z = RowPins(b)[k]
                             \/ \E d \in Columns(b) : /\ PORT(ColumnPins(b)[d]) = port
                                                      /\ z = PIN(ColumnPins(b)[d])
                                                      /\ Dark(b, picture, k, d)
                                                      /\ ~(l = k /\ c = d)
             /\ z \in old <=> \/ port = 0 /\ z = RowPins(b)[k]
                             \/ \E d \in Columns(b) : /\ PORT(ColumnPins(b)[d]) = port
                                                      /\ z = PIN(ColumnPins(b)[d])
                                                      /\ Dark(b, picture, k, d)
    <2>1. z \in new <=> \/ port = 0 /\ z = RowPins(b)[k]
                        \/ \E d \in Columns(b) : /\ PORT(ColumnPins(b)[d]) = port
                                                 /\ z = PIN(ColumnPins(b)[d])
                                                 /\ Dark(b, picture \cup {p}, k, d)
        BY <1>4, <1>5, RowWordFacts
    <2>2. z \in old <=> \/ port = 0 /\ z = RowPins(b)[k]
                        \/ \E d \in Columns(b) : /\ PORT(ColumnPins(b)[d]) = port
                                                 /\ z = PIN(ColumnPins(b)[d])
                                                 /\ Dark(b, picture, k, d)
        BY <1>5, RowWordFacts
    <2>3. QED
        BY Zenon, <1>3, <2>1, <2>2
<1>7. CASE k = l /\ port = PORT(ColumnPins(b)[c])
    <2>1. ASSUME NEW z \in new PROVE z \in old /\ z # bit
        BY <1>1, <1>2, <1>6, <1>7, <2>1, PinFacts
    <2>2. ASSUME NEW z \in old, z # bit PROVE z \in new
        BY <1>1, <1>6, <1>7, <2>2
    <2>3. new = old \ {bit}
        BY <2>1, <2>2
    <2>4. QED
        BY <1>1, <1>5, <1>7, <2>3
<1>8. CASE ~(k = l /\ port = PORT(ColumnPins(b)[c]))
    <2>1. ASSUME NEW z PROVE z \in new <=> z \in old
        BY <1>6, <1>8
    <2>2. new = old
        BY <2>1
    <2>3. QED
        BY <1>1, <1>5, <1>8, <2>2
<1>9. QED
    BY <1>7, <1>8

-----------------------------------------------------------------------------
(* Drawing *)

\* What is drawn, and the image is what IMAGE makes of it.
DrawInv == board \in BoardNames /\ drawn \in SUBSET Pixels /\ DrawingAgrees

\* Off the display image_set() does nothing; on it, it takes out the bit that
\* IMAGE would.
LEMMA DrawKeeps ==
    ASSUME DrawInv, NEW x \in Int, NEW y \in Int, Draw(x, y)
    PROVE  DrawInv'
<1>1. board \in BoardNames /\ drawn \in SUBSET Pixels /\ screen = IMAGE(board, drawn)
    BY DEF DrawInv, DrawingAgrees
<1>2. /\ board' = board /\ screen' = image_set(x, y, screen)
      /\ drawn' = drawn \cup ({<<x, y>>} \cap Pixels)
    BY DEF Draw
<1>3. CASE x < 0 \/ x >= 5 \/ y < 0 \/ y >= 5
    <2>1. <<x, y>> \notin Pixels
        BY <1>3 DEF Pixels
    <2>2. drawn' = drawn /\ screen' = screen
        BY <1>2, <1>3, <2>1 DEF image_set
    <2>3. QED
        BY <1>1, <1>2, <2>2 DEF DrawInv, DrawingAgrees
<1>4. CASE ~(x < 0 \/ x >= 5 \/ y < 0 \/ y >= 5)
    <2>1. x \in 0 .. 4 /\ y \in 0 .. 4
        BY <1>4
    <2>2. PICK p \in Pixels : p = <<x, y>> /\ p[1] = x /\ p[2] = y
        <3>1. <<x, y>> \in Pixels /\ <<x, y>>[1] = x /\ <<x, y>>[2] = y
            BY <2>1 DEF Pixels
        <3>2. QED
            BY <3>1, Zenon
    <2>3. PICK b : b = board
        OBVIOUS
    <2>4. PICK k, col, bit, w : /\ k = RowOf(b, x, y) /\ col = ColumnPins(b)[ColumnOf(b, x, y)]
                                /\ bit = PIN(col) /\ w = Index(b, k, PORT(col))
        OBVIOUS
    <2>5. k \in Rows(b) /\ PORT(col) \in Ports(b) /\ b \in BoardNames
        <3>1. k \in Rows(b) /\ ColumnOf(b, x, y) \in Columns(b)
            BY <1>1, <2>1, <2>3, <2>4, LedFacts
        <3>2. QED
            BY <1>1, <2>3, <2>4, <3>1, PortFacts
    <2>6. map_pixel(x, y) \div 32 = w /\ map_pixel(x, y) % 32 = bit
        BY <1>1, <2>1, <2>3, <2>4, map_pixelFacts
    <2>7. screen' = [screen EXCEPT ![w] = @ \ {bit}]
        BY <1>2, <1>4, <2>6 DEF image_set
    <2>8. drawn' = drawn \cup {p} /\ drawn' \in SUBSET Pixels
        BY <1>1, <1>2, <2>2
    <2>9. ASSUME NEW v \in 0 .. NIMG(b) - 1
          PROVE  screen'[v] = IMAGE(b, drawn \cup {p})[v]
        <3>1. PICK l \in Rows(b), port \in Ports(b) : v = Index(b, l, port)
            BY <2>5, IMAGEFacts
        <3>2. /\ IMAGE(b, drawn)[v] = RowWord(b, drawn, l, port)
              /\ IMAGE(b, drawn \cup {p})[v] = RowWord(b, drawn \cup {p}, l, port)
            BY <2>5, <3>1, IMAGEFacts
        <3>3. v = w <=> l = k /\ port = PORT(col)
            BY <2>4, <2>5, <3>1, IndexDistinct
        <3>4. RowWord(b, drawn \cup {p}, l, port)
                = IF l = k /\ port = PORT(col) THEN RowWord(b, drawn, l, port) \ {bit}
                  ELSE RowWord(b, drawn, l, port)
            <4>1. port \in {0, 1}
                BY DEF Ports
            <4>2. k = RowOf(b, p[1], p[2]) /\ ColumnOf(b, p[1], p[2]) = ColumnOf(b, x, y)
                BY <2>2, <2>4
            <4>3. LET c == ColumnOf(b, p[1], p[2])
                      d == ColumnPins(b)[c]
                  IN RowWord(b, drawn \cup {p}, l, port)
                       = IF l = RowOf(b, p[1], p[2]) /\ port = PORT(d)
                         THEN RowWord(b, drawn, l, port) \ {PIN(d)}
                         ELSE RowWord(b, drawn, l, port)
                BY <1>1, <2>5, <4>1, OneMorePixel, Zenon
            <4>4. QED
                BY <2>4, <4>2, <4>3, Zenon
        <3>5. screen'[v] = IF v = w THEN screen[v] \ {bit} ELSE screen[v]
            <4>1. screen = [u \in 0 .. NIMG(b) - 1 |-> IMAGE(b, drawn)[u]]
                BY <1>1, <2>3, IMAGEFacts
            <4>2. QED
                BY <2>7, <4>1
        <3>6. QED
            BY <1>1, <2>3, <3>2, <3>3, <3>4, <3>5
    <2>10. screen' = [v \in 0 .. NIMG(b) - 1 |-> screen'[v]]
        <3>1. screen = [u \in 0 .. NIMG(b) - 1 |-> IMAGE(b, drawn)[u]]
            BY <1>1, <2>3, IMAGEFacts
        <3>2. QED
            BY <2>7, <3>1
    <2>11. screen' = IMAGE(b, drawn \cup {p})
        <3>1. IMAGE(b, drawn \cup {p}) = [v \in 0 .. NIMG(b) - 1 |-> IMAGE(b, drawn \cup {p})[v]]
            BY <2>5, IMAGEFacts
        <3>2. QED
            BY <2>9, <2>10, <3>1
    <2>12. QED
        BY <1>1, <1>2, <2>3, <2>8, <2>11 DEF DrawInv, DrawingAgrees
<1>5. QED
    BY <1>3, <1>4

LEMMA DrawingStarts == ImageInit => DrawInv
    BY DEF ImageInit, DrawInv, DrawingAgrees, image_clear, Blank

LEMMA DrawingStep == DrawInv /\ [ImageNext]_imageVars => DrawInv'
<1> SUFFICES ASSUME DrawInv, [ImageNext]_imageVars PROVE DrawInv'
    OBVIOUS
<1>1. CASE Clear
    BY <1>1 DEF Clear, DrawInv, DrawingAgrees, image_clear, Blank
<1>2. ASSUME NEW d \in Dots, Draw(d[1], d[2]) PROVE DrawInv'
    <2>1. d[1] \in Int /\ d[2] \in Int
        BY ImagesAssumption
    <2>2. QED
        BY <1>2, <2>1, DrawKeeps
<1>3. CASE UNCHANGED imageVars
    BY <1>3 DEF imageVars, DrawInv, DrawingAgrees
<1>4. QED
    BY <1>1, <1>2, <1>3 DEF ImageNext

\* Drawing with image_set() and writing with IMAGE come to the same.
THEOREM DrawingsAgree == ImageSpec => []DrawingAgrees
<1>1. DrawInv => DrawingAgrees
    BY DEF DrawInv
<1>2. QED
    BY <1>1, DrawingStarts, DrawingStep, PTL DEF ImageSpec

-----------------------------------------------------------------------------
(* The invariant of the display *)

Known == Pictures \cup UrgentPictures \cup {Blank}

Positions == 0 .. NIMG(board) - 1

\* Every word that image_clear() has come to is a word of some picture that may
\* be there.  The words that a copy has come to are of its picture, unless it was
\* overtaken, as it is when both client and task are copying.
CopyInv ==
    /\ display_image = [w \in Positions |-> display_image[w]]
    /\ cleared \in 0 .. NIMG(board)
    /\ \A w \in 0 .. cleared - 1 : \E q \in mixture : display_image[w] = IMAGE(board, q)[w]
    /\ mixture \subseteq Known /\ torn \in BOOLEAN
    /\ shown \in Known /\ latest \in Known \cup {NoPicture}
    /\ copied \in Positions /\ (source = NoPicture => copied = 0)
    /\ source # NoPicture =>
          /\ source \in Pictures \cap mixture
          /\ ~torn => \A w \in 0 .. copied - 1 : display_image[w] = IMAGE(board, source)[w]
    /\ Clearing /\ ~torn => \A w \in 0 .. cleared - 1 : display_image[w] = IMAGE(board, Blank)[w]
    /\ source # NoPicture /\ Clearing => torn
    /\ ~Copying /\ ~torn /\ latest # NoPicture => display_image = IMAGE(board, latest)

\* The pins of the display that are high at this port.
High(port) == out[port] \cap LedPorts[board][port]

RowsDark == High(0) = {}

\* One row is lit, with columns of a picture for each port.
RowLit ==
    \E k \in Rows(board) : \A port \in {0, 1} :
        \E q \in onShow : High(port) = RowWord(board, q, k, port)

\* The index of the task is that of a row, and the columns of this row are set
\* while all rows are dark.
RefreshInv ==
    /\ refresh \in {"image_clear", "clear", "clear columns", "set columns", "set rows", "receive"}
    /\ refresh = "image_clear" => cleared < NIMG(board)
    /\ refresh # "image_clear" => cleared = NIMG(board)
    /\ refresh \in {"clear columns", "set columns"} => board = "V2"
    /\ refresh \in {"clear", "receive"} => RowsDark \/ RowLit
    /\ refresh \notin {"clear", "receive"} => RowsDark
    /\ refresh = "set columns" => High(1) = {}
    /\ \E k \in Rows(board) :
          /\ n = Index(board, k, 0)
          /\ refresh = "set rows" /\ board = "V2" =>
                \E q \in onShow : High(1) = RowWord(board, q, k, 1)

SpinInv ==
    /\ n \in 0 .. 2
    /\ refresh = "spin columns" => board = "V2" /\ out[0] = RowWord(board, ssod, 2 * n + 1, 0)
    /\ refresh = "spin delay" =>
          IF board = "V1" THEN out[0] = {RowPins("V1")[2]}
          ELSE \A port \in {0, 1} : out[port] = RowWord(board, ssod, 2 * n + 1, port)

DisplayInv ==
    /\ board \in BoardNames
    /\ out = [port \in {0, 1} |-> out[port]]
    /\ onShow \subseteq Known
    /\ CopyInv
    /\ IF refresh \in Spinning THEN SpinInv ELSE RefreshInv

LEMMA KnownFacts ==
    /\ \A q \in Known : q \in SUBSET Pixels
    /\ \A b \in BoardNames, q \in Known : Word[b][q] = IMAGE(b, q)
    /\ NoPicture \notin Pictures /\ Pictures \subseteq Known /\ UrgentPictures \subseteq Known
    /\ Blank \in Known /\ NoPicture \notin Known
<1>1. \A q \in Known : q \in SUBSET Pixels
    BY DisplayAssumption DEF Known, Blank
<1>2. \A b \in BoardNames, q \in Known : Word[b][q] = IMAGE(b, q)
    BY DEF Word, Known
<1>3. <<-1, -1>> \notin Pixels
    BY DEF Pixels
<1>4. NoPicture \notin Known
    BY <1>1, <1>3 DEF NoPicture
<1>5. QED
    BY <1>1, <1>2, <1>4 DEF Known

LEMMA NIMGFacts ==
    ASSUME NEW b \in BoardNames
    PROVE  NIMG(b) \in Nat /\ NIMG(b) > 1 /\ 0 \in 0 .. NIMG(b) - 1
    BY DEF NIMG, BoardNames

\* No other program uses the pins 0 and 27, which are high at first.
LEMMA StartDisplay == DisplayInit => DisplayInv
<1> SUFFICES ASSUME DisplayInit PROVE DisplayInv
    OBVIOUS
<1>1. /\ board \in BoardNames /\ refresh = "image_clear" /\ cleared = 0 /\ n = 0
      /\ out = [p \in {0, 1} |-> {0, 27}] /\ source = NoPicture /\ copied = 0
      /\ shown = Blank /\ latest = NoPicture /\ mixture = {} /\ onShow = {} /\ torn = FALSE
    BY DEF DisplayInit
<1>2. CopyInv
    <2>1. display_image = [w \in Positions |-> display_image[w]]
        BY DEF DisplayInit, Positions
    <2>2. 0 \in Positions /\ 0 \in 0 .. NIMG(board) /\ 0 .. 0 - 1 = {} /\ ~Clearing
        BY <1>1, NIMGFacts DEF Positions, Clearing
    <2>3. QED
        BY <1>1, <2>1, <2>2, KnownFacts DEF CopyInv
<1>3. RowsDark
    <2>1. ASSUME NEW z \in LedPorts[board][0] PROVE z # 0 /\ z # 27
        <3>1. CASE board = "V1"
            <4>1. (\E k \in 1 .. 3 : z = RowPins("V1")[k]) \/ \E c \in 1 .. 9 : z = PIN(ColumnPins("V1")[c])
                BY <2>1, <3>1, LedPortsFacts, RowFacts DEF Rows, Columns, BoardNames
            <4>2. \A c \in 1 .. 9 : PIN(ColumnPins("V1")[c]) = c + 3
                BY ColumnFacts DEF PIN
            <4>3. \A k \in 1 .. 3 : RowPins("V1")[k] \in {13, 14, 15}
                BY RowFacts
            <4>4. QED
                BY <4>1, <4>2, <4>3
        <3>2. CASE board = "V2"
            <4>1. \/ \E k \in 1 .. 5 : z = RowPins("V2")[k]
                  \/ \E c \in 1 .. 5 : PORT(ColumnPins("V2")[c]) = 0 /\ z = PIN(ColumnPins("V2")[c])
                BY <2>1, <3>2, LedPortsFacts, RowFacts DEF Rows, Columns, BoardNames
            <4>2. \A c \in 1 .. 5 : ColumnPins("V2")[c] \in {28, 11, 31, 37, 30}
                BY ColumnFacts
            <4>3. \A k \in 1 .. 5 : RowPins("V2")[k] \in {21, 22, 15, 24, 19}
                BY RowFacts
            <4>4. PIN(28) = 28 /\ PIN(11) = 11 /\ PIN(31) = 31 /\ PORT(37) = 1 /\ PIN(30) = 30
                BY DEF PIN, PORT
            <4>5. QED
                BY <4>1, <4>2, <4>3, <4>4
        <3>3. QED
            BY <1>1, <3>1, <3>2 DEF BoardNames
    <2>2. QED
        BY <1>1, <2>1 DEF RowsDark, High
<1>4. RefreshInv
    <2>1. 1 \in Rows(board) /\ n = Index(board, 1, 0)
        BY <1>1, RowFacts DEF Rows, Index, BoardNames
    <2>2. cleared < NIMG(board)
        BY <1>1, NIMGFacts
    <2>3. QED
        BY <1>1, <1>3, <2>1, <2>2 DEF RefreshInv
<1>5. QED
    BY <1>1, <1>2, <1>4 DEF DisplayInv, Spinning

-----------------------------------------------------------------------------
(* The clients *)

\* What the clients do leaves the task and the pins as they are.
LEMMA ClientKeeps ==
    ASSUME DisplayInv, UNCHANGED <<refresh, n, out, onShow, board, cleared>>, CopyInv'
    PROVE  DisplayInv'
<1>1. /\ High(0)' = High(0) /\ High(1)' = High(1) /\ (RowsDark' <=> RowsDark)
      /\ (RowLit' <=> RowLit)
    <2>1. \A port : High(port)' = High(port)
        BY DEF High
    <2>2. QED
        BY <2>1 DEF RowsDark, RowLit
<1>2. RefreshInv' <=> RefreshInv
    BY <1>1 DEF RefreshInv
<1>3. SpinInv' <=> SpinInv
    BY DEF SpinInv
<1>4. QED
    BY <1>2, <1>3 DEF DisplayInv

LEMMA CopySame ==
    ASSUME CopyInv, UNCHANGED <<copyVars, board>>
    PROVE  CopyInv' /\ cleared' = cleared
    BY DEF CopyInv, copyVars, Positions, Clearing, Copying

LEMMA ShowAtOnceKeeps ==
    ASSUME DisplayInv, NEW picture \in UrgentPictures, ShowAtOnce(picture)
    PROVE  DisplayInv'
<1>1. /\ board \in BoardNames /\ picture \in Known /\ CopyInv
      /\ Word[board][picture] = IMAGE(board, picture)
    BY KnownFacts DEF DisplayInv
<1>2. /\ display_image' = IMAGE(board, picture) /\ shown' = picture /\ latest' = picture
      /\ source' = source /\ copied' = copied /\ board' = board /\ Positions' = Positions
      /\ cleared' = cleared /\ (Clearing' <=> Clearing) /\ (Copying' <=> Copying)
      /\ UNCHANGED <<refresh, n, out, onShow>>
    BY <1>1 DEF ShowAtOnce, refreshVars, Positions, Clearing, Copying
<1>3. /\ display_image' = [w \in Positions |-> display_image'[w]]
      /\ \A w \in 0 .. cleared - 1 : w \in Positions
    <2>1. display_image' = [w \in Positions |-> display_image'[w]]
        BY <1>1, <1>2, IMAGEFacts DEF Positions
    <2>2. QED
        BY <1>1, <2>1, NIMGFacts DEF CopyInv, Positions
<1>4. /\ picture \in mixture' /\ mixture' \subseteq Known /\ torn' = Copying /\ torn' \in BOOLEAN
      /\ source # NoPicture => source \in mixture'
    <2>1. CASE Copying
        BY <1>1, <2>1 DEF ShowAtOnce, CopyInv
    <2>2. CASE ~Copying
        BY <1>1, <2>2 DEF ShowAtOnce, Copying
    <2>3. QED
        BY <2>1, <2>2
<1>5. Copying <=> source # NoPicture \/ Clearing
    BY DEF Copying
<1>6. CopyInv'
    BY <1>1, <1>2, <1>3, <1>4, <1>5 DEF CopyInv
<1>7. QED
    BY <1>2, <1>6, ClientKeeps

LEMMA BeginShowKeeps ==
    ASSUME DisplayInv, NEW picture \in Pictures, BeginShow(picture)
    PROVE  DisplayInv'
<1>1. board \in BoardNames /\ picture \in Known /\ CopyInv /\ picture # NoPicture
    BY KnownFacts DEF DisplayInv
<1>2. /\ display_image' = display_image /\ shown' = shown /\ latest' = latest /\ board' = board
      /\ source' = picture /\ copied' = 0 /\ mixture' = mixture \cup {picture} /\ torn' = Clearing
      /\ UNCHANGED <<refresh, n, out, onShow, cleared>> /\ Positions' = Positions
      /\ (Clearing' <=> Clearing) /\ Copying'
    BY <1>1 DEF BeginShow, refreshVars, Positions, Clearing, Copying
<1>3. 0 \in Positions /\ 0 .. 0 - 1 = {} /\ Clearing \in BOOLEAN
    BY <1>1, NIMGFacts DEF Positions, Clearing
<1>4. CopyInv'
    BY <1>1, <1>2, <1>3 DEF CopyInv
<1>5. QED
    BY <1>2, <1>4, ClientKeeps

LEMMA CopyWordKeeps == ASSUME DisplayInv, CopyWord PROVE DisplayInv'
<1>1. board \in BoardNames /\ CopyInv /\ source # NoPicture /\ source \in Pictures
    BY DEF DisplayInv, CopyInv, CopyWord, CopyWordOf
<1>2. PICK s, k, max : s = source /\ k = copied /\ max = NIMG(board) - 1
    OBVIOUS
<1>3. /\ s \in Known /\ Word[board][s] = IMAGE(board, s) /\ k \in 0 .. max /\ max \in Nat
      /\ Positions = 0 .. max /\ \A w \in 0 .. cleared - 1 : w \in Positions
    BY <1>1, <1>2, KnownFacts, NIMGFacts DEF CopyInv, Positions
<1>4. /\ display_image' = [display_image EXCEPT ![k] = IMAGE(board, s)[k]]
      /\ UNCHANGED <<refresh, n, out, onShow, board, cleared, torn>> /\ Positions' = Positions
      /\ Clearing' <=> Clearing
    BY <1>2, <1>3 DEF CopyWord, CopyWordOf, refreshVars, Positions, Clearing
<1>5. /\ display_image' = [w \in Positions |-> display_image'[w]]
      /\ \A w \in Positions :
            display_image'[w] = IF w = k THEN IMAGE(board, s)[k] ELSE display_image[w]
    BY <1>1, <1>4 DEF CopyInv
<1>6. Clearing => torn
    BY <1>1 DEF CopyInv
<1>7. \A w \in 0 .. cleared - 1 : \E q \in mixture : display_image'[w] = IMAGE(board, q)[w]
    BY <1>1, <1>2, <1>3, <1>5 DEF CopyInv
<1>8. CASE k < max
    <2>1. /\ copied' = k + 1 /\ source' = s /\ shown' = shown /\ latest' = latest
          /\ mixture' = mixture
        BY <1>2, <1>3, <1>8 DEF CopyWord, CopyWordOf
    <2>2. /\ k + 1 \in Positions /\ \A w \in 0 .. (k + 1) - 1 : w \in Positions
          /\ \A w \in 0 .. (k + 1) - 1 : w = k \/ w \in 0 .. k - 1
        BY <1>3, <1>8
    <2>3. Copying'
        BY <1>1, <1>2, <2>1 DEF Copying
    <2>4. ~torn => \A w \in 0 .. (k + 1) - 1 : display_image'[w] = IMAGE(board, s)[w]
        BY <1>1, <1>2, <1>5, <2>2 DEF CopyInv
    <2>5. CopyInv'
        BY <1>1, <1>2, <1>4, <1>5, <1>6, <1>7, <2>1, <2>2, <2>3, <2>4 DEF CopyInv
    <2>6. QED
        BY <1>4, <2>5, ClientKeeps
<1>9. CASE ~(k < max)
    <2>1. /\ copied' = 0 /\ source' = NoPicture /\ shown' = s /\ latest' = s
          /\ mixture' = IF torn THEN mixture ELSE {s}
        BY <1>2, <1>3, <1>9 DEF CopyWord, CopyWordOf
    <2>2. 0 \in Positions /\ \A w \in Positions : w = k \/ w \in 0 .. k - 1
        BY <1>3, <1>9
    <2>3. ~torn => \A w \in Positions : display_image'[w] = IMAGE(board, s)[w]
        BY <1>1, <1>2, <1>5, <2>2 DEF CopyInv
    <2>4. \A w \in 0 .. cleared - 1 : \E q \in mixture' : display_image'[w] = IMAGE(board, q)[w]
        <3>1. CASE torn
            BY <1>7, <2>1, <3>1
        <3>2. CASE ~torn
            BY <1>3, <2>1, <2>3, <3>2
        <3>3. QED
            BY <3>1, <3>2
    <2>5. ~torn => display_image' = IMAGE(board, s)
        <3>1. IMAGE(board, s) = [w \in Positions |-> IMAGE(board, s)[w]]
            BY <1>1, IMAGEFacts DEF Positions
        <3>2. QED
            BY <1>5, <2>3, <3>1
    <2>6. mixture' \subseteq Known
        BY <1>1, <1>3, <2>1 DEF CopyInv
    <2>7. CopyInv'
        BY <1>1, <1>3, <1>4, <1>5, <1>6, <2>1, <2>2, <2>4, <2>5, <2>6 DEF CopyInv
    <2>8. QED
        BY <1>4, <2>7, ClientKeeps
<1>10. QED
    BY <1>8, <1>9

-----------------------------------------------------------------------------
(* The task *)

\* Each word of the image goes to the pins of the display at its port.
LEMMA WordFacts ==
    ASSUME DisplayInv, cleared = NIMG(board), NEW k \in Rows(board), NEW port \in Ports(board)
    PROVE  \E q \in mixture :
              /\ display_image[Index(board, k, port)] = RowWord(board, q, k, port)
              /\ RowWord(board, q, k, port) \subseteq LedPorts[board][port]
<1>1. board \in BoardNames /\ CopyInv
    BY DEF DisplayInv
<1>2. Index(board, k, port) \in Positions
    BY <1>1, IMAGEFacts DEF Positions
<1>3. PICK q \in mixture : display_image[Index(board, k, port)] = IMAGE(board, q)[Index(board, k, port)]
    <2>1. Index(board, k, port) \in 0 .. cleared - 1
        BY <1>2 DEF Positions
    <2>2. QED
        BY <1>1, <2>1 DEF CopyInv
<1>4. IMAGE(board, q)[Index(board, k, port)] = RowWord(board, q, k, port)
    BY <1>1, IMAGEFacts
<1>5. q \in SUBSET Pixels /\ port \in {0, 1}
    BY <1>1, KnownFacts DEF CopyInv, Ports
<1>6. RowWord(board, q, k, port) \subseteq LedPorts[board][port]
    BY <1>1, <1>5, RowWordInPorts
<1>7. QED
    BY <1>3, <1>4, <1>6

\* Clearing and setting pins at one port.
LEMMA PinsChange ==
    ASSUME out = [port \in {0, 1} |-> out[port]], NEW here \in {0, 1}, NEW bits, board' = board
    PROVE  /\ OUTCLR(here, LED_MASK(here)) =>
                 /\ out' = [port \in {0, 1} |-> out'[port]]
                 /\ High(here)' = {}
                 /\ \A port \in {0, 1} : port # here => High(port)' = High(port)
                 /\ \A port \in {0, 1} :
                       out'[port] \ LedPorts[board][port] = out[port] \ LedPorts[board][port]
           /\ OUTSET(here, bits) /\ bits \subseteq LedPorts[board][here] =>
                 /\ out' = [port \in {0, 1} |-> out'[port]]
                 /\ High(here)' = High(here) \cup bits
                 /\ \A port \in {0, 1} : port # here => High(port)' = High(port)
                 /\ \A port \in {0, 1} :
                       out'[port] \ LedPorts[board][port] = out[port] \ LedPorts[board][port]
<1>1. PICK L : L = LedPorts[board]
    OBVIOUS
<1>2. LedPorts[board'] = L /\ LED_MASK(here) = L[here]
    BY <1>1 DEF LED_MASK
<1>3. /\ \A port : High(port) = out[port] \cap L[port]
      /\ \A port : High(port)' = out'[port] \cap L[port]
    BY <1>1, <1>2 DEF High
<1>4. ASSUME OUTCLR(here, LED_MASK(here))
      PROVE  /\ out' = [port \in {0, 1} |-> out'[port]]
             /\ out'[here] = out[here] \ L[here]
             /\ \A port \in {0, 1} : port # here => out'[port] = out[port]
    BY <1>2, <1>4 DEF OUTCLR
<1>5. ASSUME OUTSET(here, bits)
      PROVE  /\ out' = [port \in {0, 1} |-> out'[port]]
             /\ out'[here] = out[here] \cup bits
             /\ \A port \in {0, 1} : port # here => out'[port] = out[port]
    BY <1>5 DEF OUTSET
<1>6. QED
    BY <1>1, <1>3, <1>4, <1>5

\* The first copy of all words; nothing is on show before it ends.
LEMMA ClearWordKeeps == ASSUME DisplayInv, ClearWord PROVE DisplayInv'
<1>1. /\ refresh = "image_clear"
      /\ UNCHANGED <<source, copied, shown, n, out, onShow, board>>
      /\ Positions' = Positions
    BY DEF ClearWord, Positions
<1>2. /\ board \in BoardNames /\ out = [port \in {0, 1} |-> out[port]] /\ onShow \subseteq Known
      /\ CopyInv /\ RefreshInv
    BY <1>1 DEF DisplayInv, Spinning
<1>3. PICK k, max : k = cleared /\ max = NIMG(board)
    OBVIOUS
<1>4. /\ k \in 0 .. max - 1 /\ max \in Nat /\ max > 1 /\ Positions = 0 .. max - 1
      /\ Blank \in Known /\ Word[board][Blank] = IMAGE(board, Blank) /\ Blank # NoPicture
    <2>1. cleared < NIMG(board)
        BY <1>1, <1>2 DEF RefreshInv
    <2>2. QED
        BY <1>2, <1>3, <2>1, KnownFacts, NIMGFacts DEF CopyInv, Positions
<1>5. /\ display_image' = [display_image EXCEPT ![k] = IMAGE(board, Blank)[k]]
      /\ cleared' = k + 1 /\ (Clearing' <=> k + 1 < max)
      /\ torn' = IF k = 0 THEN source # NoPicture ELSE torn
    <2>1. cleared' = k + 1 /\ NIMG(board)' = max
        BY <1>1, <1>3 DEF ClearWord
    <2>2. QED
        BY <1>3, <1>4, <2>1 DEF ClearWord, Clearing
<1>6. /\ display_image' = [w \in Positions |-> display_image'[w]]
      /\ \A w \in Positions :
            display_image'[w] = IF w = k THEN IMAGE(board, Blank)[k] ELSE display_image[w]
    BY <1>2, <1>5 DEF CopyInv
<1>7. \A w \in 0 .. (k + 1) - 1 : w \in Positions /\ (w = k \/ w \in 0 .. k - 1)
    BY <1>4
<1>8. k # 0 => Clearing
    BY <1>3, <1>4 DEF Clearing
<1>9. source # NoPicture => torn'
    BY <1>2, <1>5, <1>8 DEF CopyInv
<1>10. ~torn' => \A w \in 0 .. (k + 1) - 1 : display_image'[w] = IMAGE(board, Blank)[w]
    <2>1. CASE k = 0
        BY <1>4, <1>6, <1>7, <2>1
    <2>2. CASE k # 0
        BY <1>2, <1>3, <1>5, <1>6, <1>7, <1>8, <2>2 DEF CopyInv
    <2>3. QED
        BY <2>1, <2>2
<1>11. /\ mixture' \in {mixture \cup {Blank}, {Blank}} /\ latest' \in {latest, Blank}
       /\ torn' => mixture' = mixture \cup {Blank}
       /\ k + 1 < max => mixture' = mixture \cup {Blank} /\ refresh' = "image_clear"
       /\ ~(k + 1 < max) => latest' = Blank /\ refresh' = "clear" /\ k + 1 = max
    <2>1. CASE k + 1 < max
        BY <1>3, <1>5, <2>1 DEF ClearWord
    <2>2. CASE ~(k + 1 < max)
        BY <1>3, <1>4, <1>5, <2>2 DEF ClearWord
    <2>3. QED
        BY <2>1, <2>2
<1>12. \A w \in 0 .. (k + 1) - 1 : \E q \in mixture' : display_image'[w] = IMAGE(board, q)[w]
    <2>1. CASE ~torn'
        BY <1>10, <1>11, <2>1
    <2>2. CASE torn'
        BY <1>2, <1>3, <1>6, <1>7, <1>11, <2>2 DEF CopyInv
    <2>3. QED
        BY <2>1, <2>2
<1>13. ~torn' /\ ~(k + 1 < max) => display_image' = IMAGE(board, Blank)
    <2>1. IMAGE(board, Blank) = [w \in Positions |-> IMAGE(board, Blank)[w]]
        BY <1>2, IMAGEFacts DEF Positions
    <2>2. ~(k + 1 < max) => Positions = 0 .. (k + 1) - 1
        BY <1>4
    <2>3. QED
        BY <1>6, <1>10, <2>1, <2>2
<1>14. CopyInv'
    <2>1. Copying' <=> source # NoPicture \/ k + 1 < max
        BY <1>1, <1>5 DEF Copying
    <2>2. torn' \in BOOLEAN /\ cleared' \in 0 .. max /\ max = NIMG(board)'
        <3>1. torn \in BOOLEAN /\ (source # NoPicture) \in BOOLEAN
            BY <1>2 DEF CopyInv
        <3>2. torn' \in BOOLEAN
            BY <1>5, <3>1, Zenon
        <3>3. cleared' \in 0 .. max
            BY <1>4, <1>5
        <3>4. QED
            BY <1>1, <1>3, <3>2, <3>3
    <2>3. source # NoPicture =>
             /\ source \in Pictures \cap mixture'
             /\ torn'
        BY <1>2, <1>9, <1>11 DEF CopyInv
    <2>4. mixture' \subseteq Known /\ latest' \in Known \cup {NoPicture}
        BY <1>2, <1>4, <1>11 DEF CopyInv
    <2>5. QED
        BY <1>1, <1>2, <1>3, <1>5, <1>6, <1>10, <1>11, <1>12, <1>13, <2>1, <2>2, <2>3, <2>4 DEF CopyInv
<1>15. RefreshInv'
    <2>1. /\ refresh' \in {"image_clear", "clear"} /\ (RowsDark' <=> RowsDark)
          /\ refresh' = "image_clear" => cleared' < NIMG(board)
          /\ refresh' # "image_clear" => cleared' = NIMG(board)
        BY <1>1, <1>3, <1>5, <1>11 DEF RowsDark, High
    <2>2. QED
        BY <1>1, <1>2, <2>1 DEF RefreshInv
<1>16. refresh' \notin Spinning
    BY <1>11 DEF Spinning
<1>17. QED
    BY <1>1, <1>2, <1>14, <1>15, <1>16 DEF DisplayInv

LEMMA ClearRowsKeeps == ASSUME DisplayInv, ClearRows PROVE DisplayInv'
<1>1. /\ refresh = "clear" /\ refresh' = IF board = "V1" THEN "set rows" ELSE "clear columns"
      /\ UNCHANGED <<n, onShow, copyVars, board>> /\ OUTCLR(0, LED_MASK(0))
    BY DEF ClearRows, Refreshes
<1>2. /\ board \in BoardNames /\ out = [port \in {0, 1} |-> out[port]] /\ onShow \subseteq Known
      /\ CopyInv /\ RefreshInv
    BY <1>1 DEF DisplayInv, Spinning
<1>3. out' = [port \in {0, 1} |-> out'[port]] /\ RowsDark'
    BY <1>1, <1>2, PinsChange DEF RowsDark
<1>4. CopyInv' /\ cleared' = cleared
    BY <1>1, <1>2, CopySame
<1>5. RefreshInv'
    <2>1. CASE board = "V1"
        BY <1>1, <1>2, <1>3, <2>1, <1>4 DEF RefreshInv
    <2>2. CASE board = "V2"
        BY <1>1, <1>2, <1>3, <2>2, <1>4 DEF RefreshInv
    <2>3. QED
        BY <1>2, <2>1, <2>2 DEF BoardNames
<1>6. refresh' \notin Spinning
    BY <1>1 DEF Spinning
<1>7. QED
    BY <1>1, <1>2, <1>3, <1>4, <1>5, <1>6 DEF DisplayInv

\* What the task may rely on at each of its steps.
LEMMA TaskFacts ==
    ASSUME DisplayInv, refresh \notin Spinning
    PROVE  /\ board \in BoardNames /\ out = [port \in {0, 1} |-> out[port]] /\ onShow \subseteq Known
           /\ CopyInv /\ RefreshInv /\ mixture \subseteq Known
    BY DEF DisplayInv, CopyInv

LEMMA ClearColumnsKeeps == ASSUME DisplayInv, ClearColumns PROVE DisplayInv'
<1>1. /\ refresh = "clear columns" /\ refresh' = "set columns"
      /\ UNCHANGED <<n, onShow, copyVars, board>> /\ OUTCLR(1, LED_MASK(1))
    BY DEF ClearColumns, Refreshes
<1>2. /\ board \in BoardNames /\ out = [port \in {0, 1} |-> out[port]] /\ onShow \subseteq Known
      /\ CopyInv /\ RefreshInv
    BY <1>1, TaskFacts DEF Spinning
<1>3. out' = [port \in {0, 1} |-> out'[port]] /\ High(1)' = {} /\ High(0)' = High(0)
    <2>1. /\ out' = [port \in {0, 1} |-> out'[port]] /\ High(1)' = {}
          /\ \A port \in {0, 1} : port # 1 => High(port)' = High(port)
        BY <1>1, <1>2, PinsChange
    <2>2. QED
        BY <2>1
<1>4. RowsDark'
    BY <1>1, <1>2, <1>3 DEF RefreshInv, RowsDark
<1>5. CopyInv' /\ cleared' = cleared
    BY <1>1, <1>2, CopySame
<1>6. RefreshInv'
    BY <1>1, <1>2, <1>3, <1>4, <1>5 DEF RefreshInv
<1>7. refresh' \notin Spinning
    BY <1>1 DEF Spinning
<1>8. QED
    BY <1>1, <1>2, <1>3, <1>5, <1>6, <1>7 DEF DisplayInv

LEMMA SetColumnsKeeps == ASSUME DisplayInv, SetColumns PROVE DisplayInv'
<1>1. /\ refresh = "set columns" /\ refresh' = "set rows"
      /\ UNCHANGED <<n, copyVars, board>> /\ onShow' = mixture
      /\ OUTSET(1, display_image[n + 1])
    BY DEF SetColumns, Refreshes
<1>2. /\ board \in BoardNames /\ out = [port \in {0, 1} |-> out[port]] /\ mixture \subseteq Known
      /\ CopyInv /\ RefreshInv
    BY <1>1, TaskFacts DEF Spinning
<1>3. board = "V2" /\ RowsDark /\ High(1) = {} /\ cleared = NIMG(board)
    BY <1>1, <1>2 DEF RefreshInv
<1>4. PICK k \in Rows(board) : n = Index(board, k, 0)
    BY <1>2 DEF RefreshInv
<1>5. n + 1 = Index(board, k, 1)
    BY <1>3, <1>4, RowFacts DEF Rows, Index
<1>6. PICK q \in mixture : /\ display_image[n + 1] = RowWord(board, q, k, 1)
                           /\ RowWord(board, q, k, 1) \subseteq LedPorts[board][1]
    BY <1>3, <1>5, WordFacts DEF Ports
<1>7. /\ out' = [port \in {0, 1} |-> out'[port]] /\ High(0)' = High(0)
      /\ High(1)' = RowWord(board, q, k, 1)
    <2>1. /\ out' = [port \in {0, 1} |-> out'[port]]
          /\ High(1)' = High(1) \cup display_image[n + 1]
          /\ \A port \in {0, 1} : port # 1 => High(port)' = High(port)
        BY <1>1, <1>2, <1>6, PinsChange
    <2>2. QED
        BY <1>3, <1>6, <2>1
<1>8. RowsDark'
    BY <1>3, <1>7 DEF RowsDark
<1>9. CopyInv' /\ cleared' = cleared
    BY <1>1, <1>2, CopySame
<1>10. RefreshInv'
    BY <1>1, <1>3, <1>4, <1>7, <1>8, <1>9 DEF RefreshInv
<1>11. refresh' \notin Spinning
    BY <1>1 DEF Spinning
<1>12. QED
    BY <1>1, <1>2, <1>7, <1>9, <1>10, <1>11 DEF DisplayInv

LEMMA NextRowFacts ==
    ASSUME board \in BoardNames, NEW k \in Rows(board), n = Index(board, k, 0), NextRow
    PROVE  \E l \in Rows(board) : n' = Index(board, l, 0)
<1>1. CASE board = "V1"
    <2>1. /\ k \in 1 .. 3 /\ Rows(board) = 1 .. 3 /\ n = k - 1
          /\ n' = IF n + 1 = 3 THEN 0 ELSE n + 1
        BY <1>1, RowFacts DEF Rows, Index, NextRow, Step, NIMG
    <2>2. \A l : Index(board, l, 0) = l - 1
        BY <1>1 DEF Index
    <2>3. PICK l \in 1 .. 3 : n' = l - 1
        <3>1. CASE k = 3
            <4>1. 1 \in 1 .. 3 /\ n' = 1 - 1
                BY <2>1, <3>1
            <4>2. QED
                BY <4>1, Zenon
        <3>2. CASE k # 3
            <4>1. k + 1 \in 1 .. 3 /\ n' = (k + 1) - 1
                BY <2>1, <3>2
            <4>2. QED
                BY <4>1, Zenon
        <3>3. QED
            BY <3>1, <3>2
    <2>4. QED
        BY <2>1, <2>2, <2>3
<1>2. CASE board = "V2"
    <2>1. /\ k \in 1 .. 5 /\ Rows(board) = 1 .. 5 /\ n = 2 * (k - 1)
          /\ n' = IF n + 2 = 10 THEN 0 ELSE n + 2
        BY <1>2, RowFacts DEF Rows, Index, NextRow, Step, NIMG
    <2>2. \A l \in Int : Index(board, l, 0) = 2 * (l - 1)
        BY <1>2 DEF Index
    <2>3. PICK l \in 1 .. 5 : n' = 2 * (l - 1)
        <3>1. CASE k = 5
            <4>1. 1 \in 1 .. 5 /\ n' = 2 * (1 - 1)
                BY <2>1, <3>1
            <4>2. QED
                BY <4>1, Zenon
        <3>2. CASE k # 5
            <4>1. k + 1 \in 1 .. 5 /\ n' = 2 * ((k + 1) - 1)
                BY <2>1, <3>2
            <4>2. QED
                BY <4>1, Zenon
        <3>3. QED
            BY <3>1, <3>2
    <2>4. QED
        BY <2>1, <2>2, <2>3
<1>3. QED
    BY <1>1, <1>2 DEF BoardNames

\* The LEDs of V1 are all at port 0.
LEMMA PortsOfV1 ==
    ASSUME board = "V1", NEW picture \in SUBSET Pixels, NEW k \in Rows(board)
    PROVE  RowWord(board, picture, k, 1) = {} /\ High(1) = {}
<1>1. \A c \in Columns(board) : PORT(ColumnPins(board)[c]) # 1
    BY PortFacts DEF Ports, BoardNames
<1>2. LedPorts[board][1] = {}
    BY <1>1, LedPortsFacts DEF BoardNames
<1>3. RowWord(board, picture, k, 1) \subseteq LedPorts[board][1]
    BY RowWordInPorts DEF BoardNames
<1>4. QED
    BY <1>2, <1>3 DEF High

LEMMA SetRowsKeeps == ASSUME DisplayInv, SetRows PROVE DisplayInv'
<1>1. /\ refresh = "set rows" /\ refresh' = "receive" /\ UNCHANGED <<copyVars, board>>
      /\ onShow' = IF board = "V1" THEN mixture ELSE onShow \cup mixture
      /\ OUTSET(0, display_image[n]) /\ NextRow
    BY DEF SetRows, Refreshes
<1>2. /\ board \in BoardNames /\ out = [port \in {0, 1} |-> out[port]] /\ mixture \subseteq Known
      /\ onShow \subseteq Known /\ CopyInv /\ RefreshInv
    BY <1>1, TaskFacts DEF Spinning
<1>3. RowsDark /\ cleared = NIMG(board)
    BY <1>1, <1>2 DEF RefreshInv
<1>4. PICK k \in Rows(board) :
          /\ n = Index(board, k, 0)
          /\ board = "V2" => \E q \in onShow : High(1) = RowWord(board, q, k, 1)
    BY <1>1, <1>2 DEF RefreshInv
<1>5. PICK q \in mixture : /\ display_image[n] = RowWord(board, q, k, 0)
                           /\ RowWord(board, q, k, 0) \subseteq LedPorts[board][0]
    BY <1>3, <1>4, WordFacts DEF Ports
<1>6. /\ out' = [port \in {0, 1} |-> out'[port]] /\ High(1)' = High(1)
      /\ High(0)' = RowWord(board, q, k, 0)
    <2>1. /\ out' = [port \in {0, 1} |-> out'[port]]
          /\ High(0)' = High(0) \cup display_image[n]
          /\ \A port \in {0, 1} : port # 0 => High(port)' = High(port)
        BY <1>1, <1>2, <1>5, PinsChange
    <2>2. QED
        BY <1>3, <1>5, <2>1 DEF RowsDark
<1>7. \E r \in onShow' : High(1)' = RowWord(board, r, k, 1)
    <2>1. CASE board = "V1"
        <3>1. q \in SUBSET Pixels
            BY <1>2, KnownFacts
        <3>2. High(1)' = RowWord(board, q, k, 1)
            BY <1>6, <2>1, <3>1, PortsOfV1
        <3>3. QED
            BY <1>1, <2>1, <3>2
    <2>2. CASE board = "V2"
        BY <1>1, <1>4, <1>6, <2>2
    <2>3. QED
        BY <1>2, <2>1, <2>2 DEF BoardNames
<1>8. RowLit'
    <2>1. q \in onShow'
        BY <1>1
    <2>2. \A port \in {0, 1} : \E r \in onShow' : High(port)' = RowWord(board, r, k, port)
        BY <1>6, <1>7, <2>1
    <2>3. board' = board
        BY <1>1
    <2>4. QED
        BY <2>2, <2>3 DEF RowLit
<1>9. \E l \in Rows(board) : n' = Index(board, l, 0)
    BY <1>1, <1>2, <1>4, NextRowFacts
<1>10. CopyInv' /\ cleared' = cleared
    BY <1>1, <1>2, CopySame
<1>11. RefreshInv'
    BY <1>1, <1>3, <1>8, <1>9, <1>10 DEF RefreshInv
<1>12. refresh' \notin Spinning /\ onShow' \subseteq Known
    BY <1>1, <1>2 DEF Spinning
<1>13. QED
    BY <1>1, <1>2, <1>6, <1>10, <1>11, <1>12 DEF DisplayInv

LEMMA PingKeeps == ASSUME DisplayInv, Ping PROVE DisplayInv'
<1>1. /\ refresh = "receive" /\ refresh' = "clear" /\ UNCHANGED <<n, out, onShow, copyVars, board>>
    BY DEF Ping, Refreshes
<1>2. /\ board \in BoardNames /\ out = [port \in {0, 1} |-> out[port]] /\ onShow \subseteq Known
      /\ CopyInv /\ RefreshInv
    BY <1>1, TaskFacts DEF Spinning
<1>3. \A port : High(port)' = High(port)
    BY <1>1 DEF High
<1>4. RowsDark' \/ RowLit'
    <2>1. RowsDark \/ RowLit
        BY <1>1, <1>2 DEF RefreshInv
    <2>2. QED
        BY <1>1, <1>3, <2>1 DEF RowsDark, RowLit
<1>5. CopyInv' /\ cleared' = cleared
    BY <1>1, <1>2, CopySame
<1>6. RefreshInv'
    BY <1>1, <1>2, <1>4, <1>5 DEF RefreshInv
<1>7. refresh' \notin Spinning
    BY <1>1 DEF Spinning
<1>8. QED
    BY <1>1, <1>2, <1>5, <1>6, <1>7 DEF DisplayInv

-----------------------------------------------------------------------------
(* A panic *)

LEMMA PanicKeeps == ASSUME DisplayInv, Panic PROVE DisplayInv'
<1>1. /\ refresh' = "spin" /\ n' = 0 /\ onShow' = {} /\ UNCHANGED <<copyVars, out, board>>
    BY DEF Panic
<1>2. CopyInv'
    BY <1>1, CopySame DEF DisplayInv
<1>3. SpinInv'
    BY <1>1 DEF SpinInv
<1>4. QED
    BY <1>1, <1>2, <1>3 DEF DisplayInv, Spinning

LEMMA SpinFacts ==
    ASSUME DisplayInv, spin
    PROVE  /\ board \in BoardNames /\ out = [port \in {0, 1} |-> out[port]] /\ onShow \subseteq Known
           /\ SpinInv /\ CopyInv' /\ refresh' \in Spinning
           /\ board' = board /\ onShow' = onShow
<1>1. refresh \in Spinning /\ refresh' \in Spinning /\ UNCHANGED <<copyVars, board, onShow>>
    BY DEF spin, SpinRow, SpinColumns, SpinDelay, SpinDark, Spinning
<1>2. CopyInv'
    BY <1>1, CopySame DEF DisplayInv
<1>3. QED
    BY <1>1, <1>2 DEF DisplayInv

LEMMA spinKeeps == ASSUME DisplayInv, spin PROVE DisplayInv'
<1>1. /\ board \in BoardNames /\ out = [port \in {0, 1} |-> out[port]] /\ onShow \subseteq Known
      /\ SpinInv /\ CopyInv' /\ refresh' \in Spinning
      /\ board' = board /\ onShow' = onShow /\ n \in 0 .. 2
    BY SpinFacts DEF SpinInv
<1>2. CASE SpinRow /\ board = "V1"
    <2>1. /\ out' = [out EXCEPT ![0] = {RowPins("V1")[2]}] /\ refresh' = "spin delay" /\ n' = n
        BY <1>2 DEF SpinRow
    <2>2. out' = [port \in {0, 1} |-> out'[port]] /\ out'[0] = {RowPins("V1")[2]}
        BY <1>1, <2>1
    <2>3. SpinInv'
        BY <1>1, <1>2, <2>1, <2>2 DEF SpinInv
    <2>4. QED
        BY <1>1, <2>2, <2>3 DEF DisplayInv
<1>3. CASE SpinRow /\ board = "V2"
    <2>1. /\ out' = [out EXCEPT ![0] = RowWord(board, ssod, 2 * n + 1, 0)]
          /\ refresh' = "spin columns" /\ n' = n
        BY <1>3 DEF SpinRow
    <2>2. out' = [port \in {0, 1} |-> out'[port]] /\ out'[0] = RowWord(board, ssod, 2 * n + 1, 0)
        BY <1>1, <2>1
    <2>3. SpinInv'
        BY <1>1, <1>3, <2>1, <2>2 DEF SpinInv
    <2>4. QED
        BY <1>1, <2>2, <2>3 DEF DisplayInv
<1>4. CASE SpinColumns
    <2>1. /\ out' = [out EXCEPT ![1] = RowWord(board, ssod, 2 * n + 1, 1)]
          /\ refresh = "spin columns" /\ refresh' = "spin delay" /\ n' = n
        BY <1>4 DEF SpinColumns
    <2>2. board = "V2" /\ out[0] = RowWord(board, ssod, 2 * n + 1, 0)
        BY <1>1, <2>1 DEF SpinInv
    <2>3. /\ out' = [port \in {0, 1} |-> out'[port]] /\ out'[0] = out[0]
          /\ out'[1] = RowWord(board, ssod, 2 * n + 1, 1)
        <3>1. PICK bits : bits = RowWord(board, ssod, 2 * n + 1, 1)
            OBVIOUS
        <3>2. out' = [out EXCEPT ![1] = bits]
            BY <2>1, <3>1
        <3>3. out' = [port \in {0, 1} |-> IF port = 1 THEN bits ELSE out[port]]
            BY <1>1, <3>2, Zenon
        <3>4. QED
            BY <3>1, <3>3
    <2>4. SpinInv'
        BY <1>1, <2>1, <2>2, <2>3 DEF SpinInv
    <2>5. QED
        BY <1>1, <2>3, <2>4 DEF DisplayInv
<1>5. CASE SpinDelay
    <2>1. /\ refresh' \in {"spin", "spin dark"}
          /\ n' = 0 \/ n' = (n + 1) % 3
          /\ out' = out \/ out' = [out EXCEPT ![0] = {}]
        BY <1>5 DEF SpinDelay
    <2>2. n' \in 0 .. 2 /\ out' = [port \in {0, 1} |-> out'[port]]
        <3>1. n' \in 0 .. 2
            <4>1. PICK m : m = (n + 1) % 3
                OBVIOUS
            <4>2. n \in 0 .. 2
                BY <1>1
            <4>3. m \in 0 .. 2 /\ 0 \in 0 .. 2
                BY <4>1, <4>2
            <4>4. QED
                BY <2>1, <4>1, <4>3, Zenon
        <3>2. CASE out' = out
            BY <1>1, <3>1, <3>2, Zenon
        <3>3. CASE out' = [out EXCEPT ![0] = {}]
            BY <1>1, <3>1, <3>3
        <3>4. QED
            BY <2>1, <3>2, <3>3
    <2>3. SpinInv'
        BY <2>1, <2>2 DEF SpinInv
    <2>4. QED
        BY <1>1, <2>2, <2>3 DEF DisplayInv
<1>6. CASE SpinDark
    <2>1. refresh' = "spin" /\ n' = n /\ out' = out
        BY <1>6 DEF SpinDark
    <2>2. SpinInv'
        BY <1>1, <2>1 DEF SpinInv
    <2>3. QED
        BY <1>1, <2>1, <2>2 DEF DisplayInv
<1>7. QED
    BY <1>1, <1>2, <1>3, <1>4, <1>5, <1>6 DEF spin, BoardNames

LEMMA DisplayStep == DisplayInv /\ [DisplayNext]_displayVars => DisplayInv'
<1> SUFFICES ASSUME DisplayInv, [DisplayNext]_displayVars PROVE DisplayInv'
    OBVIOUS
<1>1. CASE display_task
    BY <1>1, ClearWordKeeps, ClearRowsKeeps, ClearColumnsKeeps, SetColumnsKeeps, SetRowsKeeps, PingKeeps
       DEF display_task
<1>2. CASE Panic
    BY <1>2, PanicKeeps
<1>3. CASE spin
    BY <1>3, spinKeeps
<1>4. CASE CopyWord
    BY <1>4, CopyWordKeeps
<1>5. CASE \E picture \in UrgentPictures : ShowAtOnce(picture)
    BY <1>5, ShowAtOnceKeeps
<1>6. CASE \E picture \in Pictures : BeginShow(picture)
    BY <1>6, BeginShowKeeps
<1>7. CASE UNCHANGED displayVars
    <2>1. UNCHANGED <<refresh, n, out, onShow, board, copyVars>>
        BY <1>7 DEF displayVars, refreshVars
    <2>2. CopyInv' /\ cleared' = cleared
        BY <2>1, CopySame DEF DisplayInv
    <2>3. QED
        BY <2>1, <2>2, ClientKeeps
<1>8. QED
    BY <1>1, <1>2, <1>3, <1>4, <1>5, <1>6, <1>7 DEF DisplayNext

-----------------------------------------------------------------------------
(* The theorems *)

\* The invariant holds in every state: for each board and any pictures, shown
\* one at a time, at once, or in a panic.
THEOREM DisplayInvariance == DisplaySpec => []DisplayInv
    BY StartDisplay, DisplayStep, PTL DEF DisplaySpec

\* A pin of an LED is high if it is high among those of the display.
LEMMA LitFacts ==
    ASSUME board \in BoardNames, NEW p \in Pixels
    PROVE  LET k == RowOf(board, p[1], p[2])
               c == ColumnOf(board, p[1], p[2])
               pin == ColumnPins(board)[c]
           IN /\ k \in Rows(board) /\ c \in Columns(board) /\ PORT(pin) \in {0, 1}
              /\ Led[board][p] = <<RowPins(board)[k], pin>>
              /\ IsLit(p) <=> PIN(RowPins(board)[k]) \in out[0] /\ PIN(pin) \notin out[PORT(pin)]
              /\ IsLit(p) <=> PIN(RowPins(board)[k]) \in High(0) /\ PIN(pin) \notin High(PORT(pin))
<1>1. PICK k, c, pin, row : /\ k = RowOf(board, p[1], p[2]) /\ c = ColumnOf(board, p[1], p[2])
                            /\ pin = ColumnPins(board)[c] /\ row = RowPins(board)[k]
    OBVIOUS
<1>2. k \in Rows(board) /\ c \in Columns(board)
    BY <1>1, PixelFacts, LedFacts
<1>3. Led[board][p] = <<row, pin>>
    BY <1>1, <1>2, LedIs
<1>4. PORT(row) = 0 /\ PORT(pin) \in {0, 1}
    BY <1>1, <1>2, PinFacts
<1>5. IsLit(p) <=> PIN(row) \in out[0] /\ PIN(pin) \notin out[PORT(pin)]
    <2>1. Led[board][p][1] = row /\ Led[board][p][2] = pin
        BY <1>3
    <2>2. QED
        BY <1>4, <2>1 DEF IsLit
<1>6. PIN(row) \in LedPorts[board][0] /\ PIN(pin) \in LedPorts[board][PORT(pin)]
    <2>1. PIN(row) = row
        BY <1>1, <1>2, PinFacts
    <2>2. QED
        BY <1>1, <1>2, <1>4, <2>1, LedPortsFacts
<1>7. QED
    BY <1>1, <1>2, <1>3, <1>4, <1>5, <1>6 DEF High

\* Only a row of pictures on show is lit, column by column.
LEMMA InvNoGhosting == DisplayInv => NoGhosting
<1> SUFFICES ASSUME DisplayInv, refresh \notin Spinning, NEW p \in Pixels, IsLit(p)
             PROVE  p \in UNION onShow
    BY DEF NoGhosting, Lit
<1>1. board \in BoardNames /\ RefreshInv /\ onShow \subseteq Known
    BY TaskFacts
<1>2. PICK k, c, pin : /\ k = RowOf(board, p[1], p[2]) /\ c = ColumnOf(board, p[1], p[2])
                       /\ pin = ColumnPins(board)[c]
    OBVIOUS
<1>3. /\ k \in Rows(board) /\ c \in Columns(board) /\ PORT(pin) \in {0, 1}
      /\ PIN(RowPins(board)[k]) \in High(0) /\ PIN(pin) \notin High(PORT(pin))
    BY <1>1, <1>2, LitFacts
<1>4. RowLit
    BY <1>1, <1>3 DEF RefreshInv, RowsDark
<1>5. PICK l \in Rows(board) : \A port \in {0, 1} : 
          \E q \in onShow : High(port) = RowWord(board, q, l, port)
    BY <1>4 DEF RowLit
<1>6. PICK q \in onShow : High(0) = RowWord(board, q, l, 0)
    BY <1>5
<1>7. q \in SUBSET Pixels
    BY <1>1, KnownFacts
<1>8. k = l
    BY <1>1, <1>3, <1>6, <1>7, LitRow
<1>9. PICK r \in onShow : High(PORT(pin)) = RowWord(board, r, k, PORT(pin))
    BY <1>3, <1>5, <1>8
<1>10. r \in SUBSET Pixels
    BY <1>1, KnownFacts
<1>11. ~Dark(board, r, k, c)
    BY <1>1, <1>2, <1>3, <1>9, <1>10, LitRow
<1>12. PICK o \in r : RowOf(board, o[1], o[2]) = k /\ ColumnOf(board, o[1], o[2]) = c
    BY <1>11 DEF Dark
<1>13. o = p
    <2>1. /\ o[1] \in 0 .. 4 /\ o[2] \in 0 .. 4 /\ o = <<o[1], o[2]>>
          /\ p[1] \in 0 .. 4 /\ p[2] \in 0 .. 4 /\ p = <<p[1], p[2]>>
        BY <1>10, PixelFacts
    <2>2. o[1] = p[1] /\ o[2] = p[2]
        BY <1>1, <1>2, <1>12, <2>1, LedDistinct
    <2>3. QED
        BY <2>1, <2>2, Zenon
<1>14. QED
    BY <1>12, <1>13

\* What the latest copy wrote is all that is in the image.
LEMMA InvImage == DisplayInv => ImageIsLatest
<1>1. ASSUME DisplayInv, ~Copying, ~torn, latest # NoPicture
      PROVE  display_image = Word[board][latest]
    BY <1>1, KnownFacts DEF DisplayInv, CopyInv
<1>2. QED
    BY <1>1 DEF ImageIsLatest

LEMMA InvSevenStars == DisplayInv => SevenStars
<1>0. SUFFICES ASSUME DisplayInv, refresh = "spin delay"
             PROVE  IF board = "V1"
                    THEN Lit = {p \in Pixels : Led["V1"][p][1] = RowPins("V1")[2]}
                    ELSE Lit = {p \in ssod : p[2] = 4 - 2 * n}
    BY DEF SevenStars
<1>1. board \in BoardNames /\ SpinInv
    BY <1>0 DEF DisplayInv, Spinning
<1>2. CASE board = "V1"
    <2>1. out[0] = {RowPins("V1")[2]} /\ 2 \in Rows("V1")
        <3>1. out[0] = {RowPins("V1")[2]}
            BY <1>0, <1>1, <1>2 DEF SpinInv
        <3>2. 2 \in Rows("V1")
            BY RowFacts DEF Rows
        <3>3. QED
            BY <3>1, <3>2
    <2>2. ASSUME NEW p \in Pixels
          PROVE  IsLit(p) <=> Led["V1"][p][1] = RowPins("V1")[2]
        <3>1. PICK k, c, pin : /\ k = RowOf("V1", p[1], p[2]) /\ c = ColumnOf("V1", p[1], p[2])
                               /\ pin = ColumnPins("V1")[c]
            OBVIOUS
        <3>2. /\ k \in Rows("V1") /\ c \in Columns("V1") /\ Led["V1"][p] = <<RowPins("V1")[k], pin>>
              /\ IsLit(p) <=> PIN(RowPins("V1")[k]) \in out[0] /\ PIN(pin) \notin out[PORT(pin)]
            BY <1>2, <3>1, LitFacts DEF BoardNames
        <3>3. PIN(RowPins("V1")[k]) = RowPins("V1")[k] /\ PORT(pin) = 0 /\ PIN(pin) = pin
            <4>1. PORT(pin) = 0
                BY <3>1, <3>2, PortFacts DEF Ports, BoardNames
            <4>2. QED
                BY <3>1, <3>2, <4>1, PinFacts DEF BoardNames
        <3>4. pin # RowPins("V1")[2]
            BY <2>1, <3>1, <3>2, PinFacts DEF BoardNames
        <3>5. Led["V1"][p][1] = RowPins("V1")[k]
            <4>1. PICK row : row = RowPins("V1")[k]
                OBVIOUS
            <4>2. Led["V1"][p] = <<row, pin>>
                BY <3>2, <4>1
            <4>3. Led["V1"][p][1] = row
                BY <4>2
            <4>4. QED
                BY <4>1, <4>3
        <3>6. QED
            BY <2>1, <3>2, <3>3, <3>4, <3>5
    <2>3. QED
        BY <1>2, <2>2 DEF Lit
<1>3. CASE board = "V2"
    <2>1. /\ out[0] = RowWord(board, ssod, 2 * n + 1, 0) /\ out[1] = RowWord(board, ssod, 2 * n + 1, 1)
          /\ n \in 0 .. 2
        BY <1>0, <1>1, <1>3 DEF SpinInv
    <2>2. PICK l : l = 2 * n + 1
        OBVIOUS
    <2>3. l \in Rows(board)
        <3>1. l \in 1 .. 5
            BY <2>1, <2>2
        <3>2. Rows("V2") = 1 .. 5
            BY RowFacts DEF Rows
        <3>3. QED
            BY <1>3, <3>1, <3>2
    <2>4. ssod \in SUBSET Pixels
        <3>1. \A x, y \in 0 .. 4 : <<x, y>> \in Pixels
            BY DEF Pixels
        <3>2. 0 \in 0 .. 4 /\ 1 \in 0 .. 4 /\ 2 \in 0 .. 4 /\ 3 \in 0 .. 4 /\ 4 \in 0 .. 4
            OBVIOUS
        <3>3. /\ <<1, 4>> \in Pixels /\ <<3, 4>> \in Pixels /\ <<0, 2>> \in Pixels
              /\ <<2, 2>> \in Pixels /\ <<4, 2>> \in Pixels /\ <<1, 0>> \in Pixels
              /\ <<3, 0>> \in Pixels
            BY <3>1, <3>2, Zenon
        <3>4. QED
            BY <3>3 DEF ssod
    <2>5. ASSUME NEW p \in Pixels
          PROVE  IsLit(p) <=> p \in ssod /\ p[2] = 4 - 2 * n
        <3>1. PICK k, c, pin : /\ k = RowOf(board, p[1], p[2]) /\ c = ColumnOf(board, p[1], p[2])
                               /\ pin = ColumnPins(board)[c]
            OBVIOUS
        <3>2. /\ k \in Rows(board) /\ c \in Columns(board) /\ PORT(pin) \in {0, 1}
              /\ IsLit(p) <=> PIN(RowPins(board)[k]) \in out[0] /\ PIN(pin) \notin out[PORT(pin)]
            BY <1>1, <3>1, LitFacts
        <3>3. PIN(RowPins(board)[k]) \in out[0] <=> k = l
            <4>1. PIN(RowPins(board)[k]) \in RowWord(board, ssod, l, 0) <=> k = l
                BY <1>1, <2>3, <2>4, <3>2, LitRow
            <4>2. QED
                BY <2>1, <2>2, <4>1, Zenon
        <3>4. out[PORT(pin)] = RowWord(board, ssod, l, PORT(pin))
            BY <2>1, <2>2, <3>2
        <3>5. PIN(pin) \in out[PORT(pin)] <=> Dark(board, ssod, l, c)
            <4>1. PIN(pin) \in RowWord(board, ssod, l, PORT(pin)) <=> Dark(board, ssod, l, c)
                BY <1>1, <2>3, <2>4, <3>1, <3>2, LitRow
            <4>2. QED
                BY <3>4, <4>1, Zenon
        <3>6. k = l /\ ~Dark(board, ssod, l, c) <=> k = l /\ p \in ssod
            <4>1. ASSUME k = l, ~Dark(board, ssod, l, c) PROVE p \in ssod
                <5>1. PICK o \in ssod : RowOf(board, o[1], o[2]) = l /\ ColumnOf(board, o[1], o[2]) = c
                    BY <4>1 DEF Dark
                <5>2. /\ o[1] \in 0 .. 4 /\ o[2] \in 0 .. 4 /\ o = <<o[1], o[2]>>
                      /\ p[1] \in 0 .. 4 /\ p[2] \in 0 .. 4 /\ p = <<p[1], p[2]>>
                    BY <2>4, PixelFacts
                <5>3. /\ RowOf(board, o[1], o[2]) = RowOf(board, p[1], p[2])
                      /\ ColumnOf(board, o[1], o[2]) = ColumnOf(board, p[1], p[2])
                    BY <3>1, <4>1, <5>1
                <5>4. o[1] = p[1] /\ o[2] = p[2]
                    BY <1>1, <5>2, <5>3, LedDistinct
                <5>5. QED
                    BY <5>1, <5>2, <5>4, Zenon
            <4>2. ASSUME k = l, p \in ssod PROVE ~Dark(board, ssod, l, c)
                BY <3>1, <4>2 DEF Dark
            <4>3. QED
                BY <4>1, <4>2
        <3>7. k = l <=> p[2] = 4 - 2 * n
            <4>1. k = 5 - p[2] /\ p[2] \in 0 .. 4
                BY <1>3, <3>1, PixelFacts DEF RowOf
            <4>2. PICK y : y = p[2]
                OBVIOUS
            <4>3. k = l <=> y = 4 - (2 * n)
                BY <2>1, <2>2, <4>1, <4>2
            <4>4. QED
                BY <4>2, <4>3
        <3>8. QED
            BY <3>2, <3>3, <3>5, <3>6, <3>7
    <2>6. QED
        BY <1>3, <2>4, <2>5 DEF Lit
<1>4. QED
    BY <1>1, <1>2, <1>3 DEF BoardNames

\* The task sets and clears only pins that a word has.
LEMMA OthersLeft ==
    ASSUME DisplayInv, [DisplayNext]_displayVars, refresh' \notin Spinning
    PROVE  \A port \in {0, 1} :
               out'[port] \ LedPorts[board][port] = out[port] \ LedPorts[board][port]
<1>1. CASE UNCHANGED out
    BY <1>1
<1>2. CASE ClearRows
    <2>1. board' = board /\ OUTCLR(0, LED_MASK(0)) /\ out = [port \in {0, 1} |-> out[port]]
        BY <1>2 DEF ClearRows, Refreshes, DisplayInv
    <2>2. QED
        BY <2>1, PinsChange
<1>3. CASE ClearColumns
    <2>1. board' = board /\ OUTCLR(1, LED_MASK(1)) /\ out = [port \in {0, 1} |-> out[port]]
        BY <1>3 DEF ClearColumns, Refreshes, DisplayInv
    <2>2. QED
        BY <2>1, PinsChange
<1>4. CASE SetColumns
    <2>1. /\ board' = board /\ OUTSET(1, display_image[n + 1]) /\ refresh = "set columns"
          /\ out = [port \in {0, 1} |-> out[port]]
        BY <1>4 DEF SetColumns, Refreshes, DisplayInv
    <2>2. board = "V2" /\ RefreshInv /\ cleared = NIMG(board)
        BY <2>1 DEF DisplayInv, Spinning, RefreshInv
    <2>3. PICK k \in Rows(board) : n = Index(board, k, 0)
        BY <2>2 DEF RefreshInv
    <2>4. n + 1 = Index(board, k, 1)
        BY <2>2, <2>3, RowFacts DEF Rows, Index
    <2>5. display_image[n + 1] \subseteq LedPorts[board][1]
        BY <2>2, <2>4, WordFacts DEF Ports
    <2>6. QED
        BY <2>1, <2>5, PinsChange
<1>5. CASE SetRows
    <2>1. /\ board' = board /\ OUTSET(0, display_image[n]) /\ refresh = "set rows"
          /\ out = [port \in {0, 1} |-> out[port]]
        BY <1>5 DEF SetRows, Refreshes, DisplayInv
    <2>2. RefreshInv /\ cleared = NIMG(board)
        BY <2>1 DEF DisplayInv, Spinning, RefreshInv
    <2>3. PICK k \in Rows(board) : n = Index(board, k, 0)
        BY <2>2 DEF RefreshInv
    <2>4. display_image[n] \subseteq LedPorts[board][0]
        BY <2>2, <2>3, WordFacts DEF Ports
    <2>5. QED
        BY <2>1, <2>4, PinsChange
<1>6. UNCHANGED out \/ ClearRows \/ ClearColumns \/ SetColumns \/ SetRows
    <2>1. ClearWord \/ Ping \/ Panic \/ CopyWord \/ (\E picture \in UrgentPictures : ShowAtOnce(picture))
             \/ (\E picture \in Pictures : BeginShow(picture)) \/ UNCHANGED displayVars
          => UNCHANGED out
        BY DEF ClearWord, Ping, Panic, CopyWord, CopyWordOf, ShowAtOnce, BeginShow, displayVars, refreshVars
    <2>2. ~spin
        BY DEF spin, SpinRow, SpinColumns, SpinDelay, SpinDark, Spinning
    <2>3. QED
        BY <2>1, <2>2 DEF DisplayNext, display_task
<1>7. QED
    BY <1>1, <1>2, <1>3, <1>4, <1>5, <1>6

\* From before the task clears its image on: what the LEDs show is what was drawn
\* and copied, the driver touches nothing but their pins, and a panic shows the
\* stars whatever was on show before.
THEOREM PicturesAreRight == DisplaySpec /\ ImageSpec => PicturesRight
<1>1. DisplayInv => NoGhosting /\ ImageIsLatest /\ SevenStars
    BY InvNoGhosting, InvImage, InvSevenStars
<1>2. DisplayInv /\ [DisplayNext]_displayVars =>
        [refresh' \notin Spinning =>
            \A p \in {0, 1} :
               out'[p] \ LedPorts[board][p] = out[p] \ LedPorts[board][p]]_displayVars
    BY OthersLeft
<1>3. DisplaySpec => OtherPinsAlone
    BY <1>2, DisplayInvariance, PTL DEF DisplaySpec, OtherPinsAlone
<1>4. QED
    BY <1>1, <1>3, DisplayInvariance, DrawingsAgree, PTL DEF PicturesRight
=============================================================================
