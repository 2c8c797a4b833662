------------------------- MODULE TimerDriverProofs --------------------------
(***************************************************************************)
(* Theorems of TimerDriver: the task and a client never wait for each      *)
(* other, no delay ends early, and the task panics only when every slot is *)
(* taken.  All rest on one invariant, which says for each slot what its    *)
(* client is doing, up to the moment after the PING of a delay, when the   *)
(* client may already be in its next call.                                 *)
(***************************************************************************)
EXTENDS TimerDriver, Micros, ListFacts, FiniteSetTheorems, TLAPS

\* The PING of a delay has been sent, and its slot is about to be freed.
Clearing(i) == task = "sent" /\ slot = i /\ period[i] = 0

\* What is left of a delay.
Counts(i) == due[i] = asked[client[i]] - (age[client[i]] - sub)

Served(i) ==
    LET c == client[i] IN
    \/ period[i] > 0 /\ repeats[c] /\ st[c] # "registering"
    \/ Clearing(i) /\ st[c] = "running" /\ ~repeats[c]
    \/ Clearing(i) /\ st[c] = "registering"
    \/ /\ period[i] = 0 /\ ~Clearing(i)
       /\ ~repeats[c] /\ st[c] \in {"registered", "waiting"}
       /\ Counts(i)

OneSlotEach == \A i, j \in Used : client[i] = client[j] => i = j

SlotsServed == \A i \in Used : Served(i)

\* The slot that the task sends to, or has just sent to.
SendsToClient ==
    /\ task \in {"sending", "sent"} => slot \in Used
    /\ task = "sending" => IsDue(slot) /\ st[client[slot]] # "waiting"

\* The client whose request is being handled has no slot, and cannot make
\* another request.
RequestServed ==
    IF task \in {"creating", "panicked"}
    THEN /\ request \in Clients
         /\ \A i \in Used : client[i] # request
         /\ st[request] # "registering"
         /\ st[request] = "running" => repeats[request]
    ELSE request = Nobody

QueueServed == Lists(queue, {c \in Clients : st[c] = "registering"})

\* A client that has asked for nothing yet is in no call.
NothingAsked ==
    \A c \in Clients : asked[c] = 0 => st[c] = "running" /\ ~repeats[c]

IInv ==
    /\ TypeOK
    /\ OneSlotEach
    /\ SlotsServed
    /\ SendsToClient
    /\ RequestServed
    /\ QueueServed
    /\ NothingAsked

-----------------------------------------------------------------------------
(* Steps of the invariant *)

LEMMA Modulo ==
    ASSUME NEW n \in Nat, NEW k \in Nat \ {0}
    PROVE  /\ n % k \in 0 .. k - 1
           /\ n < k => n % k = n
           /\ n = k => n % k = 0
OBVIOUS

LEMMA InitInv ==
    ASSUME Init
    PROVE  IInv
<1>1. Used = {}
  BY DEF Init, Used
<1>2. QueueServed
  <2>1. {c \in Clients : st[c] = "registering"} = {}
    BY DEF Init
  <2> QED BY <2>1, ListsNone DEF Init, QueueServed
<1>3. TypeOK
  <2>1. 1 \in Slots /\ 0 \in 0 .. TICK - 1
    BY DriverAssumption DEF Slots
  <2>2. queue \in Seq(Clients)
    BY EmptySeq DEF Init
  <2>3. /\ client \in [Slots -> Clients \cup {Nobody}]
        /\ period \in [Slots -> Delays \cup {0}]
        /\ due \in [Slots -> Int]
    BY DEF Init
  <2>4. /\ asked \in [Clients -> Delays \cup {0}]
        /\ repeats \in [Clients -> BOOLEAN]
        /\ age \in [Clients -> Nat]
        /\ st \in [Clients -> {"running", "registering", "registered", "waiting"}]
    BY DEF Init
  <2>5. task \in TaskStates /\ sub \in 0 .. TICK - 1
    BY <2>1 DEF Init, TaskStates
  <2> QED BY <2>1, <2>2, <2>3, <2>4, <2>5 DEF Init, TypeOK
<1> QED
  BY <1>1, <1>2, <1>3
     DEF Init, IInv, OneSlotEach, SlotsServed, SendsToClient, RequestServed,
         NothingAsked

\* The client of a used slot.
LEMMA ClientOfSlot ==
    ASSUME TypeOK, NEW i \in Used
    PROVE  i \in Slots /\ client[i] \in Clients
BY DEF TypeOK, Used

LEMMA Numbers ==
    ASSUME TypeOK
    PROVE  /\ sub \in Nat /\ sub < TICK
           /\ \A c \in Clients : age[c] \in Nat /\ asked[c] \in Nat
           /\ \A i \in Slots : due[i] \in Int /\ period[i] \in Nat
<1>1. sub \in Nat /\ sub < TICK
  BY DriverAssumption DEF TypeOK
<1>2. \A c \in Clients : age[c] \in Nat /\ asked[c] \in Delays \cup {0}
  BY DEF TypeOK
<1>3. \A i \in Slots : due[i] \in Int /\ period[i] \in Delays \cup {0}
  BY DEF TypeOK
<1>4. \A x \in Delays \cup {0} : x \in Nat
  BY DriverAssumption
<1> QED BY <1>1, <1>2, <1>3, <1>4

LEMMA PassInv ==
    ASSUME IInv, Pass
    PROVE  IInv'
<1> USE DEF IInv
<1>1. Used' = Used /\ UNCHANGED <<client, period, request, queue, st, asked, repeats>>
  BY DEF Pass, Used, clientVars
<1>2. \A c \in Clients : age'[c] \in Nat
  <2> SUFFICES ASSUME NEW c \in Clients PROVE Aged(c) \in Nat
    BY DEF Pass
  <2>1. CASE \A i \in Used : client[i] # c
    BY <2>1 DEF Aged
  <2>2. CASE repeats[c]
    <3>1. asked[c] \in Nat \ {0}
      <4>1. asked[c] \in Delays \cup {0}
        BY DEF TypeOK
      <4> QED BY <2>2, <4>1, DriverAssumption DEF NothingAsked
    <3>2. (age[c] + 1) % asked[c] \in Nat
      <4>1. age[c] + 1 \in Nat
        BY DEF TypeOK
      <4> QED BY <3>1, <4>1, Modulo
    <3> QED BY <2>2, <3>2 DEF Aged
  <2>3. CASE ~repeats[c]
    BY <2>3 DEF Aged, TypeOK
  <2> QED BY <2>2, <2>3
<1>3. sub' \in 0 .. TICK - 1
  BY DriverAssumption DEF Pass, TypeOK
<1>4. due' \in [Slots -> Int]
  BY DriverAssumption DEF Pass, Expiry, TypeOK
<1>5. /\ task' \in TaskStates /\ slot' \in Slots
      /\ task' # task => task = "waiting" /\ task' = "checking"
      /\ task' = task => slot' = slot
      /\ pending' \in BOOLEAN /\ lost' \in BOOLEAN /\ passed' \in BOOLEAN
  <2>1. passed' \in BOOLEAN
    BY DEF Pass, Busy
  <2>2. CASE sub = TICK - 1 /\ task = "waiting"
    <3>1. task' = "checking" /\ slot' = 1 /\ pending' = pending /\ lost' = lost
      BY <2>2 DEF Pass, Expiry
    <3> QED BY <2>1, <2>2, <3>1, DriverAssumption DEF TypeOK, TaskStates, Slots
  <2>3. CASE sub = TICK - 1 /\ task # "waiting"
    <3>1. task' = task /\ slot' = slot /\ pending' = TRUE /\ lost' = (lost \/ pending)
      BY <2>3 DEF Pass, Expiry
    <3> QED BY <2>1, <2>3, <3>1 DEF TypeOK
  <2>4. CASE sub # TICK - 1
    <3>1. UNCHANGED <<task, slot, pending, lost>>
      BY <2>4 DEF Pass
    <3> QED BY <2>1, <3>1 DEF TypeOK
  <2> QED BY <2>2, <2>3, <2>4
<1>6. TypeOK'
  <2>1. age' \in [Clients -> Nat]
    BY <1>2 DEF Pass
  <2> QED BY <1>1, <1>3, <1>4, <1>5, <2>1 DEF TypeOK
<1>7. SlotsServed'
  <2> SUFFICES ASSUME NEW i \in Used PROVE Served(i)'
    BY <1>1 DEF SlotsServed
  <2> DEFINE c == client[i]
  <2>1. i \in Slots /\ c \in Clients
    BY ClientOfSlot
  <2>2. Clearing(i)' = Clearing(i)
    BY <1>1, <1>5 DEF Clearing
  <2>3. ASSUME ~repeats[c], Counts(i) PROVE Counts(i)'
    <3>1. age'[c] = age[c] + 1
      BY <2>1, <2>3 DEF Pass, Aged
    <3>2. CASE sub = TICK - 1
      <4>1. due'[i] = due[i] - TICK
        BY <2>1, <3>2 DEF Pass, Expiry
      <4>2. sub' = 0
        BY <3>2, DriverAssumption, Modulo DEF Pass
      <4>3. age[c] \in Nat /\ asked[c] \in Nat /\ due[i] \in Int
        BY <2>1, Numbers
      <4>4. due[i] - TICK = asked[c] - (age[c] + 1 - 0)
        BY <2>3, <3>2, <4>3, DriverAssumption DEF Counts
      <4> QED BY <1>1, <3>1, <4>1, <4>2, <4>3, <4>4 DEF Counts
    <3>3. CASE sub # TICK - 1
      <4>1. due'[i] = due[i]
        BY <3>3 DEF Pass
      <4>2. sub' = sub + 1
        <5>1. sub + 1 \in Nat /\ sub + 1 < TICK
          BY <3>3, Numbers, DriverAssumption
        <5> QED BY <5>1, DriverAssumption, Modulo DEF Pass
      <4>3. age[c] \in Nat /\ asked[c] \in Nat /\ sub \in Nat
        BY <2>1, Numbers
      <4>4. due[i] = asked[c] - (age[c] + 1 - (sub + 1))
        BY <2>3, <4>3 DEF Counts
      <4> QED BY <1>1, <3>1, <4>1, <4>2, <4>3, <4>4 DEF Counts
    <3> QED BY <3>2, <3>3
  <2> QED BY <1>1, <2>2, <2>3 DEF SlotsServed, Served
<1>8. SendsToClient'
  <2>1. ASSUME task = "sending" PROVE IsDue(slot)'
    <3>1. slot \in Used /\ slot' = slot /\ due[slot] <= 0
      BY <1>5, <2>1 DEF SendsToClient, IsDue
    <3>2. due'[slot] <= due[slot]
      BY <3>1, ClientOfSlot, DriverAssumption DEF Pass, Expiry, TypeOK
    <3> QED BY <1>1, <1>4, <3>1, <3>2, ClientOfSlot DEF IsDue, Used, TypeOK
  <2> QED BY <1>1, <1>5, <2>1 DEF SendsToClient
<1> QED
  BY <1>1, <1>5, <1>6, <1>7, <1>8
     DEF OneSlotEach, RequestServed, QueueServed, NothingAsked

\* Before the task takes a request, the client that makes it has no slot.
LEMMA NoSlot ==
    ASSUME IInv, task \in {"waiting", "ready"}, NEW c \in Clients,
           \/ st[c] = "registering"
           \/ st[c] = "running" /\ ~repeats[c]
    PROVE  \A i \in Used : client[i] # c
<1> SUFFICES ASSUME NEW i \in Used, client[i] = c PROVE FALSE
  OBVIOUS
<1>1. Served(i) /\ ~Clearing(i)
  BY DEF IInv, SlotsServed, Clearing
<1> QED BY <1>1 DEF Served

\* Steps of the task that leave the table and the clients alone.
LEMMA TableKept ==
    ASSUME IInv, UNCHANGED <<table, sub, age, asked, repeats>>,
           \A c \in Clients : st'[c] = st[c],
           task # "sent", task' # "sent"
    PROVE  OneSlotEach' /\ SlotsServed' /\ Used' = Used
<1>1. Used' = Used /\ UNCHANGED <<client, period, due>>
  BY DEF table, Used
<1>2. OneSlotEach'
  BY <1>1 DEF IInv, OneSlotEach
<1>3. ASSUME NEW i \in Used PROVE Served(i)'
  <2>1. i \in Slots /\ client[i] \in Clients
    BY ClientOfSlot DEF IInv
  <2>2. Served(i) /\ ~Clearing(i) /\ ~Clearing(i)'
    BY DEF IInv, SlotsServed, Clearing
  <2> QED BY <1>1, <2>1, <2>2 DEF Served, Counts
<1> QED BY <1>1, <1>2, <1>3 DEF SlotsServed

LEMMA ReceiveInv ==
    ASSUME IInv, Receive
    PROVE  IInv'
<1>0. /\ UNCHANGED <<table, sub, age, asked, repeats, lost>>
      /\ UNCHANGED <<client, period, due>>
      /\ task = "ready" /\ request = Nobody /\ Used' = Used
  BY DEF Receive, IInv, RequestServed, table, Used
<1>1. CASE /\ pending /\ pending' = FALSE /\ slot' = 1 /\ Goes("checking")
           /\ UNCHANGED <<request, queue, st>>
  <2>1. TypeOK'
    <3>1. task' \in TaskStates /\ passed' \in BOOLEAN
      BY <1>1 DEF Goes, TaskStates, Busy
    <3>2. slot' \in Slots
      BY <1>1, DriverAssumption DEF Slots
    <3> QED BY <1>0, <1>1, <3>1, <3>2 DEF IInv, TypeOK
  <2>2. OneSlotEach' /\ SlotsServed'
    BY <1>0, <1>1, TableKept DEF Goes
  <2> QED
    BY <1>0, <1>1, <2>1, <2>2
       DEF IInv, Goes, SendsToClient, RequestServed, QueueServed, NothingAsked
<1>2. CASE /\ ~pending /\ queue # <<>> /\ request' = Head(queue)
           /\ queue' = Tail(queue)
           /\ st' = [st EXCEPT ![Head(queue)] = "registered"]
           /\ Goes("creating") /\ UNCHANGED <<slot, pending>>
  <2> DEFINE c == Head(queue)
             S == {d \in Clients : st[d] = "registering"}
  <2>1. c \in S /\ Lists(queue', S \ {c})
    BY <1>2, ListsTail DEF IInv, QueueServed
  <2>2. c \in Clients /\ st[c] = "registering"
    BY <2>1
  <2>3. /\ st' \in [Clients -> {"running", "registering", "registered", "waiting"}]
        /\ st'[c] = "registered"
        /\ \A d \in Clients : d # c => st'[d] = st[d]
    BY <1>2, <2>2 DEF IInv, TypeOK
  <2>4. QueueServed'
    <3>1. {d \in Clients : st'[d] = "registering"} = S \ {c}
      BY <2>2, <2>3
    <3> QED BY <2>1, <3>1 DEF QueueServed
  <2>5. \A i \in Used : client[i] # c
    BY <1>0, <2>2, NoSlot
  <2>6. TypeOK'
    <3>1. queue' \in Seq(Clients)
      <4>1. queue' \in Seq(S \ {c}) /\ S \ {c} \subseteq Clients
        BY <2>1 DEF Lists
      <4> QED BY <4>1
    <3> QED BY <1>0, <1>2, <2>2, <2>3, <3>1 DEF IInv, TypeOK, Goes, TaskStates, Busy
  <2>7. OneSlotEach'
    BY <1>0 DEF IInv, OneSlotEach
  <2>8. ASSUME NEW i \in Used PROVE Served(i)'
    <3>1. client[i] \in Clients /\ client[i] # c
      BY <2>5, ClientOfSlot DEF IInv
    <3>2. st'[client[i]] = st[client[i]]
      BY <2>3, <3>1
    <3>3. Served(i) /\ ~Clearing(i) /\ ~Clearing(i)'
      BY <1>0, <1>2 DEF IInv, SlotsServed, Clearing, Goes
    <3> QED BY <1>0, <3>2, <3>3 DEF Served, Counts
  <2>9. RequestServed'
    BY <1>0, <1>2, <2>2, <2>3, <2>5 DEF RequestServed, Goes
  <2>10. NothingAsked'
    BY <1>0, <2>2, <2>3 DEF IInv, NothingAsked
  <2>11. SendsToClient' /\ SlotsServed'
    BY <1>0, <1>2, <2>8 DEF SendsToClient, SlotsServed, Goes
  <2> QED BY <2>4, <2>6, <2>7, <2>9, <2>10, <2>11 DEF IInv
<1>3. CASE /\ ~pending /\ queue = <<>> /\ Goes("waiting")
           /\ UNCHANGED <<slot, request, queue, pending, st>>
  <2>1. TypeOK'
    BY <1>0, <1>3 DEF IInv, TypeOK, Goes, TaskStates, Busy
  <2>2. OneSlotEach' /\ SlotsServed'
    BY <1>0, <1>3, TableKept DEF Goes
  <2> QED
    BY <1>0, <1>3, <2>1, <2>2
       DEF IInv, Goes, SendsToClient, RequestServed, QueueServed, NothingAsked
<1> QED BY <1>1, <1>2, <1>3 DEF Receive

LEMMA CreateInv ==
    ASSUME IInv, Create
    PROVE  IInv'
<1> DEFINE c == request
           delay == asked[c]
           repeat == IF repeats[c] THEN delay ELSE 0
<1>0. /\ task = "creating" /\ task' = "ready" /\ request' = Nobody
      /\ passed' \in BOOLEAN
      /\ UNCHANGED <<slot, queue, pending, st, asked, repeats, sub, lost>>
  BY DEF Create, Goes, clientVars, Busy, IInv, TypeOK
<1>1. PICK j \in Slots :
         /\ IsFirst(j, Slots \ Used)
         /\ client' = [client EXCEPT ![j] = c]
         /\ due' = [due EXCEPT ![j] = delay]
         /\ period' = [period EXCEPT ![j] = repeat]
  BY DEF Create, create
<1>2. j \notin Used
  BY <1>1 DEF IsFirst
<1>3. /\ c \in Clients /\ \A i \in Used : client[i] # c
      /\ st[c] # "registering"
      /\ st[c] = "running" => repeats[c]
  BY <1>0 DEF IInv, RequestServed
<1>4. delay \in Delays /\ delay \in Nat /\ delay # 0
  <2>1. delay \in Delays \cup {0} /\ st[c] \in {"running", "registering", "registered", "waiting"}
    BY <1>3 DEF IInv, TypeOK
  <2> QED BY <1>3, <2>1, DriverAssumption DEF IInv, NothingAsked
<1>5. /\ client' \in [Slots -> Clients \cup {Nobody}]
      /\ client'[j] = c /\ due'[j] = delay /\ period'[j] = repeat
      /\ \A i \in Slots \ {j} : /\ client'[i] = client[i]
                               /\ due'[i] = due[i]
                               /\ period'[i] = period[i]
  BY <1>1, <1>3 DEF IInv, TypeOK
<1>6. Used' = Used \cup {j}
  BY <1>3, <1>5, NobodyAssumption DEF Used
<1>7. /\ age' \in [Clients -> Nat]
      /\ ~repeats[c] => age'[c] = sub
      /\ \A d \in Clients \ {c} : age'[d] = age[d]
  <2>1. sub \in Nat /\ sub % delay \in Nat
    <3>1. sub \in Nat
      BY Numbers DEF IInv
    <3>2. delay \in Nat \ {0}
      BY <1>4
    <3> HIDE DEF delay
    <3> QED BY <3>1, <3>2, Modulo
  <2> QED BY <1>3, <2>1 DEF Create, IInv, TypeOK
<1>8. TypeOK'
  <2>1. /\ due' \in [Slots -> Int]
        /\ period' \in [Slots -> Delays \cup {0}]
    BY <1>1, <1>4 DEF IInv, TypeOK
  <2> QED BY <1>0, <1>5, <1>7, <2>1 DEF IInv, TypeOK, TaskStates
<1>9. OneSlotEach'
  BY <1>2, <1>3, <1>5, <1>6, ClientOfSlot DEF IInv, OneSlotEach, Used
<1>10. ASSUME NEW i \in Used PROVE Served(i)'
  <2>1. i \in Slots /\ i # j /\ client[i] \in Clients /\ client[i] # c
    BY <1>2, <1>3, ClientOfSlot DEF IInv
  <2>2. Served(i) /\ ~Clearing(i) /\ ~Clearing(i)'
    BY <1>0 DEF IInv, SlotsServed, Clearing
  <2>3. age'[client[i]] = age[client[i]]
    BY <1>7, <2>1
  <2> QED BY <1>0, <1>5, <2>1, <2>2, <2>3 DEF Served, Counts
<1>11. Served(j)'
  <2>1. CASE repeats[c]
    <3>1. period'[j] > 0
      BY <1>4, <1>5, <2>1
    <3>2. client'[j] = c /\ repeats'[c] /\ st'[c] # "registering"
      BY <1>0, <1>3, <1>5, <2>1
    <3> QED BY <3>1, <3>2 DEF Served
  <2>2. CASE ~repeats[c]
    <3>1. st[c] \in {"registered", "waiting"}
      <4>1. st[c] \in {"running", "registering", "registered", "waiting"}
        BY <1>3 DEF IInv, TypeOK
      <4> QED BY <1>3, <2>2, <4>1
    <3>2. Counts(j)'
      <4>1. delay = delay - (sub - sub)
        BY <1>4, Numbers DEF IInv
      <4> QED BY <1>0, <1>5, <1>7, <2>2, <4>1 DEF Counts
    <3> QED BY <1>0, <1>5, <2>2, <3>1, <3>2 DEF Served, Clearing
  <2> QED BY <2>1, <2>2
<1> QED
  BY <1>0, <1>6, <1>8, <1>9, <1>10, <1>11
     DEF IInv, SlotsServed, SendsToClient, RequestServed, QueueServed,
         NothingAsked

LEMMA TooManyInv ==
    ASSUME IInv, TooManyTimers
    PROVE  IInv'
<1>1. /\ task = "creating" /\ task' = "panicked"
      /\ UNCHANGED <<table, slot, request, queue, pending, clientVars, clockVars>>
  BY DEF TooManyTimers
<1>2. UNCHANGED <<client, period, due, st, asked, repeats, sub, age, passed, lost>>
  BY <1>1 DEF table, clientVars, clockVars
<1>3. TypeOK'
  BY <1>1, <1>2 DEF IInv, TypeOK, TaskStates
<1>4. OneSlotEach' /\ SlotsServed' /\ Used' = Used
  BY <1>1, <1>2, TableKept
<1> QED
  BY <1>1, <1>2, <1>3, <1>4
     DEF IInv, SendsToClient, RequestServed, QueueServed, NothingAsked

\* Where the loop of check_timers() goes from a slot.
LEMMA NextSlotGoes ==
    ASSUME TypeOK, NextSlot
    PROVE  /\ task' \in {"checking", "ready"}
           /\ slot' \in Slots
           /\ passed' \in BOOLEAN
BY DriverAssumption DEF TypeOK, NextSlot, Goes, Busy, Slots

LEMMA CheckInv ==
    ASSUME IInv, Check
    PROVE  IInv'
<1>0. /\ task = "checking"
      /\ UNCHANGED <<client, period, due, request, queue, pending, asked, repeats,
                     sub, age, lost>>
      /\ Used' = Used /\ OneSlotEach'
  BY DEF Check, table, Used, IInv, OneSlotEach
<1>1. CASE ~IsDue(slot) /\ NextSlot /\ UNCHANGED st
  <2>1. task' \in {"checking", "ready"} /\ slot' \in Slots /\ passed' \in BOOLEAN
    BY <1>1, NextSlotGoes DEF IInv
  <2>2. TypeOK'
    BY <1>0, <1>1, <2>1 DEF IInv, TypeOK, TaskStates
  <2>3. SlotsServed'
    BY <1>0, <1>1, <2>1, TableKept DEF table
  <2> QED
    BY <1>0, <1>1, <2>1, <2>2, <2>3
       DEF IInv, SendsToClient, RequestServed, QueueServed, NothingAsked
<1> DEFINE c == client[slot]
<1>2. ASSUME IsDue(slot)
      PROVE  /\ slot \in Used /\ c \in Clients /\ Served(slot)
             /\ \A i \in Used : i # slot => client[i] # c
  <2>1. slot \in Used
    BY <1>2 DEF IsDue, Used, IInv, TypeOK
  <2> QED BY <2>1, ClientOfSlot DEF IInv, SlotsServed, OneSlotEach
<1>3. CASE /\ IsDue(slot) /\ st[c] = "waiting"
           /\ st' = [st EXCEPT ![c] = "running"]
           /\ Goes("sent") /\ UNCHANGED slot
  <2>1. /\ task' = "sent" /\ slot' = slot /\ passed' \in BOOLEAN
        /\ slot \in Used /\ c \in Clients /\ Served(slot)
        /\ \A i \in Used : i # slot => client[i] # c
    BY <1>2, <1>3 DEF Goes, Busy
  <2>2. /\ st' \in [Clients -> {"running", "registering", "registered", "waiting"}]
        /\ st'[c] = "running"
        /\ \A d \in Clients : d # c => st'[d] = st[d]
    BY <1>3, <2>1 DEF IInv, TypeOK
  <2>3. TypeOK'
    BY <1>0, <2>1, <2>2 DEF IInv, TypeOK, TaskStates
  <2>4. Served(slot)'
    <3>1. slot \in Slots /\ period[slot] \in Nat
      BY <2>1, ClientOfSlot, Numbers DEF IInv
    <3>2. CASE period[slot] > 0
      BY <1>0, <1>3, <2>1, <2>2, <3>1, <3>2 DEF Served, Clearing
    <3>3. CASE period[slot] = 0
      BY <1>0, <1>3, <2>1, <2>2, <3>3 DEF Served, Clearing
    <3> QED BY <3>1, <3>2, <3>3
  <2>5. ASSUME NEW i \in Used, i # slot PROVE Served(i)'
    <3>1. client[i] \in Clients /\ client[i] # c
      BY <2>1, <2>5, ClientOfSlot DEF IInv
    <3>2. st'[client[i]] = st[client[i]]
      BY <2>2, <3>1
    <3>3. Served(i) /\ ~Clearing(i) /\ ~Clearing(i)'
      BY <1>0, <2>1, <2>5 DEF IInv, SlotsServed, Clearing
    <3> QED BY <1>0, <3>2, <3>3 DEF Served, Counts
  <2>6. QueueServed'
    <3>1. {d \in Clients : st'[d] = "registering"} = {d \in Clients : st[d] = "registering"}
      BY <1>3, <2>1, <2>2
    <3> QED BY <1>0, <3>1 DEF IInv, QueueServed
  <2>7. NothingAsked'
    BY <1>0, <1>3, <2>1, <2>2 DEF IInv, NothingAsked
  <2>8. SendsToClient' /\ RequestServed' /\ SlotsServed'
    BY <1>0, <2>1, <2>4, <2>5 DEF IInv, SendsToClient, RequestServed, SlotsServed
  <2> QED BY <1>0, <2>3, <2>6, <2>7, <2>8 DEF IInv
<1>4. CASE IsDue(slot) /\ st[c] # "waiting" /\ Goes("sending") /\ UNCHANGED <<slot, st>>
  <2>1. task' = "sending" /\ passed' \in BOOLEAN
    BY <1>4 DEF Goes, Busy, IInv, TypeOK
  <2>2. TypeOK'
    BY <1>0, <1>4, <2>1 DEF IInv, TypeOK, TaskStates
  <2>3. SlotsServed'
    BY <1>0, <1>4, <2>1, TableKept DEF table
  <2>4. SendsToClient'
    BY <1>0, <1>2, <1>4, <2>1 DEF SendsToClient, IsDue
  <2> QED
    BY <1>0, <1>4, <2>1, <2>2, <2>3, <2>4
       DEF IInv, RequestServed, QueueServed, NothingAsked
<1> QED BY <1>1, <1>3, <1>4 DEF Check

LEMMA SentInv ==
    ASSUME IInv, Sent
    PROVE  IInv'
<1>0. /\ task = "sent" /\ NextSlot /\ Renew(slot)
      /\ UNCHANGED <<period, request, queue, pending, st, asked, repeats, sub, age, lost>>
  BY DEF Sent, clientVars
<1>1. task' \in {"checking", "ready"} /\ slot' \in Slots /\ passed' \in BOOLEAN
  BY <1>0, NextSlotGoes DEF IInv
<1>2. slot \in Used /\ slot \in Slots /\ period[slot] \in Nat /\ Served(slot)
  BY <1>0, Numbers DEF IInv, SendsToClient, SlotsServed, Used
<1>3. \A i \in Slots : i # slot => client'[i] = client[i] /\ due'[i] = due[i]
  BY <1>0 DEF Renew, IInv, TypeOK
<1>4. /\ client' \in [Slots -> Clients \cup {Nobody}]
      /\ due' \in [Slots -> Int]
  <2>1. due[slot] \in Int
    BY <1>2, Numbers DEF IInv
  <2> QED BY <1>0, <1>2, <2>1 DEF Renew, IInv, TypeOK
<1>5. TypeOK'
  BY <1>0, <1>1, <1>4 DEF IInv, TypeOK, TaskStates
<1>6. ASSUME NEW i \in Used, i # slot PROVE Served(i)'
  <2>1. i \in Slots /\ client'[i] = client[i] /\ due'[i] = due[i]
    BY <1>3, <1>6 DEF Used
  <2>2. Served(i) /\ ~Clearing(i) /\ ~Clearing(i)'
    BY <1>1, <1>6 DEF IInv, SlotsServed, Clearing
  <2> QED BY <1>0, <2>1, <2>2 DEF Served, Counts
<1>7. CASE period[slot] > 0
  <2>1. client' = client /\ Used' = Used
    BY <1>0, <1>2, <1>7 DEF Renew, IInv, TypeOK, Used
  <2>2. ASSUME NEW i \in Used, i = slot PROVE Served(i)'
    BY <1>0, <1>2, <1>7, <2>1, <2>2 DEF Served, Clearing
  <2>3. SlotsServed' /\ OneSlotEach'
    BY <1>6, <2>1, <2>2 DEF IInv, SlotsServed, OneSlotEach
  <2> QED
    BY <1>0, <1>1, <1>5, <2>1, <2>3
       DEF IInv, SendsToClient, RequestServed, QueueServed, NothingAsked
<1>8. CASE period[slot] = 0
  <2>1. client'[slot] = Nobody
    BY <1>0, <1>2, <1>8 DEF Renew, IInv, TypeOK
  <2>2. Used' = Used \ {slot}
    BY <1>3, <2>1 DEF Used
  <2>3. OneSlotEach' /\ SlotsServed'
    BY <1>3, <1>6, <2>2 DEF IInv, OneSlotEach, SlotsServed, Used
  <2> QED
    BY <1>0, <1>1, <1>5, <2>3
       DEF IInv, SendsToClient, RequestServed, QueueServed, NothingAsked
<1> QED BY <1>2, <1>7, <1>8

\* A client whose step leaves the table and the task's place alone keeps
\* every other client's slot as it is.
LEMMA OthersServed ==
    ASSUME IInv, NEW c \in Clients,
           UNCHANGED <<table, slot, sub, age>>,
           \A d \in Clients \ {c} : /\ st'[d] = st[d]
                                   /\ asked'[d] = asked[d]
                                   /\ repeats'[d] = repeats[d],
           NEW i \in Used, client[i] # c,
           Clearing(i)' = Clearing(i)
    PROVE  Served(i)'
<1>1. client[i] \in Clients \ {c} /\ Served(i)
  BY ClientOfSlot DEF IInv, SlotsServed
<1>2. UNCHANGED <<client, period, due, slot, sub, age>>
  BY DEF table
<1> QED BY <1>1, <1>2 DEF Served, Counts

LEMMA RegisterInv ==
    ASSUME IInv, NEW c \in Clients, NEW ms \in Delays, NEW repeat \in BOOLEAN,
           Register(c, ms, repeat)
    PROVE  IInv'
<1>0. /\ st[c] = "running" /\ ~repeats[c] /\ task # "panicked"
      /\ UNCHANGED <<client, period, due, slot, pending, sub, age, passed, lost>>
      /\ UNCHANGED table
      /\ Used' = Used /\ OneSlotEach'
  BY DEF Register, table, clockVars, Used, IInv, OneSlotEach
<1>1. /\ asked' \in [Clients -> Delays \cup {0}]
      /\ repeats' \in [Clients -> BOOLEAN]
      /\ asked'[c] = ms /\ repeats'[c] = repeat
      /\ \A d \in Clients \ {c} : asked'[d] = asked[d] /\ repeats'[d] = repeats[d]
  BY DEF Register, IInv, TypeOK
<1>2. ms # 0
  BY DriverAssumption
<1>3. CASE task = "waiting"
  <2>1. /\ st' = [st EXCEPT ![c] = "registered"]
        /\ task' = "creating" /\ request' = c /\ queue' = queue
    BY <1>3 DEF Register
  <2>2. /\ st' \in [Clients -> {"running", "registering", "registered", "waiting"}]
        /\ st'[c] = "registered"
        /\ \A d \in Clients \ {c} : st'[d] = st[d]
    BY <2>1 DEF IInv, TypeOK
  <2>3. \A i \in Used : client[i] # c
    BY <1>0, <1>3, NoSlot
  <2>4. TypeOK'
    BY <1>0, <1>1, <2>1, <2>2 DEF IInv, TypeOK, TaskStates
  <2>5. SlotsServed'
    <3> SUFFICES ASSUME NEW i \in Used PROVE Served(i)'
      BY <1>0 DEF SlotsServed
    <3>1. Clearing(i)' = Clearing(i)
      BY <1>3, <2>1 DEF Clearing
    <3> QED BY <1>0, <1>1, <2>2, <2>3, <3>1, OthersServed
  <2>6. QueueServed'
    <3>1. {d \in Clients : st'[d] = "registering"} = {d \in Clients : st[d] = "registering"}
      BY <1>0, <2>2
    <3> QED BY <2>1, <3>1 DEF IInv, QueueServed
  <2>7. RequestServed' /\ SendsToClient'
    BY <1>0, <2>1, <2>2, <2>3 DEF RequestServed, SendsToClient
  <2>8. NothingAsked'
    BY <1>1, <1>2, <2>2 DEF IInv, NothingAsked
  <2> QED BY <1>0, <2>4, <2>5, <2>6, <2>7, <2>8 DEF IInv
<1>4. CASE task # "waiting"
  <2>1. /\ st' = [st EXCEPT ![c] = "registering"]
        /\ queue' = Append(queue, c) /\ UNCHANGED <<task, request>>
    BY <1>4 DEF Register
  <2>2. /\ st' \in [Clients -> {"running", "registering", "registered", "waiting"}]
        /\ st'[c] = "registering"
        /\ \A d \in Clients \ {c} : st'[d] = st[d]
    BY <2>1 DEF IInv, TypeOK
  <2>3. TypeOK'
    <3>1. queue' \in Seq(Clients)
      BY <2>1 DEF IInv, TypeOK
    <3> QED BY <1>0, <1>1, <2>1, <2>2, <3>1 DEF IInv, TypeOK
  <2>4. SlotsServed'
    <3> SUFFICES ASSUME NEW i \in Used PROVE Served(i)'
      BY <1>0 DEF SlotsServed
    <3>1. Clearing(i)' = Clearing(i)
      BY <1>0, <2>1 DEF Clearing
    <3>2. CASE client[i] # c
      BY <1>0, <1>1, <2>2, <3>1, <3>2, OthersServed
    <3>3. CASE client[i] = c
      <4>1. Served(i)
        BY DEF IInv, SlotsServed
      <4>2. Clearing(i)
        BY <1>0, <3>3, <4>1 DEF Served
      <4> QED BY <1>0, <2>2, <3>1, <3>3, <4>2 DEF Served
    <3> QED BY <3>2, <3>3
  <2>5. QueueServed'
    <3> DEFINE S == {d \in Clients : st[d] = "registering"}
    <3>1. {d \in Clients : st'[d] = "registering"} = S \cup {c} /\ c \notin S
      BY <1>0, <2>2
    <3>2. Lists(queue', S \cup {c})
      BY <2>1, <3>1, ListsAppend DEF IInv, QueueServed
    <3> QED BY <3>1, <3>2 DEF QueueServed
  <2>6. RequestServed'
    <3>1. CASE task = "creating"
      <4>1. request \in Clients \ {c}
        BY <1>0, <3>1 DEF IInv, RequestServed
      <4> QED BY <1>0, <1>1, <2>1, <2>2, <3>1, <4>1 DEF IInv, RequestServed
    <3>2. CASE task # "creating"
      BY <1>0, <2>1, <3>2 DEF IInv, RequestServed
    <3> QED BY <3>1, <3>2
  <2>7. SendsToClient'
    <3>1. ASSUME task = "sending" PROVE st'[client[slot]] # "waiting"
      <4>1. client[slot] \in Clients /\ st[client[slot]] # "waiting"
        BY <3>1, ClientOfSlot DEF IInv, SendsToClient
      <4> QED BY <2>2, <4>1
    <3> QED BY <1>0, <2>1, <3>1 DEF IInv, SendsToClient, IsDue
  <2>8. NothingAsked'
    BY <1>1, <1>2, <2>2 DEF IInv, NothingAsked
  <2> QED BY <1>0, <2>3, <2>4, <2>5, <2>6, <2>7, <2>8 DEF IInv
<1> QED BY <1>3, <1>4

LEMMA ProceedInv ==
    ASSUME IInv, NEW c \in Clients, Proceed(c)
    PROVE  IInv'
<1>0. /\ st[c] = "registered" /\ repeats[c]
      /\ UNCHANGED <<client, period, due, table, task, slot, request, queue, pending,
                     asked, repeats, sub, age, passed, lost>>
      /\ Used' = Used /\ OneSlotEach'
  BY DEF Proceed, table, taskVars, clockVars, Used, IInv, OneSlotEach
<1>1. /\ st' \in [Clients -> {"running", "registering", "registered", "waiting"}]
      /\ st'[c] = "running"
      /\ \A d \in Clients \ {c} : st'[d] = st[d]
  BY DEF Proceed, IInv, TypeOK
<1>2. TypeOK'
  BY <1>0, <1>1 DEF IInv, TypeOK
<1>3. SlotsServed'
  <2> SUFFICES ASSUME NEW i \in Used PROVE Served(i)'
    BY <1>0 DEF SlotsServed
  <2>1. Clearing(i)' = Clearing(i)
    BY <1>0 DEF Clearing
  <2>2. CASE client[i] # c
    BY <1>0, <1>1, <2>1, <2>2, OthersServed
  <2>3. CASE client[i] = c
    <3>1. Served(i)
      BY DEF IInv, SlotsServed
    <3> QED BY <1>0, <1>1, <2>3, <3>1 DEF Served
  <2> QED BY <2>2, <2>3
<1>4. QueueServed'
  <2>1. {d \in Clients : st'[d] = "registering"} = {d \in Clients : st[d] = "registering"}
    BY <1>0, <1>1
  <2> QED BY <1>0, <2>1 DEF IInv, QueueServed
<1>5. RequestServed'
  BY <1>0, <1>1 DEF IInv, RequestServed
<1>6. SendsToClient'
  <2>1. ASSUME task = "sending" PROVE st'[client[slot]] # "waiting"
    <3>1. client[slot] \in Clients /\ st[client[slot]] # "waiting"
      BY <2>1, ClientOfSlot DEF IInv, SendsToClient
    <3> QED BY <1>1, <3>1
  <2> QED BY <1>0, <2>1 DEF IInv, SendsToClient, IsDue
<1>7. NothingAsked'
  BY <1>0, <1>1 DEF IInv, NothingAsked
<1> QED BY <1>0, <1>2, <1>3, <1>4, <1>5, <1>6, <1>7 DEF IInv

LEMMA WaitInv ==
    ASSUME IInv, NEW c \in Clients, Wait(c)
    PROVE  IInv'
<1>0. /\ repeats[c] => st[c] = "running"
      /\ ~repeats[c] => st[c] = "registered"
      /\ UNCHANGED <<client, period, due, table, slot, request, queue, pending,
                     asked, repeats, sub, age, passed, lost>>
      /\ Used' = Used /\ OneSlotEach'
  BY DEF Wait, table, clockVars, Used, IInv, OneSlotEach
<1>1. \A i \in Used : client[i] = c => ~Clearing(i)
  <2> SUFFICES ASSUME NEW i \in Used, client[i] = c, Clearing(i) PROVE FALSE
    OBVIOUS
  <2>1. Served(i) /\ period[i] = 0
    BY DEF IInv, SlotsServed, Clearing
  <2> QED BY <1>0, <2>1 DEF Served
<1>2. CASE task = "sending" /\ client[slot] = c
  <2>1. st' = [st EXCEPT ![c] = "running"] /\ task' = "sent"
    BY <1>2 DEF Wait
  <2>2. /\ st' \in [Clients -> {"running", "registering", "registered", "waiting"}]
        /\ st'[c] = "running"
        /\ \A d \in Clients \ {c} : st'[d] = st[d]
    BY <2>1 DEF IInv, TypeOK
  <2>3. TypeOK'
    BY <1>0, <2>1, <2>2 DEF IInv, TypeOK, TaskStates
  <2>4. slot \in Used
    BY <1>2 DEF IInv, SendsToClient
  <2>5. SlotsServed'
    <3> SUFFICES ASSUME NEW i \in Used PROVE Served(i)'
      BY <1>0 DEF SlotsServed
    <3>1. CASE i # slot
      <4>1. client[i] # c
        BY <1>2, <2>4, <3>1 DEF IInv, OneSlotEach
      <4>2. Clearing(i)' = Clearing(i)
        BY <1>0, <1>2, <3>1 DEF Clearing
      <4> QED BY <1>0, <2>2, <4>1, <4>2, OthersServed
    <3>2. CASE i = slot
      <4>1. Served(i) /\ client[i] = c /\ period[i] \in Nat
        BY <1>2, <3>2, Numbers, ClientOfSlot DEF IInv, SlotsServed
      <4>2. CASE period[i] > 0
        BY <1>0, <2>2, <4>1, <4>2 DEF Served, Clearing
      <4>3. CASE period[i] = 0
        BY <1>0, <1>2, <2>1, <2>2, <3>2, <4>1, <4>3 DEF Served, Clearing
      <4> QED BY <4>1, <4>2, <4>3
    <3> QED BY <3>1, <3>2
  <2>6. QueueServed'
    <3>1. {d \in Clients : st'[d] = "registering"} = {d \in Clients : st[d] = "registering"}
      BY <1>0, <2>2
    <3> QED BY <1>0, <3>1 DEF IInv, QueueServed
  <2>7. NothingAsked'
    BY <1>0, <2>2 DEF IInv, NothingAsked
  <2>8. RequestServed' /\ SendsToClient'
    BY <1>0, <1>2, <2>1, <2>4 DEF IInv, RequestServed, SendsToClient
  <2> QED BY <1>0, <2>3, <2>5, <2>6, <2>7, <2>8 DEF IInv
<1>3. CASE ~(task = "sending" /\ client[slot] = c)
  <2>1. st' = [st EXCEPT ![c] = "waiting"] /\ task' = task
    BY <1>3 DEF Wait
  <2>2. /\ st' \in [Clients -> {"running", "registering", "registered", "waiting"}]
        /\ st'[c] = "waiting"
        /\ \A d \in Clients \ {c} : st'[d] = st[d]
    BY <2>1 DEF IInv, TypeOK
  <2>3. TypeOK'
    BY <1>0, <2>1, <2>2 DEF IInv, TypeOK
  <2>4. SlotsServed'
    <3> SUFFICES ASSUME NEW i \in Used PROVE Served(i)'
      BY <1>0 DEF SlotsServed
    <3>1. Clearing(i)' = Clearing(i)
      BY <1>0, <2>1 DEF Clearing
    <3>2. CASE client[i] # c
      BY <1>0, <2>2, <3>1, <3>2, OthersServed
    <3>3. CASE client[i] = c
      <4>1. Served(i) /\ ~Clearing(i)
        BY <1>1, <3>3 DEF IInv, SlotsServed
      <4> QED BY <1>0, <2>2, <3>1, <3>3, <4>1 DEF Served, Counts
    <3> QED BY <3>2, <3>3
  <2>5. QueueServed'
    <3>1. {d \in Clients : st'[d] = "registering"} = {d \in Clients : st[d] = "registering"}
      BY <1>0, <2>2
    <3> QED BY <1>0, <3>1 DEF IInv, QueueServed
  <2>6. RequestServed'
    BY <1>0, <2>1, <2>2 DEF IInv, RequestServed
  <2>7. SendsToClient'
    <3>1. ASSUME task = "sending" PROVE st'[client[slot]] # "waiting"
      <4>1. /\ client[slot] \in Clients \ {c}
            /\ st[client[slot]] # "waiting"
        BY <1>3, <3>1, ClientOfSlot DEF IInv, SendsToClient
      <4> QED BY <2>2, <4>1
    <3> QED BY <1>0, <2>1, <3>1 DEF IInv, SendsToClient, IsDue
  <2>8. NothingAsked'
    BY <1>0, <2>2 DEF IInv, NothingAsked
  <2> QED BY <1>0, <2>3, <2>4, <2>5, <2>6, <2>7, <2>8 DEF IInv
<1> QED BY <1>2, <1>3

LEMMA StutterInv ==
    ASSUME IInv, UNCHANGED vars
    PROVE  IInv'
<1>1. UNCHANGED <<client, period, due, task, slot, request, queue, pending, st,
                  asked, repeats, sub, age, passed, lost>>
  BY DEF vars, table, taskVars, clientVars, clockVars
<1>2. Used' = Used
  BY <1>1 DEF Used
<1>3. \A i \in Used : Served(i) => Served(i)'
  BY <1>1 DEF Served, Clearing, Counts
<1>4. TypeOK'
  BY <1>1 DEF IInv, TypeOK
<1> QED
  BY <1>1, <1>2, <1>3, <1>4
     DEF IInv, OneSlotEach, SlotsServed, SendsToClient, IsDue, RequestServed,
         QueueServed, NothingAsked

-----------------------------------------------------------------------------
(* Theorems *)

\* The timer driver keeps the invariant, with any number of clients and slots.
THEOREM Invariance == Spec => []IInv
<1>1. Init => IInv
  BY InitInv
<1>2. IInv /\ [Next]_vars => IInv'
  <2> SUFFICES ASSUME IInv, [Next]_vars PROVE IInv'
    OBVIOUS
  <2>1. CASE Pass
    BY <2>1, PassInv
  <2>2. CASE timer_task
    BY <2>2, ReceiveInv, CreateInv, TooManyInv, CheckInv, SentInv DEF timer_task
  <2>3. ASSUME NEW c \in Clients, timer_delay(c) \/ timer_pulse(c) PROVE IInv'
    <3>1. PICK ms \in Delays, repeat \in BOOLEAN : Register(c, ms, repeat)
      BY <2>3 DEF timer_delay, timer_pulse
    <3> QED BY <3>1, RegisterInv
  <2>4. ASSUME NEW c \in Clients, Proceed(c) \/ Wait(c) PROVE IInv'
    BY <2>4, ProceedInv, WaitInv
  <2>5. CASE UNCHANGED vars
    BY <2>5, StutterInv
  <2> QED BY <2>1, <2>2, <2>3, <2>4, <2>5 DEF Next
<1> QED BY <1>1, <1>2, PTL DEF Spec

\* Every variable of the timer driver has its type.
THEOREM TypeCorrect == Spec => []TypeOK
<1>1. IInv => TypeOK
  BY DEF IInv
<1> QED BY <1>1, Invariance, PTL

\* While check_timers() is in a send to a client, that client is not in a send
\* to the timer task: the two never wait for each other.
THEOREM NoStandoffCorrect == Spec => []NoStandoff
<1>1. ASSUME IInv PROVE NoStandoff
  <2> SUFFICES ASSUME task = "sending"
               PROVE  st[client[slot]] \notin {"registering", "waiting"}
    BY DEF NoStandoff
  <2>1. slot \in Used /\ st[client[slot]] # "waiting"
    BY <1>1 DEF IInv, SendsToClient
  <2>2. Served(slot) /\ ~Clearing(slot)
    BY <1>1, <2>1 DEF IInv, SlotsServed, Clearing
  <2> QED BY <2>1, <2>2 DEF Served
<1>2. IInv => NoStandoff
  BY <1>1
<1> QED BY <1>2, Invariance, PTL

\* After a panic the table stays full.
LEMMA PanicFull == Spec => [](task = "panicked" => Used = Slots)
<1>1. Init => (task = "panicked" => Used = Slots)
  BY DEF Init
<1>2. IInv /\ (task = "panicked" => Used = Slots) /\ [Next]_vars
         => (task = "panicked" => Used = Slots)'
  <2> SUFFICES ASSUME IInv, task = "panicked" => Used = Slots, [Next]_vars,
                      task' = "panicked"
               PROVE  Used' = Slots
    BY DEF Slots
  <2>1. CASE Pass
    BY <2>1 DEF Pass, Expiry
  <2>2. CASE Receive
    BY <2>2 DEF Receive, Goes
  <2>3. CASE Create
    BY <2>3 DEF Create, Goes
  <2>4. CASE TooManyTimers
    BY <2>4 DEF TooManyTimers, table, Used
  <2>5. CASE Check
    BY <2>5 DEF Check, Goes, NextSlot
  <2>6. CASE Sent
    BY <2>6 DEF Sent, Goes, NextSlot
  <2>7. ASSUME NEW c \in Clients, timer_delay(c) \/ timer_pulse(c) PROVE Used' = Slots
    BY <2>7 DEF timer_delay, timer_pulse, Register
  <2>8. ASSUME NEW c \in Clients, Proceed(c) \/ Wait(c) PROVE Used' = Slots
    BY <2>8 DEF Proceed, Wait, taskVars, table, Used
  <2>9. CASE UNCHANGED vars
    BY <2>9 DEF vars, taskVars, table, Used
  <2> QED
    BY <2>1, <2>2, <2>3, <2>4, <2>5, <2>6, <2>7, <2>8, <2>9 DEF Next, timer_task
<1> QED BY <1>1, <1>2, Invariance, PTL DEF Spec

\* create() panics only when every slot belongs to another client than the one
\* it acts for, no two to the same.
THEOREM PanicOnlyWhenFullCorrect == Spec => []PanicOnlyWhenFull
<1>1. ASSUME IInv, task = "panicked", Used = Slots
      PROVE  Cardinality({client[i] : i \in Used} \ {request}) = MAX_TIMERS
  <2> DEFINE T == {client[i] : i \in Slots}
  <2>1. {client[i] : i \in Used} \ {request} = T
    BY <1>1 DEF IInv, RequestServed
  <2>2. client \in [1 .. MAX_TIMERS -> T]
    <3>1. client = [i \in Slots |-> client[i]]
      BY <1>1 DEF IInv, TypeOK
    <3> QED BY <3>1 DEF Slots
  <2>3. \A i, j \in 1 .. MAX_TIMERS : client[i] = client[j] => i = j
    BY <1>1 DEF Slots, IInv, OneSlotEach
  <2>4. \A t \in T : \E i \in 1 .. MAX_TIMERS : client[i] = t
    BY DEF Slots
  <2>5. ExistsBijection(1 .. MAX_TIMERS, T)
    BY <2>2, <2>3, <2>4
       DEF ExistsBijection, Bijection, Injection, Surjection, IsInjective
  <2> QED BY <2>1, <2>5, FS_CountingElements, DriverAssumption
<1>2. IInv /\ (task = "panicked" => Used = Slots) => PanicOnlyWhenFull
  BY <1>1 DEF PanicOnlyWhenFull
<1> QED BY <1>2, Invariance, PanicFull, PTL

\* A delay never ends before its time: when its slot is due, as many
\* milliseconds have passed since the tick before its creation as were asked.
THEOREM NeverEarlyCorrect == Spec => NeverEarly
<1> DEFINE OnTime == \A c \in Clients : Pinged(c) => age[c] >= asked[c]
<1>1. IInv /\ [Next]_vars => [OnTime]_vars
  <2> SUFFICES ASSUME IInv, Next, NEW c \in Clients, Pinged(c)
               PROVE  age[c] >= asked[c]
    OBVIOUS
  <2>1. ASSUME NEW i \in Used, client[i] = c, due[i] <= 0, ~Clearing(i)
        PROVE  age[c] >= asked[c]
    <3>1. ~repeats[c] /\ Served(i)
      BY DEF Pinged, IInv, SlotsServed
    <3>2. due[i] = asked[c] - (age[c] - sub)
      BY <2>1, <3>1 DEF Served, Counts
    <3>3. /\ asked[c] \in Nat /\ age[c] \in Nat /\ sub \in Nat /\ due[i] \in Int
      BY Numbers, ClientOfSlot DEF IInv
    <3> QED BY <2>1, <3>2, <3>3
  <2>2. CASE UNCHANGED st
    BY <2>2 DEF Pinged
  <2>3. CASE Receive
    BY <2>2, <2>3 DEF Receive, Pinged, IInv, TypeOK
  <2>4. CASE Check
    <3>1. CASE IsDue(slot) /\ st' = [st EXCEPT ![client[slot]] = "running"]
      <4>1. c = client[slot] /\ slot \in Used /\ due[slot] <= 0
        BY <3>1 DEF Pinged, IsDue, Used, IInv, TypeOK
      <4>2. ~Clearing(slot)
        BY <2>4 DEF Check, Clearing
      <4> QED BY <2>1, <4>1, <4>2
    <3> QED BY <2>2, <2>4, <3>1 DEF Check
  <2>5. ASSUME NEW d \in Clients, timer_delay(d) \/ timer_pulse(d)
        PROVE  FALSE
    <3>1. PICK ms, repeat : Register(d, ms, repeat)
      BY <2>5 DEF timer_delay, timer_pulse
    <3> QED BY <3>1 DEF Register, Pinged, IInv, TypeOK
  <2>6. ASSUME NEW d \in Clients, Proceed(d) PROVE FALSE
    BY <2>6 DEF Proceed, Pinged, IInv, TypeOK
  <2>7. ASSUME NEW d \in Clients, Wait(d) PROVE age[c] >= asked[c]
    <3>1. CASE task = "sending" /\ client[slot] = d /\ st' = [st EXCEPT ![d] = "running"]
      <4>1. c = d
        BY <3>1 DEF Pinged, IInv, TypeOK
      <4>2. slot \in Used /\ due[slot] <= 0 /\ ~Clearing(slot)
        BY <3>1 DEF IInv, SendsToClient, IsDue, Clearing
      <4> QED BY <2>1, <3>1, <4>1, <4>2
    <3>2. CASE st' = [st EXCEPT ![d] = "waiting"]
      BY <3>2 DEF Pinged, IInv, TypeOK
    <3> QED BY <2>7, <3>1, <3>2 DEF Wait
  <2>8. CASE Pass \/ Create \/ TooManyTimers \/ Sent
    <3>1. UNCHANGED st
      BY <2>8 DEF Pass, Create, TooManyTimers, Sent, clientVars
    <3> QED BY <2>2, <3>1
  <2> QED BY <2>3, <2>4, <2>5, <2>6, <2>7, <2>8 DEF Next, timer_task
<1> QED BY <1>1, Invariance, PTL DEF Spec, NeverEarly

-----------------------------------------------------------------------------
(* Drift *)

\* x is a whole number of times p.
Multiple(x, p) == \E k \in Int : x = k * p

\* A pulse is due a whole number of periods after the tick before its creation.
Pulses(i) ==
    LET c == client[i] IN
    /\ period[i] = asked[c] /\ due[i] <= period[i] /\ age[c] < period[i]
    /\ Multiple(due[i] + (age[c] - sub), period[i])

\* check_timers() has not come to slot i since the latest INTERRUPT it got.
Unchecked(i) == task \in {"checking", "sending", "sent"} /\ i >= slot

\* The time for which nobody has looked at slot i.
Behind(i) == (IF Unchecked(i) THEN TICK ELSE 0) + (IF pending THEN TICK ELSE 0)

DriftInv ==
    /\ pending => task # "waiting"
    /\ task = "sent" => due[slot] <= 0
    /\ \A c \in Clients : repeats[c] => asked[c] >= TICK
    /\ \A i \in Used : period[i] > 0 => Pulses(i)
    /\ lost \/ \A i \in Used : due[i] + Behind(i) > 0

LEMMA MultipleFacts ==
    ASSUME NEW x \in Int, NEW p \in Nat \ {0}
    PROVE  /\ Multiple(p, p)
           /\ Multiple(x, p) => Multiple(x + p, p) /\ Multiple(x - p, p)
           /\ Multiple(x, p) /\ -p < x /\ x < p => x = 0
           /\ Multiple(x, p) /\ 0 < x /\ x < p + p => x = p
<1>1. Multiple(p, p)
  <2>1. p = 1 * p
    OBVIOUS
  <2> QED BY <2>1 DEF Multiple
<1>2. ASSUME NEW k \in Int, x = k * p
      PROVE  /\ Multiple(x + p, p) /\ Multiple(x - p, p)
             /\ -p < x /\ x < p => x = 0
             /\ 0 < x /\ x < p + p => x = p
  <2>1. x + p = (k + 1) * p /\ x - p = (k - 1) * p
    BY <1>2
  <2>2. Multiple(x + p, p) /\ Multiple(x - p, p)
    BY <2>1 DEF Multiple
  <2>3. k >= 1 => x >= p
    BY <1>2
  <2>4. k <= -1 => x <= -p
    BY <1>2
  <2>5. k >= 2 => x >= p + p
    BY <1>2
  <2>6. k = 0 => x = 0
    BY <1>2
  <2>7. k = 1 => x = p
    BY <1>2
  <2> QED BY <2>2, <2>3, <2>4, <2>5, <2>6, <2>7
<1> QED BY <1>1, <1>2 DEF Multiple

\* Nothing remains of a multiple.
LEMMA RemainderOfMultiple ==
    ASSUME NEW x \in Int, NEW p \in Nat \ {0}, Multiple(x, p)
    PROVE  x % p = 0
<1>1. PICK k \in Int : x = k * p
  BY DEF Multiple
<1>2. PICK q \in Int, r \in Int : q = x \div p /\ r = x % p
  OBVIOUS
<1>3. r \in 0 .. p - 1 /\ x = q * p + r
  BY <1>2
<1>4. r = (k - q) * p /\ k - q \in Int
  BY <1>1, <1>2, <1>3
<1>5. Multiple(r, p)
  BY <1>4 DEF Multiple
<1> QED BY <1>2, <1>3, <1>5, MultipleFacts

LEMMA InitDrift == Init => DriftInv
<1> SUFFICES ASSUME Init PROVE DriftInv
  OBVIOUS
<1>1. Used = {}
  BY DEF Init, Used
<1> QED BY <1>1 DEF Init, DriftInv

\* The numbers of a pulse.
LEMMA PulseNumbers ==
    ASSUME IInv, DriftInv, NEW i \in Used, period[i] > 0
    PROVE  /\ client[i] \in Clients /\ repeats[client[i]]
           /\ period[i] = asked[client[i]] /\ period[i] \in Nat \ {0} /\ period[i] >= TICK
           /\ due[i] \in Int /\ due[i] <= period[i] /\ age[client[i]] \in Nat
           /\ age[client[i]] < period[i] /\ sub \in Nat /\ sub < TICK
           /\ Multiple(due[i] + (age[client[i]] - sub), period[i])
<1>1. i \in Slots /\ client[i] \in Clients
  BY ClientOfSlot DEF IInv
<1>2. repeats[client[i]]
  BY DEF IInv, SlotsServed, Served, Clearing
<1> QED BY <1>1, <1>2, Numbers DEF IInv, DriftInv, Pulses

LEMMA PassDrift ==
    ASSUME IInv, DriftInv, Pass
    PROVE  DriftInv'
<1>1. Used' = Used /\ UNCHANGED <<client, period, request, queue, st, asked, repeats>>
  BY DEF Pass, Used, clientVars
<1>2. TICK \in Nat \ {0} /\ sub \in Nat /\ sub < TICK
  BY DriverAssumption, Numbers DEF IInv
<1>3. ASSUME NEW i \in Used, period[i] > 0 PROVE Pulses(i)'
  <2>1. PICK c, p, a : c = client[i] /\ p = period[i] /\ a = age[c]
    OBVIOUS
  <2>2. /\ c \in Clients /\ repeats[c] /\ p = asked[c] /\ p \in Nat \ {0} /\ p >= TICK
        /\ due[i] \in Int /\ due[i] <= p /\ a \in Nat /\ a < p
        /\ Multiple(due[i] + (a - sub), p) /\ i \in Slots
    BY <1>3, <2>1, PulseNumbers, ClientOfSlot DEF IInv
  <2>3. age'[c] = IF a + 1 < p THEN a + 1 ELSE 0
    <3>1. age'[c] = (a + 1) % p
      BY <2>1, <2>2 DEF Pass, Aged
    <3>2. a + 1 \in Nat /\ (a + 1 < p \/ a + 1 = p)
      BY <2>2
    <3> QED BY <2>2, <3>1, <3>2, Modulo
  <2>4. due'[i] - sub' = due[i] - sub - 1 /\ due'[i] \in Int /\ due'[i] <= due[i] /\ sub' \in Nat
    <3>1. CASE sub = TICK - 1
      <4>1. due'[i] = due[i] - TICK
        <5>1. due' = [j \in Slots |-> IF j \in Used THEN due[j] - TICK ELSE 0]
          BY <3>1 DEF Pass, Expiry
        <5> QED BY <2>2, <5>1, Zenon
      <4>2. sub' = 0
        BY <1>2, <3>1, Modulo DEF Pass
      <4> QED BY <1>2, <2>2, <3>1, <4>1, <4>2
    <3>2. CASE sub # TICK - 1
      <4>1. due'[i] = due[i]
        BY <3>2 DEF Pass
      <4>2. sub' = sub + 1
        <5>1. sub + 1 \in Nat /\ sub + 1 < TICK
          BY <1>2, <3>2
        <5> QED BY <1>2, <5>1, Modulo DEF Pass
      <4> QED BY <1>2, <2>2, <4>1, <4>2
    <3> QED BY <3>1, <3>2
  <2>5. Multiple(due'[i] + (age'[c] - sub'), p)
    <3>1. PICK x : x = due[i] + (a - sub)
      OBVIOUS
    <3>2. x \in Int /\ Multiple(x, p)
      BY <1>2, <2>2, <3>1
    <3>3. CASE a + 1 < p
      <4>1. due'[i] + (age'[c] - sub') = x
        BY <1>2, <2>2, <2>3, <2>4, <3>1, <3>3
      <4> QED BY <3>2, <4>1
    <3>4. CASE ~(a + 1 < p)
      <4>1. age'[c] = 0 /\ a + 1 = p
        BY <2>2, <2>3, <3>4
      <4>2. PICK e, d, y, s : e = due'[i] /\ d = due[i] /\ y = sub' /\ s = sub
        OBVIOUS
      <4>3. /\ e - y = d - s - 1 /\ x = d + (a - s)
            /\ e \in Int /\ d \in Int /\ y \in Int /\ s \in Int /\ p \in Int /\ a \in Int
        BY <1>2, <2>2, <2>4, <3>1, <4>2
      <4>4. e + (0 - y) = x - p
        BY <4>1, <4>3
      <4>5. due'[i] + (age'[c] - sub') = x - p
        BY <4>1, <4>2, <4>4
      <4> QED BY <2>2, <3>2, <4>5, MultipleFacts
    <3> QED BY <3>3, <3>4
  <2>6. due'[i] <= p /\ age'[c] < p
    BY <2>2, <2>3, <2>4
  <2> QED BY <1>1, <2>1, <2>2, <2>5, <2>6 DEF Pulses
<1>4. ASSUME task = "sent" PROVE task' = "sent" /\ slot' = slot /\ due'[slot] <= 0
  <2>1. task' = task /\ slot' = slot
    BY <1>4 DEF Pass, Expiry
  <2>2. slot \in Slots /\ slot \in Used /\ due[slot] \in Int /\ due[slot] <= 0
    BY <1>4, ClientOfSlot, Numbers DEF IInv, SendsToClient, DriftInv
  <2> QED BY <1>2, <1>4, <2>1, <2>2 DEF Pass, Expiry
<1>5. task' = "sent" => task = "sent"
  BY DEF Pass, Expiry
<1>6. pending' => task' # "waiting"
  BY DEF Pass, Expiry, DriftInv
<1>7. ASSUME ~lost', NEW i \in Used PROVE due'[i] + Behind(i)' > 0
  <2>1. ~lost
    BY <1>7 DEF Pass, Expiry
  <2>2. i \in Slots /\ i \in Nat /\ due[i] \in Int /\ due[i] + Behind(i) > 0
    BY <2>1, ClientOfSlot, Numbers DEF IInv, DriftInv, Slots
  <2>3. CASE sub # TICK - 1
    <3>1. due' = due /\ task' = task /\ slot' = slot /\ pending' = pending
      BY <2>3 DEF Pass
    <3> QED BY <2>2, <3>1 DEF Behind, Unchecked
  <2>4. CASE sub = TICK - 1 /\ task = "waiting"
    <3>1. /\ due'[i] = due[i] - TICK /\ task' = "checking" /\ slot' = 1
          /\ pending' = pending /\ ~pending
      BY <2>2, <2>4 DEF Pass, Expiry, DriftInv
    <3>2. Behind(i) = 0 /\ Behind(i)' = TICK
      BY <1>2, <2>2, <2>4, <3>1 DEF Behind, Unchecked, Slots
    <3> QED BY <1>2, <2>2, <3>1, <3>2
  <2>5. CASE sub = TICK - 1 /\ task # "waiting"
    <3>1. /\ due'[i] = due[i] - TICK /\ task' = task /\ slot' = slot
          /\ pending' /\ ~pending
      BY <1>7, <2>2, <2>5 DEF Pass, Expiry
    <3>2. Unchecked(i)' = Unchecked(i)
      BY <3>1 DEF Unchecked
    <3>3. Behind(i)' = Behind(i) + TICK /\ Behind(i) \in Int
      BY <1>2, <3>1, <3>2 DEF Behind
    <3> QED BY <1>2, <2>2, <3>1, <3>3
  <2> QED BY <2>3, <2>4, <2>5
<1> QED BY <1>1, <1>3, <1>4, <1>5, <1>6, <1>7 DEF DriftInv

\* Steps that leave the table and the times alone.
LEMMA TimesKept ==
    ASSUME IInv, DriftInv, UNCHANGED <<client, period, due, sub, age, lost>>,
           \A c \in Clients : repeats[c] => asked'[c] = asked[c],
           \A c \in Clients : repeats'[c] => asked'[c] >= TICK,
           pending' => task' # "waiting",
           task' = "sent" => due[slot'] <= 0,
           lost \/ \A i \in Used : due[i] + Behind(i)' > 0
    PROVE  DriftInv'
<1>1. Used' = Used
  BY DEF Used
<1>2. ASSUME NEW i \in Used, period[i] > 0 PROVE Pulses(i)'
  <2>1. client[i] \in Clients /\ repeats[client[i]]
    BY <1>2, PulseNumbers
  <2>2. Pulses(i)
    BY <1>2 DEF DriftInv
  <2> QED BY <2>1, <2>2 DEF Pulses
<1> QED BY <1>1, <1>2 DEF DriftInv

LEMMA ReceiveDrift ==
    ASSUME IInv, DriftInv, Receive
    PROVE  DriftInv'
<1>1. /\ UNCHANGED <<client, period, due, sub, age, lost, asked, repeats>> /\ task = "ready"
  BY DEF Receive, table
<1>2. \A c \in Clients : repeats[c] => asked[c] >= TICK
  BY DEF DriftInv
<1>3. ASSUME ~lost, NEW i \in Used PROVE due[i] + Behind(i)' > 0
  <2>1. due[i] \in Int /\ due[i] + Behind(i) > 0 /\ i \in Nat /\ TICK \in Nat
    BY <1>3, ClientOfSlot, Numbers, DriverAssumption DEF IInv, DriftInv, Slots
  <2>2. Behind(i) = IF pending THEN TICK ELSE 0
    BY <1>1, <2>1 DEF Behind, Unchecked
  <2>3. CASE pending
    <3>1. Behind(i)' >= TICK /\ Behind(i)' \in Nat
      <4>1. task' = "checking" /\ slot' = 1 /\ i >= 1
        BY <2>3, ClientOfSlot DEF Receive, Goes, IInv, Slots
      <4> QED BY <2>1, <4>1 DEF Behind, Unchecked
    <3> QED BY <2>1, <2>2, <2>3, <3>1
  <2>4. CASE ~pending
    <3>1. Behind(i)' >= 0 /\ Behind(i)' \in Nat
      BY <2>1 DEF Behind
    <3> QED BY <2>1, <2>2, <2>4, <3>1
  <2> QED BY <2>3, <2>4
<1>4. (pending' => task' # "waiting") /\ task' # "sent"
  BY DEF Receive, Goes
<1> QED BY <1>1, <1>2, <1>3, <1>4, TimesKept

LEMMA CheckDrift ==
    ASSUME IInv, DriftInv, Check
    PROVE  DriftInv'
<1>1. /\ UNCHANGED <<client, period, due, sub, age, lost, asked, repeats, pending>>
      /\ task = "checking" /\ task' # "waiting"
  BY DEF Check, table, Goes, NextSlot
<1>2. \A c \in Clients : repeats[c] => asked[c] >= TICK
  BY DEF DriftInv
<1>3. slot \in Slots /\ slot \in Nat /\ due[slot] \in Int
  BY Numbers DEF IInv, TypeOK, Slots
<1>4. task' = "sent" => due[slot'] <= 0
  BY <1>1, <1>3 DEF Check, Goes, NextSlot, IsDue
<1>5. ASSUME ~lost, NEW i \in Used PROVE due[i] + Behind(i)' > 0
  <2>1. /\ i \in Slots /\ due[i] \in Int /\ due[i] + Behind(i) > 0 /\ i \in Nat /\ TICK \in Nat
        /\ client[i] # Nobody
    BY <1>5, ClientOfSlot, Numbers, DriverAssumption DEF IInv, DriftInv, Slots, Used
  <2>2. CASE IsDue(slot)
    <3>1. slot' = slot /\ task' \in {"sent", "sending"}
      BY <2>2 DEF Check, Goes
    <3> QED BY <1>1, <2>1, <3>1 DEF Behind, Unchecked
  <2>3. CASE ~IsDue(slot)
    <3>1. NextSlot
      BY <2>3 DEF Check
    <3>2. CASE i = slot
      <4>1. due[i] > 0
        BY <2>1, <2>3, <3>2 DEF IsDue
      <4>2. Behind(i)' \in Nat
        BY <2>1 DEF Behind
      <4> QED BY <2>1, <4>1, <4>2
    <3>3. CASE i # slot
      <4>1. Unchecked(i)' = Unchecked(i)
        <5>1. CASE slot < MAX_TIMERS
          <6>1. task' = "checking" /\ slot' = slot + 1
            BY <3>1, <5>1 DEF NextSlot, Goes
          <6> QED BY <1>1, <1>3, <2>1, <3>3, <6>1 DEF Unchecked
        <5>2. CASE ~(slot < MAX_TIMERS)
          <6>1. task' = "ready"
            BY <3>1, <5>2 DEF NextSlot, Goes
          <6>2. ~(i >= slot)
            BY <1>3, <2>1, <3>3, <5>2, DriverAssumption DEF Slots
          <6> QED BY <6>1, <6>2 DEF Unchecked
        <5> QED BY <5>1, <5>2
      <4> QED BY <1>1, <2>1, <4>1 DEF Behind
    <3> QED BY <3>2, <3>3
  <2> QED BY <2>2, <2>3
<1> QED BY <1>1, <1>2, <1>4, <1>5, TimesKept

LEMMA CreateDrift ==
    ASSUME IInv, DriftInv, Create
    PROVE  DriftInv'
<1>1. PICK c, a : c = request /\ a = asked[request]
  OBVIOUS
<1>2. /\ task = "creating" /\ task' = "ready"
      /\ UNCHANGED <<slot, pending, asked, repeats, sub, lost>>
  BY DEF Create, Goes, clientVars
<1>3. PICK j \in Slots :
         /\ j \notin Used
         /\ client' = [client EXCEPT ![j] = c]
         /\ due' = [due EXCEPT ![j] = a]
         /\ period' = [period EXCEPT ![j] = IF repeats[c] THEN a ELSE 0]
  BY <1>1 DEF Create, create, IsFirst
<1>4. /\ c \in Clients /\ \A i \in Used : client[i] # c
      /\ st[c] = "running" => repeats[c]
  BY <1>1, <1>2 DEF IInv, RequestServed
<1>5. a \in Nat \ {0} /\ (repeats[c] => a >= TICK)
  <2>1. a \in Nat
    BY <1>1, <1>4, Numbers DEF IInv
  <2>2. a = 0 => st[c] = "running" /\ ~repeats[c]
    BY <1>1, <1>4 DEF IInv, NothingAsked
  <2> QED BY <1>1, <1>4, <2>1, <2>2 DEF DriftInv
<1>6. /\ client'[j] = c /\ due'[j] = a /\ period'[j] = IF repeats[c] THEN a ELSE 0
      /\ \A i \in Slots \ {j} :
            client'[i] = client[i] /\ due'[i] = due[i] /\ period'[i] = period[i]
      /\ Used' = Used \cup {j}
  <2>1. /\ client'[j] = c /\ due'[j] = a /\ period'[j] = IF repeats[c] THEN a ELSE 0
        /\ \A i \in Slots \ {j} :
              client'[i] = client[i] /\ due'[i] = due[i] /\ period'[i] = period[i]
    BY <1>3, <1>4 DEF IInv, TypeOK
  <2> QED BY <1>3, <1>4, <2>1, NobodyAssumption DEF Used
<1>7. TICK \in Nat \ {0} /\ sub \in Nat /\ sub < TICK
  BY DriverAssumption, Numbers DEF IInv
<1>8. /\ repeats[c] => age'[c] = sub
      /\ \A d \in Clients \ {c} : age'[d] = age[d]
  <2>1. age' = [age EXCEPT ![c] = IF repeats[c] THEN sub % a ELSE sub]
    BY <1>1 DEF Create
  <2>2. ASSUME repeats[c] PROVE sub % a = sub
    <3>1. sub < a
      BY <1>5, <1>7, <2>2
    <3> QED BY <1>5, <1>7, <3>1, Modulo
  <2> QED BY <1>4, <2>1, <2>2 DEF IInv, TypeOK
<1>9. ASSUME NEW i \in Used', period'[i] > 0 PROVE Pulses(i)'
  <2>1. CASE i = j
    <3>1. /\ repeats[c] /\ client'[i] = c /\ period'[i] = a /\ due'[i] = a /\ age'[c] = sub
          /\ asked'[c] = a
      BY <1>1, <1>2, <1>5, <1>6, <1>8, <1>9, <2>1
    <3>2. due'[i] + (age'[c] - sub') = a
      BY <1>2, <1>5, <1>7, <3>1
    <3>3. Multiple(due'[i] + (age'[c] - sub'), a)
      BY <1>5, <3>2, MultipleFacts
    <3>4. age'[c] < a /\ due'[i] <= a
      BY <1>5, <1>7, <3>1
    <3> QED BY <3>1, <3>3, <3>4 DEF Pulses
  <2>2. CASE i # j
    <3>1. i \in Used /\ i \in Slots /\ client[i] \in Clients /\ client[i] # c
      BY <1>4, <1>6, <2>2, ClientOfSlot DEF IInv
    <3>2. period[i] > 0 /\ Pulses(i)
      BY <1>6, <1>9, <2>2, <3>1 DEF DriftInv
    <3> QED BY <1>2, <1>6, <1>8, <2>2, <3>1, <3>2 DEF Pulses
  <2> QED BY <2>1, <2>2
<1>10. ASSUME ~lost, NEW i \in Used' PROVE due'[i] + Behind(i)' > 0
  <2>1. Behind(i)' = Behind(i) /\ Behind(i) \in Nat
    BY <1>2, <1>7 DEF Behind, Unchecked
  <2>2. CASE i = j
    BY <1>5, <1>6, <2>1, <2>2
  <2>3. CASE i # j
    <3>1. i \in Used /\ i \in Slots
      BY <1>6, <2>3 DEF Used
    <3> QED BY <1>6, <1>10, <2>1, <2>3, <3>1 DEF DriftInv
  <2> QED BY <2>2, <2>3
<1> QED BY <1>2, <1>9, <1>10 DEF DriftInv

LEMMA SentDrift ==
    ASSUME IInv, DriftInv, Sent
    PROVE  DriftInv'
<1>1. /\ task = "sent" /\ slot \in Used /\ due[slot] <= 0
      /\ UNCHANGED <<period, pending, asked, repeats, sub, age, lost>>
  BY DEF Sent, IInv, SendsToClient, DriftInv, clientVars
<1>2. /\ slot \in Slots /\ slot \in Nat /\ due[slot] \in Int /\ period[slot] \in Nat
      /\ TICK \in Nat \ {0} /\ MAX_TIMERS \in Nat
  BY <1>1, ClientOfSlot, Numbers, DriverAssumption DEF IInv, Slots
<1>3. /\ due'[slot] = IF period[slot] > 0 THEN due[slot] + period[slot] ELSE 0
      /\ client'[slot] = IF period[slot] > 0 THEN client[slot] ELSE Nobody
      /\ \A i \in Slots \ {slot} : due'[i] = due[i] /\ client'[i] = client[i]
  BY <1>2 DEF Sent, Renew, IInv, TypeOK
<1>4. /\ task' \in {"checking", "ready"}
      /\ \A i \in Slots : Unchecked(i)' => i # slot
      /\ \A i \in Slots \ {slot} : Unchecked(i)' = Unchecked(i)
  <2>1. \A i \in Slots : i \in Nat /\ i <= MAX_TIMERS
    BY <1>2 DEF Slots
  <2>2. CASE slot < MAX_TIMERS
    <3>1. task' = "checking" /\ slot' = slot + 1
      BY <2>2 DEF Sent, NextSlot, Goes
    <3> QED BY <1>1, <1>2, <2>1, <3>1 DEF Unchecked
  <2>3. CASE ~(slot < MAX_TIMERS)
    <3>1. task' = "ready"
      BY <2>3 DEF Sent, NextSlot, Goes
    <3> QED BY <1>1, <1>2, <2>1, <2>3, <3>1 DEF Unchecked
  <2> QED BY <2>2, <2>3
<1>5. ASSUME NEW i \in Used'
      PROVE  /\ i \in Used /\ i \in Slots /\ client'[i] = client[i]
             /\ i = slot => period[slot] > 0
  BY <1>3, <1>5, NobodyAssumption DEF Used
<1>6. ASSUME NEW i \in Used', period'[i] > 0 PROVE Pulses(i)'
  <2>1. i \in Used /\ period[i] > 0 /\ Pulses(i) /\ i \in Slots /\ client'[i] = client[i]
    BY <1>1, <1>5, <1>6 DEF DriftInv
  <2>2. CASE i # slot
    BY <1>1, <1>3, <2>1, <2>2 DEF Pulses
  <2>3. CASE i = slot
    <3>1. PICK c, p, x : c = client[i] /\ p = period[i] /\ x = due[i] + (age[c] - sub)
      OBVIOUS
    <3>2. /\ p \in Nat \ {0} /\ due[i] \in Int /\ age[c] \in Nat /\ age[c] < p /\ sub \in Nat
          /\ p = asked[c] /\ Multiple(x, p)
      BY <2>1, <3>1, PulseNumbers
    <3>3. due'[i] = due[i] + p /\ due'[i] <= p
      BY <1>1, <1>3, <2>1, <2>3, <3>1, <3>2
    <3>4. due'[i] + (age[c] - sub) = x + p /\ x \in Int
      BY <3>1, <3>2, <3>3
    <3>5. Multiple(due'[i] + (age[c] - sub), p)
      BY <3>2, <3>4, MultipleFacts
    <3> QED BY <1>1, <2>1, <3>1, <3>2, <3>3, <3>5 DEF Pulses
  <2> QED BY <2>2, <2>3
<1>7. ASSUME ~lost, NEW i \in Used' PROVE due'[i] + Behind(i)' > 0
  <2>1. i \in Used /\ i \in Slots /\ due[i] + Behind(i) > 0 /\ due[i] \in Int
    BY <1>5, <1>7, Numbers DEF IInv, DriftInv
  <2>2. CASE i # slot
    <3>1. Behind(i)' = Behind(i) /\ due'[i] = due[i]
      BY <1>1, <1>3, <1>4, <2>1, <2>2 DEF Behind
    <3> QED BY <2>1, <3>1
  <2>3. CASE i = slot
    <3>1. due'[i] = due[i] + period[i] /\ period[i] \in Nat /\ period[i] >= TICK
      <4>1. period[i] > 0
        BY <1>5, <2>3
      <4> QED BY <1>3, <2>1, <2>3, <4>1, PulseNumbers
    <3>2. Behind(i) <= Behind(i)' + TICK /\ Behind(i) \in Nat /\ Behind(i)' \in Nat
      BY <1>1, <1>2, <1>4, <2>1, <2>3 DEF Behind
    <3> QED BY <1>2, <2>1, <3>1, <3>2
  <2> QED BY <2>2, <2>3
<1> QED BY <1>1, <1>4, <1>6, <1>7 DEF DriftInv

LEMMA TooManyDrift ==
    ASSUME IInv, DriftInv, TooManyTimers
    PROVE  DriftInv'
<1>1. /\ UNCHANGED <<client, period, due, sub, age, lost, asked, repeats, slot, pending>>
      /\ task = "creating" /\ task' = "panicked"
  BY DEF TooManyTimers, table, clientVars, clockVars
<1>2. \A i \in Used : Behind(i)' = Behind(i)
  BY <1>1 DEF Behind, Unchecked
<1> QED BY <1>1, <1>2, TimesKept DEF DriftInv

LEMMA RegisterDrift ==
    ASSUME IInv, DriftInv, NEW c \in Clients, NEW ms \in Delays, NEW repeat \in BOOLEAN,
           Register(c, ms, repeat), repeat => ms >= TICK
    PROVE  DriftInv'
<1>1. /\ UNCHANGED <<client, period, due, sub, age, lost, slot, pending>>
      /\ ~repeats[c]
      /\ asked' = [asked EXCEPT ![c] = ms] /\ repeats' = [repeats EXCEPT ![c] = repeat]
      /\ task' # task => task = "waiting" /\ task' = "creating"
  BY DEF Register, table, clockVars
<1>2. \A d \in Clients : repeats[d] => asked'[d] = asked[d]
  BY <1>1 DEF IInv, TypeOK
<1>3. \A d \in Clients : repeats'[d] => asked'[d] >= TICK
  BY <1>1 DEF IInv, TypeOK, DriftInv
<1>4. \A i \in Used : Behind(i)' = Behind(i)
  BY <1>1 DEF Behind, Unchecked
<1>5. pending' => task' # "waiting"
  BY <1>1 DEF DriftInv
<1>6. task' = "sent" => due[slot'] <= 0
  BY <1>1 DEF DriftInv
<1> QED BY <1>1, <1>2, <1>3, <1>4, <1>5, <1>6, TimesKept DEF DriftInv

LEMMA ClientDrift ==
    ASSUME IInv, DriftInv, NEW c \in Clients, Proceed(c) \/ Wait(c)
    PROVE  DriftInv'
<1>1. /\ UNCHANGED <<client, period, due, sub, age, lost, asked, repeats, slot, pending>>
      /\ task' # task => task = "sending" /\ task' = "sent"
  BY DEF Proceed, Wait, table, taskVars, clockVars
<1>2. \A i \in Used : Behind(i)' = Behind(i)
  BY <1>1 DEF Behind, Unchecked
<1>3. task' = "sent" => due[slot'] <= 0
  BY <1>1 DEF IInv, SendsToClient, IsDue, DriftInv
<1>4. pending' => task' # "waiting"
  BY <1>1 DEF DriftInv
<1> QED BY <1>1, <1>2, <1>3, <1>4, TimesKept DEF DriftInv

\* What the table and the clock satisfy besides IInv.
LEMMA DriftInvariance == Spec => []DriftInv
<1>1. IInv /\ DriftInv /\ [Next]_vars => DriftInv'
  <2> SUFFICES ASSUME IInv, DriftInv, [Next]_vars PROVE DriftInv'
    OBVIOUS
  <2>1. CASE Pass \/ timer_task
    BY <2>1, PassDrift, ReceiveDrift, CreateDrift, TooManyDrift, CheckDrift, SentDrift
       DEF timer_task
  <2>2. ASSUME NEW c \in Clients, timer_delay(c) \/ timer_pulse(c) PROVE DriftInv'
    <3>1. PICK ms \in Delays, repeat \in BOOLEAN :
             Register(c, ms, repeat) /\ (repeat => ms >= TICK)
      BY <2>2 DEF timer_delay, timer_pulse
    <3> QED BY <3>1, RegisterDrift
  <2>3. ASSUME NEW c \in Clients, Proceed(c) \/ Wait(c) PROVE DriftInv'
    BY <2>3, ClientDrift
  <2>4. CASE UNCHANGED vars
    <3>1. UNCHANGED <<client, period, due, sub, age, lost, asked, repeats, slot, pending, task>>
      BY <2>4 DEF vars, table, taskVars, clientVars, clockVars
    <3>2. \A i \in Used : Behind(i)' = Behind(i)
      BY <3>1 DEF Behind, Unchecked
    <3> QED BY <3>1, <3>2, TimesKept DEF DriftInv
  <2> QED BY <2>1, <2>2, <2>3, <2>4 DEF Next
<1> QED BY <1>1, InitDrift, Invariance, PTL DEF Spec

\* When the task waits, each pulse is due a whole number of periods after the
\* tick before its creation, however late check_timers() came to the earlier
\* ones and however many interrupts were lost meanwhile, and no timer is overdue
\* unless one was: for any number of clients and slots and any periods of a tick
\* or more.
THEOREM NoDriftCorrect == Spec => []NoDrift
<1>1. ASSUME IInv, DriftInv, task = "waiting", NEW i \in Used
      PROVE  LET c == client[i] IN
             /\ IF repeats[c]
                THEN due[i] <= asked[c] /\ (due[i] + (age[c] - sub)) % asked[c] = 0
                ELSE due[i] = asked[c] - (age[c] - sub)
             /\ ~lost => due[i] > 0
  <2>1. PICK c, p, a : c = client[i] /\ p = period[i] /\ a = age[c]
    OBVIOUS
  <2>2. due[i] \in Int /\ p \in Nat /\ Served(i) /\ ~Clearing(i)
    BY <1>1, <2>1, ClientOfSlot, Numbers DEF IInv, SlotsServed, Clearing
  <2>3. ~lost => due[i] > 0
    <3>1. Behind(i) = 0
      BY <1>1 DEF Behind, Unchecked, DriftInv
    <3>2. ~lost => due[i] + Behind(i) > 0
      BY <1>1 DEF DriftInv
    <3> QED BY <2>2, <3>1, <3>2
  <2>4. CASE p > 0
    <3>1. /\ repeats[c] /\ p = asked[c] /\ p \in Nat \ {0} /\ due[i] <= p
          /\ a \in Nat /\ sub \in Nat /\ Multiple(due[i] + (a - sub), p)
      BY <1>1, <2>1, <2>4, PulseNumbers
    <3>2. due[i] + (a - sub) \in Int
      BY <2>2, <3>1
    <3>3. (due[i] + (a - sub)) % p = 0
      BY <3>1, <3>2, RemainderOfMultiple
    <3> QED BY <2>1, <2>3, <3>1, <3>3
  <2>5. CASE ~(p > 0)
    <3>1. ~repeats[c] /\ due[i] = asked[c] - (age[c] - sub)
      BY <2>1, <2>2, <2>5 DEF Served, Counts
    <3> QED BY <2>1, <2>3, <3>1
  <2> QED BY <2>4, <2>5
<1>2. IInv /\ DriftInv => NoDrift
  BY <1>1 DEF NoDrift
<1> QED BY <1>2, Invariance, DriftInvariance, PTL

-----------------------------------------------------------------------------
(***************************************************************************)
(* Theorem of Micros: the result of timer_micros() is the time at some     *)
(* moment of the call, for every rate of the clock and any callers, except *)
(* for calls that an expiry of the counter can overtake.                   *)
(*                                                                         *)
(* The inductive invariant says, for each caller, how what it has captured *)
(* and read so far relates to the time since it began.                     *)
(***************************************************************************)

\* Two times are the same modulo WORD_SIZE.
Same(x, y) == \E k \in Int : x = y + k * WORD_SIZE

\* An expiry of the counter that millis does not count.
Uncounted(b) == IF b THEN Period ELSE 0

Enough(c) == 0 .. since[c]

\* While interrupts are disabled the counter goes on from the first capture,
\* and past its end at most once.
Captured(c) ==
    \E u \in Enough(c) :
        /\ u <= off
        /\ \/ count = cc[1] + u
           \/ compare /\ count + Period = cc[1] + u

Inspected(c) ==
    \E u \in Enough(c) :
        /\ u <= off
        /\ \/ count = cc[1] + u /\ extra[c] = compare
           \/ compare /\ count + Period = cc[1] + u

\* With m for the milliseconds and first for the first capture, the answer of
\* c would be the time of that capture.
Exactly(c, m, first) ==
    \E u \in Enough(c) :
        Same(MS * m + (first + Uncounted(Corrects(extra[c], first, cc[2]))), now - u)

\* The milliseconds of c are less than two periods old.
Roughly(c) ==
    \E u \in Enough(c) : \E r \in 0 .. Period + Period - 1 :
        Same(MS * my_millis[c], now - (u + r))

CallRight(c) ==
    /\ pc[c] = "captured" => Captured(c)
    /\ pc[c] = "inspected" => Inspected(c)
    /\ pc[c] = "recaptured" => Exactly(c, millis, cc[1])
    /\ pc[c] \in {"enabled", "read"} => Roughly(c)
    /\ prio[c] = P_HANDLER /\ pc[c] = "enabled" => Exactly(c, my_millis[c], cc[1])
    /\ prio[c] = P_HANDLER /\ pc[c] = "read" => Exactly(c, my_millis[c], ticks1[c])

ClockRight == Same(now, MS * millis + (count + Uncounted(compare)))

MicrosTyped ==
    /\ now \in Int /\ millis \in Int /\ count \in 0 .. Period - 1 /\ compare \in BOOLEAN
    /\ cc \in [1 .. 2 -> 0 .. Period - 1] /\ pc \in [Callers -> Steps]
    /\ extra \in [Callers -> BOOLEAN] /\ my_millis \in [Callers -> Int]
    /\ ticks1 \in [Callers -> 0 .. Period - 1] /\ since \in [Callers -> Nat]
    /\ off \in 0 .. Section

MicrosInv == MicrosTyped /\ ClockRight /\ \A c \in Callers : CallRight(c)

-----------------------------------------------------------------------------
LEMMA MicrosNumbers ==
    /\ MS \in Nat \ {0} /\ WORD_SIZE \in Nat \ {0} /\ EXPIRY \in Nat \ {0}
    /\ Period \in Nat \ {0} /\ Period = MS * EXPIRY /\ Section \in Nat /\ Section < Period
<1>1. MS \in Nat \ {0} /\ WORD_SIZE \in Nat \ {0} /\ EXPIRY \in Nat \ {0} /\ Section \in 0 .. Period - 1
    BY ConstantsAssumption
<1>2. Period \in Nat \ {0} /\ Period = MS * EXPIRY
    BY <1>1 DEF Period
<1>3. QED
    BY <1>1, <1>2

LEMMA Remainder ==
    ASSUME NEW x \in Int, NEW w \in Nat \ {0}
    PROVE  /\ x % w \in 0 .. w - 1
           /\ \E k \in Int : (x % w) = x + k * w
           /\ 0 <= x /\ x < w => x % w = x
           /\ x = w => x % w = 0
<1>1. x % w \in 0 .. w - 1 /\ x \div w \in Int /\ x = w * (x \div w) + (x % w)
    OBVIOUS
<1>2. (x % w) = x + (-(x \div w)) * w
    BY <1>1
<1>3. 0 <= x /\ x < w => x % w = x
    OBVIOUS
<1>4. x = w => x % w = 0
    OBVIOUS
<1>5. \E k \in Int : (x % w) = x + k * w
    <2>1. PICK k : k = -(x \div w)
        OBVIOUS
    <2>2. k \in Int /\ (x % w) = x + k * w
        BY <1>1, <1>2, <2>1
    <2>3. QED
        BY <2>2
<1>6. QED
    BY <1>1, <1>3, <1>4, <1>5

LEMMA SameFacts ==
    ASSUME NEW x \in Int, NEW y \in Int, NEW z \in Int
    PROVE  /\ Same(x, x) /\ Same(x % WORD_SIZE, x)
           /\ Same(x, y) => Same(y, x)
           /\ Same(x, y) /\ Same(y, z) => Same(x, z)
           /\ Same(x, y) => Same(x + z, y + z)
           /\ Same(x, y) => Same(MS * x, MS * y)
           /\ Same(x, y) => x % WORD_SIZE = y % WORD_SIZE
<1>1. PICK w : w = WORD_SIZE
    OBVIOUS
<1>2. w \in Nat \ {0} /\ MS \in Nat
    BY <1>1, MicrosNumbers
<1>3. Same(x, x) /\ Same(x % w, x)
    <2>1. x = x + 0 * w
        BY <1>2
    <2>2. PICK k \in Int : (x % w) = x + k * w
        BY <1>2, Remainder
    <2>3. QED
        BY <1>1, <2>1, <2>2 DEF Same
<1>4. ASSUME NEW k \in Int, x = y + k * w
      PROVE  /\ Same(y, x) /\ Same(x + z, y + z) /\ Same(MS * x, MS * y) /\ x % w = y % w
    <2>1. y = x + (-k) * w /\ x + z = (y + z) + k * w
        BY <1>2, <1>4
    <2>2. MS * x = MS * y + (MS * k) * w /\ MS * k \in Int
        BY <1>2, <1>4
    <2>3. x % w = y % w
        <3>1. PICK j \in Int, l \in Int : (x % w) = x + j * w /\ (y % w) = y + l * w
            BY <1>2, Remainder
        <3>2. PICK i, q : i = k + (j - l) /\ q = (x % w) - (y % w)
            OBVIOUS
        <3>3. i \in Int /\ q = i * w
            BY <1>2, <1>4, <3>1, <3>2
        <3>4. -w < q /\ q < w
            BY <1>2, <3>2, Remainder
        <3>5. i = 0
            <4>1. i >= 1 => q >= w
                BY <1>2, <3>3
            <4>2. i <= -1 => q <= -w
                BY <1>2, <3>3
            <4>3. QED
                BY <1>2, <3>3, <3>4, <4>1, <4>2
        <3>6. (x % w) \in Int /\ (y % w) \in Int
            BY <1>2, Remainder
        <3>7. q = 0
            BY <1>2, <3>3, <3>5
        <3>8. QED
            BY <3>2, <3>6, <3>7
    <2>4. QED
        BY <1>1, <2>1, <2>2, <2>3 DEF Same
<1>5. ASSUME NEW k \in Int, NEW l \in Int, x = y + k * w, y = z + l * w PROVE Same(x, z)
    <2>1. x = z + (k + l) * w
        BY <1>2, <1>5
    <2>2. QED
        BY <1>1, <2>1 DEF Same
<1>6. QED
    BY <1>1, <1>3, <1>4, <1>5 DEF Same

LEMMA SameThrough ==
    ASSUME NEW x \in Int, NEW y \in Int, NEW z \in Int, Same(x, y), Same(y, z)
    PROVE  Same(x, z)
    BY SameFacts

LEMMA StartMicros == MicrosInit => MicrosInv
<1> SUFFICES ASSUME MicrosInit PROVE MicrosInv
    OBVIOUS
<1>1. MicrosTyped
    <2>1. 0 \in 0 .. Period - 1 /\ 0 \in 0 .. Section
        BY MicrosNumbers
    <2>2. now \in Int /\ millis \in Int /\ count \in 0 .. Period - 1 /\ compare \in BOOLEAN
        <3>1. now = 0 /\ millis = 0 /\ count = 0 /\ compare = FALSE
            BY DEF MicrosInit
        <3>2. compare \in BOOLEAN
            BY Zenon, <3>1
        <3>3. QED
            BY <2>1, <3>1, <3>2
    <2>3. cc \in [1 .. 2 -> 0 .. Period - 1] /\ pc \in [Callers -> Steps]
        BY <2>1 DEF MicrosInit, Steps
    <2>4. extra \in [Callers -> BOOLEAN] /\ my_millis \in [Callers -> Int]
        BY DEF MicrosInit
    <2>5. /\ ticks1 \in [Callers -> 0 .. Period - 1] /\ since \in [Callers -> Nat]
          /\ off \in 0 .. Section
        BY <2>1 DEF MicrosInit
    <2>6. QED
        BY <2>2, <2>3, <2>4, <2>5 DEF MicrosTyped
<1>2. ClockRight
    <2>1. MS * 0 + (0 + 0) = 0
        BY MicrosNumbers
    <2>2. QED
        BY <2>1, SameFacts DEF MicrosInit, ClockRight, Uncounted
<1>3. QED
    BY <1>1, <1>2 DEF MicrosInit, MicrosInv, CallRight

\* The clock goes on.
LEMMA LaterFacts ==
    ASSUME NEW x \in Int, NEW t \in Int, NEW s \in Int, NEW u \in Int,
           Same(x, t - u), s = (t + 1) % WORD_SIZE
    PROVE  Same(x, s - (u + 1))
<1>1. PICK a, b, d, e : a = t + 1 /\ b = -(u + 1) /\ d = s - (u + 1) /\ e = t - u
    OBVIOUS
<1>2. a \in Int /\ b \in Int /\ e \in Int
    BY <1>1
<1>3. s \in Int /\ s = a % WORD_SIZE
    BY <1>1, <1>2, MicrosNumbers, Remainder
<1>4. d \in Int /\ d = s + b /\ e = a + b
    BY <1>1, <1>3
<1>5. Same(s, a)
    BY <1>2, <1>3, SameFacts
<1>6. Same(s + b, a + b)
    BY Zenon, <1>2, <1>3, <1>5, SameFacts
<1>7. Same(d, e) /\ Same(x, e)
    BY Zenon, <1>1, <1>4, <1>6
<1>8. Same(e, d)
    BY Zenon, <1>2, <1>4, <1>7, SameFacts
<1>9. Same(x, d)
    BY <1>2, <1>4, <1>7, <1>8, SameThrough
<1>10. QED
    BY Zenon, <1>1, <1>9

LEMMA MicrosecondKeeps == MicrosInv /\ Microsecond => MicrosInv'
<1> SUFFICES ASSUME MicrosInv, Microsecond PROVE MicrosInv'
    OBVIOUS
<1>1. /\ now' = (now + 1) % WORD_SIZE /\ count' = (count + 1) % Period
      /\ compare' = (compare \/ count = Period - 1)
      /\ count = Period - 1 => ~compare
      /\ UNCHANGED <<millis, cc, pc, extra, my_millis, ticks1>>
      /\ Enabled \/ off < Section
      /\ off' = IF Enabled THEN 0 ELSE off + 1
      /\ since' = [c \in Callers |-> IF pc[c] = "idle" THEN 0 ELSE since[c] + 1]
    BY DEF Microsecond, locals
<1>2. /\ MicrosTyped /\ now \in Int /\ count \in Nat /\ count < Period /\ compare \in BOOLEAN
      /\ off \in 0 .. Section /\ millis \in Int
    BY MicrosNumbers DEF MicrosInv, MicrosTyped
<1>3. now' \in Int
    BY <1>1, <1>2, MicrosNumbers, Remainder
<1>4. \/ count + 1 < Period /\ count' = count + 1 /\ (compare' <=> compare)
      \/ count = Period - 1 /\ count' = 0 /\ compare' /\ ~compare
    <2>1. PICK k : k = count + 1
        OBVIOUS
    <2>2. k \in Nat /\ (k < Period \/ k = Period) /\ count' = k % Period
        BY <1>1, <1>2, <2>1, MicrosNumbers
    <2>3. CASE k < Period
        <3>1. count' = k
            BY <2>2, <2>3, MicrosNumbers, Remainder
        <3>2. count # Period - 1
            BY <1>2, <2>1, <2>3, MicrosNumbers
        <3>3. QED
            BY <1>1, <2>1, <2>3, <3>1, <3>2
    <2>4. CASE k = Period
        <3>1. count' = 0 /\ count = Period - 1
            BY <1>2, <2>1, <2>2, <2>4, MicrosNumbers, Remainder
        <3>2. QED
            BY <1>1, <3>1
    <2>5. QED
        BY <2>2, <2>3, <2>4
<1>5. off' \in 0 .. Section
    BY <1>1, <1>2, MicrosNumbers
<1>6. MicrosTyped'
    <2>1. since' \in [Callers -> Nat]
        BY <1>1, <1>2 DEF MicrosTyped
    <2>2. count' \in 0 .. Period - 1
        BY <1>2, <1>4, MicrosNumbers
    <2>3. compare' \in BOOLEAN
        BY <1>1
    <2>4. QED
        BY <1>1, <1>2, <1>3, <1>5, <2>1, <2>2, <2>3 DEF MicrosTyped
<1>7. ClockRight'
    <2>1. PICK m, x, y : /\ m = MS * millis /\ x = m + (count + Uncounted(compare))
                         /\ y = m + (count' + Uncounted(compare'))
        OBVIOUS
    <2>2. m \in Int /\ x \in Int /\ y \in Int /\ y = x + 1
        BY <1>2, <1>4, <2>1, MicrosNumbers DEF Uncounted
    <2>3. Same(now, x)
        BY <2>1 DEF MicrosInv, ClockRight
    <2>4. PICK a, b, t : a = now + 1 /\ b = now' /\ t = now
        OBVIOUS
    <2>5. a \in Int /\ b \in Int /\ t \in Int /\ 1 \in Int /\ b = a % WORD_SIZE
        BY <1>1, <1>2, <1>3, <2>4
    <2>6. Same(b, y)
        <3>1. Same(t + 1, x + 1)
            BY Zenon, <2>2, <2>3, <2>4, <2>5, SameFacts
        <3>2. Same(a, y)
            BY Zenon, <2>2, <2>4, <3>1
        <3>3. Same(b, a)
            BY <2>5, SameFacts
        <3>4. QED
            BY <2>2, <2>5, <3>2, <3>3, SameThrough
    <2>7. QED
        BY <1>1, <2>1, <2>4, <2>6 DEF ClockRight
<1>8. ASSUME NEW c \in Callers PROVE CallRight(c)'
    <2>1. pc'[c] = pc[c] /\ CallRight(c) /\ since[c] \in Nat
          /\ cc[1] \in 0 .. Period - 1 /\ cc[2] \in 0 .. Period - 1
          /\ ticks1[c] \in 0 .. Period - 1 /\ my_millis[c] \in Int
        BY <1>1, <1>2 DEF MicrosInv, MicrosTyped
    <2>2. pc[c] # "idle" => since'[c] = since[c] + 1
        BY <1>1
    <2>3. pc[c] \in Disabled => off' = off + 1
        BY <1>1 DEF Enabled
    <2>4. ASSUME pc[c] = "captured" PROVE Captured(c)'
        <3>1. PICK u \in Enough(c) : u <= off /\ ( \/ count = cc[1] + u
                                                   \/ compare /\ count + Period = cc[1] + u )
            BY <2>1, <2>4 DEF CallRight, Captured
        <3>2. u + 1 \in Enough(c)' /\ u + 1 <= off' /\ u \in Nat
            BY <1>2, <2>1, <2>2, <2>3, <2>4, <3>1 DEF Enough, Disabled
        <3>3. \/ count' = cc[1] + (u + 1)
              \/ compare' /\ count' + Period = cc[1] + (u + 1)
            BY <1>2, <1>4, <2>1, <3>1, <3>2, MicrosNumbers
        <3>4. QED
            BY <1>1, <3>2, <3>3 DEF Captured
    <2>5. ASSUME pc[c] = "inspected" PROVE Inspected(c)'
        <3>1. PICK u \in Enough(c) : u <= off /\ ( \/ count = cc[1] + u /\ extra[c] = compare
                                                   \/ compare /\ count + Period = cc[1] + u )
            BY <2>1, <2>5 DEF CallRight, Inspected
        <3>2. u + 1 \in Enough(c)' /\ u + 1 <= off' /\ u \in Nat
            BY <1>2, <2>1, <2>2, <2>3, <2>5, <3>1 DEF Enough, Disabled
        <3>3. CASE count + 1 < Period
            <4>1. count' = count + 1 /\ compare' = compare
                BY <1>2, <1>4, <3>3, MicrosNumbers, <1>1
            <4>2. count = cc[1] + u => count' = cc[1] + (u + 1)
                BY <1>2, <2>1, <3>2, <4>1
            <4>3. count + Period = cc[1] + u => count' + Period = cc[1] + (u + 1)
                BY <1>2, <2>1, <3>2, <4>1, MicrosNumbers
            <4>4. QED
                BY <1>1, <3>1, <3>2, <4>1, <4>2, <4>3 DEF Inspected
        <3>4. CASE ~(count + 1 < Period)
            <4>1. count = Period - 1 /\ count' = 0 /\ compare' /\ ~compare
                BY <1>4, <3>4
            <4>2. count = cc[1] + u
                BY <3>1, <4>1
            <4>3. count' + Period = cc[1] + (u + 1)
                BY <1>2, <2>1, <3>2, <4>1, <4>2, MicrosNumbers
            <4>4. QED
                BY <1>1, <3>2, <4>1, <4>3 DEF Inspected
        <3>5. QED
            BY <3>3, <3>4
    <2>6. ASSUME pc[c] # "idle", NEW m \in Int, NEW first \in 0 .. Period - 1, Exactly(c, m, first)
          PROVE  \E u \in Enough(c)' :
                    Same(MS * m + (first + Uncounted(Corrects(extra[c], first, cc[2]))), now' - u)
        <3>1. PICK x : x = MS * m + (first + Uncounted(Corrects(extra[c], first, cc[2])))
            OBVIOUS
        <3>2. x \in Int
            BY <3>1, MicrosNumbers DEF Uncounted
        <3>3. PICK u \in Enough(c) : Same(x, now - u)
            BY <2>6, <3>1 DEF Exactly
        <3>4. u \in Int /\ u + 1 \in Enough(c)'
            BY <2>1, <2>2, <2>6, <3>3 DEF Enough
        <3>5. Same(x, now' - (u + 1))
            BY <1>1, <1>2, <1>3, <3>2, <3>3, <3>4, LaterFacts
        <3>6. QED
            BY <3>1, <3>4, <3>5
    <2>7. ASSUME pc[c] \in {"enabled", "read"} PROVE Roughly(c)'
        <3>1. PICK u \in Enough(c), r \in 0 .. Period + Period - 1 :
                  Same(MS * my_millis[c], now - (u + r))
            BY <2>1, <2>7 DEF CallRight, Roughly
        <3>2. u \in Int /\ r \in Int /\ u + 1 \in Enough(c)'
            BY <2>1, <2>2, <2>7, <3>1, MicrosNumbers DEF Enough
        <3>3. MS * my_millis[c] \in Int
            BY <2>1, MicrosNumbers
        <3>4. PICK x, v : x = MS * my_millis[c] /\ v = u + r
            OBVIOUS
        <3>5. Same(x, now' - (v + 1)) /\ v + 1 = (u + 1) + r
            <4>1. x \in Int /\ v \in Int /\ Same(x, now - v) /\ v + 1 = (u + 1) + r
                BY <3>1, <3>2, <3>3, <3>4
            <4>2. Same(x, now' - (v + 1))
                BY <1>1, <1>2, <1>3, <4>1, LaterFacts
            <4>3. QED
                BY <4>1, <4>2
        <3>6. QED
            BY <1>1, <3>2, <3>4, <3>5 DEF Roughly, Period
    <2>8. QED
        BY <1>1, <1>2, <2>1, <2>4, <2>5, <2>6, <2>7 DEF CallRight, Exactly
<1>9. QED
    BY <1>6, <1>7, <1>8 DEF MicrosInv

LEMMA timer1_handlerKeeps == MicrosInv /\ timer1_handler => MicrosInv'
<1> SUFFICES ASSUME MicrosInv, timer1_handler PROVE MicrosInv'
    OBVIOUS
<1>1. /\ Enabled /\ compare /\ ~compare' /\ millis' = (millis + EXPIRY) % WORD_SIZE
      /\ compare' = FALSE
      /\ UNCHANGED <<now, count, cc, pc, extra, my_millis, ticks1, since, off>>
    BY DEF timer1_handler, locals
<1>2. MicrosTyped /\ now \in Int /\ millis \in Int /\ count \in Int
    BY MicrosNumbers DEF MicrosInv, MicrosTyped
<1>3. millis' \in Int
    BY <1>1, <1>2, MicrosNumbers, Remainder
<1>4. ClockRight'
    <2>1. PICK m, q : m = MS * millis /\ q = MS * millis'
        OBVIOUS
    <2>2. MS * (millis + EXPIRY) = m + Period /\ m \in Int /\ q \in Int
        BY <1>2, <1>3, <2>1, MicrosNumbers
    <2>3. PICK a, b, d : a = millis + EXPIRY /\ b = millis' /\ d = m + Period
        OBVIOUS
    <2>4. Same(q + count, (m + Period) + count)
        <3>1. a \in Int /\ b \in Int /\ d \in Int /\ b = a % WORD_SIZE
            BY <1>1, <1>2, <1>3, <2>2, <2>3, MicrosNumbers
        <3>2. Same(b, a)
            BY <3>1, SameFacts
        <3>3. Same(MS * b, MS * a)
            BY Zenon, <3>1, <3>2, SameFacts
        <3>4. Same(q, d)
            BY Zenon, <2>1, <2>2, <2>3, <3>3
        <3>5. Same(q + count, d + count)
            BY Zenon, <1>2, <2>2, <3>1, <3>4, SameFacts
        <3>6. QED
            BY Zenon, <2>3, <3>5
    <2>5. Same(now, m + (count + Period))
        BY <1>1, <2>1 DEF MicrosInv, ClockRight, Uncounted
    <2>6. m + (count + Period) = (m + Period) + count /\ m + (count + Period) \in Int
        BY <1>2, <2>2, MicrosNumbers
    <2>7. Same(now, q + count)
        BY <1>2, <2>2, <2>4, <2>5, <2>6, SameFacts
    <2>8. q + (count + 0) = q + count
        BY <1>2, <2>2
    <2>9. QED
        BY <1>1, <2>1, <2>7, <2>8 DEF ClockRight, Uncounted
<1>5. ASSUME NEW c \in Callers PROVE CallRight(c)'
    <2>1. pc[c] \notin Disabled /\ CallRight(c)
        BY <1>1 DEF Enabled, MicrosInv
    <2>2. QED
        BY <1>1, <2>1 DEF Disabled, CallRight, Exactly, Roughly, Enough
<1>6. MicrosTyped'
    BY <1>1, <1>2, <1>3 DEF MicrosTyped
<1>7. QED
    BY <1>4, <1>5, <1>6 DEF MicrosInv

-----------------------------------------------------------------------------
(* The steps of a call *)

\* While c runs, whoever else is in the call waits to read what it captured.
LEMMA OthersKeep ==
    ASSUME MicrosInv, NEW c \in Callers, MayRun(c),
           UNCHANGED <<now, millis, count, compare>>,
           NEW d \in Callers, d # c, pc'[d] = pc[d], my_millis'[d] = my_millis[d],
           since'[d] = since[d]
    PROVE  CallRight(d)'
<1>1. pc[d] # "idle" => pc[d] \notin Disabled /\ prio[d] > P_HANDLER
    BY DEF MayRun
<1>2. prio[d] > P_HANDLER => prio[d] # P_HANDLER
    BY ConstantsAssumption
<1>3. pc[d] \in Steps
    BY DEF MicrosInv, MicrosTyped
<1>4. pc[d] \in {"enabled", "read"} => Roughly(d)
    BY DEF MicrosInv, CallRight
<1>5. Roughly(d) => Roughly(d)'
    BY DEF Roughly, Enough
<1>6. QED
    BY <1>1, <1>2, <1>3, <1>4, <1>5 DEF CallRight, Disabled, Steps

LEMMA DisableKeeps == ASSUME MicrosInv, NEW c \in Callers, Disable(c) PROVE MicrosInv'
<1>1. /\ MayRun(c) /\ pc' = [pc EXCEPT ![c] = "disabled"] /\ off' = 0
      /\ UNCHANGED <<now, millis, count, compare, cc, extra, my_millis, ticks1, since>>
    BY DEF Disable, At, microsClock, locals
<1>2. MicrosTyped'
    BY <1>1, MicrosNumbers DEF MicrosInv, MicrosTyped, Steps
<1>3. ClockRight'
    BY <1>1 DEF MicrosInv, ClockRight
<1>4. pc'[c] = "disabled" /\ \A d \in Callers \ {c} : pc'[d] = pc[d]
    BY <1>1 DEF MicrosInv, MicrosTyped
<1>5. CallRight(c)'
    BY <1>4 DEF CallRight
<1>6. QED
    BY <1>1, <1>2, <1>3, <1>4, <1>5, OthersKeep DEF MicrosInv

LEMMA CaptureFirstKeeps == ASSUME MicrosInv, NEW c \in Callers, CaptureFirst(c) PROVE MicrosInv'
<1>1. /\ MayRun(c) /\ pc' = [pc EXCEPT ![c] = "captured"] /\ cc' = [cc EXCEPT ![1] = count]
      /\ UNCHANGED <<now, millis, count, compare, extra, my_millis, ticks1, since, off>>
    BY DEF CaptureFirst, At, microsClock, locals
<1>2. MicrosTyped'
    BY <1>1 DEF MicrosInv, MicrosTyped, Steps
<1>3. ClockRight'
    BY <1>1 DEF MicrosInv, ClockRight
<1>4. /\ pc'[c] = "captured" /\ \A d \in Callers \ {c} : pc'[d] = pc[d]
      /\ cc'[1] = count
    BY <1>1 DEF MicrosInv, MicrosTyped
<1>5. CallRight(c)'
    <2>1. since[c] \in Nat /\ off \in Nat /\ count \in Int
        BY MicrosNumbers DEF MicrosInv, MicrosTyped
    <2>2. 0 \in Enough(c)' /\ 0 <= off' /\ count' = cc'[1] + 0
        BY <1>1, <1>4, <2>1 DEF Enough
    <2>3. Captured(c)'
        BY <2>2 DEF Captured
    <2>4. QED
        BY <1>4, <2>3 DEF CallRight
<1>6. QED
    BY <1>1, <1>2, <1>3, <1>4, <1>5, OthersKeep DEF MicrosInv

LEMMA InspectKeeps == ASSUME MicrosInv, NEW c \in Callers, Inspect(c) PROVE MicrosInv'
<1>1. /\ MayRun(c) /\ pc[c] = "captured" /\ pc' = [pc EXCEPT ![c] = "inspected"]
      /\ extra' = [extra EXCEPT ![c] = compare]
      /\ UNCHANGED <<now, millis, count, compare, cc, my_millis, ticks1, since, off>>
    BY DEF Inspect, At, microsClock
<1>2. MicrosTyped'
    BY <1>1 DEF MicrosInv, MicrosTyped, Steps
<1>3. ClockRight'
    BY <1>1 DEF MicrosInv, ClockRight
<1>4. /\ pc'[c] = "inspected" /\ \A d \in Callers \ {c} : pc'[d] = pc[d]
      /\ extra'[c] = compare
    BY <1>1 DEF MicrosInv, MicrosTyped
<1>5. CallRight(c)'
    <2>1. Captured(c)
        BY <1>1 DEF MicrosInv, CallRight
    <2>2. Inspected(c)'
        BY <1>1, <1>4, <2>1 DEF Captured, Inspected, Enough
    <2>3. QED
        BY <1>4, <2>2 DEF CallRight
<1>6. QED
    BY <1>1, <1>2, <1>3, <1>4, <1>5, OthersKeep DEF MicrosInv

\* The expiry is added just when it came before the first capture.
LEMMA CaptureSecondKeeps == ASSUME MicrosInv, NEW c \in Callers, CaptureSecond(c) PROVE MicrosInv'
<1>1. /\ MayRun(c) /\ pc[c] = "inspected" /\ pc' = [pc EXCEPT ![c] = "recaptured"]
      /\ cc' = [cc EXCEPT ![2] = count]
      /\ UNCHANGED <<now, millis, count, compare, extra, my_millis, ticks1, since, off>>
    BY DEF CaptureSecond, At, microsClock, locals
<1>2. MicrosTyped'
    BY <1>1 DEF MicrosInv, MicrosTyped, Steps
<1>3. ClockRight'
    BY <1>1 DEF MicrosInv, ClockRight
<1>4. /\ pc'[c] = "recaptured" /\ \A d \in Callers \ {c} : pc'[d] = pc[d]
      /\ cc'[1] = cc[1] /\ cc'[2] = count /\ cc[1] \in Nat
    BY <1>1 DEF MicrosInv, MicrosTyped
<1>5. /\ now \in Int /\ count \in Nat /\ count < Period /\ off \in 0 .. Section /\ millis \in Int
      /\ since[c] \in Nat /\ compare \in BOOLEAN /\ extra[c] \in BOOLEAN
    BY MicrosNumbers DEF MicrosInv, MicrosTyped
<1>6. PICK u \in Enough(c) : u <= off /\ ( \/ count = cc[1] + u /\ extra[c] = compare
                                           \/ compare /\ count + Period = cc[1] + u )
    BY <1>1 DEF MicrosInv, CallRight, Inspected
<1>7. PICK m, first, p : /\ m = MS * millis /\ first = cc[1]
                         /\ p = Uncounted(Corrects(extra[c], first, count))
    OBVIOUS
<1>8. m \in Int /\ first \in Nat /\ p \in Int /\ u \in Nat
    BY <1>4, <1>5, <1>6, <1>7, MicrosNumbers DEF Uncounted, Enough
<1>9. m + (count + Uncounted(compare)) = (m + (first + p)) + u
    <2>1. CASE count = first + u /\ extra[c] = compare
        <3>1. first <= count
            BY <1>8, <2>1
        <3>2. p = Uncounted(compare)
            <4>1. Corrects(extra[c], first, count) = compare
                BY <1>5, <2>1, <3>1 DEF Corrects
            <4>2. QED
                BY Zenon, <1>7, <4>1
        <3>3. Uncounted(compare) \in Int
            BY MicrosNumbers DEF Uncounted
        <3>4. QED
            BY <1>5, <1>8, <2>1, <3>2, <3>3
    <2>2. CASE compare /\ count + Period = first + u
        <3>1. ~(first <= count)
            BY <1>5, <1>6, <1>8, <2>2, MicrosNumbers
        <3>2. p = 0 /\ Uncounted(compare) = Period
            BY <1>7, <2>2, <3>1 DEF Corrects, Uncounted
        <3>3. m + (count + Period) = (m + (first + 0)) + u
            BY <1>5, <1>8, <2>2, MicrosNumbers
        <3>4. QED
            BY Zenon, <3>2, <3>3
    <2>3. QED
        BY <1>6, <1>7, <2>1, <2>2
<1>10. Same(m + (first + p), now - u)
    <2>1. PICK x, y, v : x = m + (first + p) /\ v = -u /\ y = x + u
        OBVIOUS
    <2>2. /\ x \in Int /\ v \in Int /\ y \in Int /\ y + v = x /\ now + v = now - u
          /\ now - u \in Int
        BY <1>5, <1>8, <2>1
    <2>3. Same(now, y)
        BY Zenon, <1>7, <1>9, <2>1 DEF MicrosInv, ClockRight
    <2>4. Same(now + v, y + v)
        BY Zenon, <1>5, <2>2, <2>3, SameFacts
    <2>5. Same(now - u, x)
        BY Zenon, <2>2, <2>4
    <2>6. Same(x, now - u)
        BY Zenon, <2>2, <2>5, SameFacts
    <2>7. QED
        BY Zenon, <2>1, <2>6
<1>11. CallRight(c)'
    <2>1. Exactly(c, millis, cc[1])'
        BY <1>1, <1>4, <1>6, <1>7, <1>10 DEF Exactly, Enough
    <2>2. QED
        BY <1>4, <2>1 DEF CallRight
<1>12. QED
    BY <1>1, <1>2, <1>3, <1>4, <1>11, OthersKeep DEF MicrosInv

LEMMA EnableKeeps == ASSUME MicrosInv, NEW c \in Callers, Enable(c) PROVE MicrosInv'
<1>1. /\ MayRun(c) /\ pc[c] = "recaptured" /\ pc' = [pc EXCEPT ![c] = "enabled"]
      /\ my_millis' = [my_millis EXCEPT ![c] = millis] /\ off' = 0
      /\ UNCHANGED <<now, millis, count, compare, cc, extra, ticks1, since>>
    BY DEF Enable, At, microsClock
<1>2. MicrosTyped'
    BY <1>1, MicrosNumbers DEF MicrosInv, MicrosTyped, Steps
<1>3. ClockRight'
    BY <1>1 DEF MicrosInv, ClockRight
<1>4. /\ pc'[c] = "enabled" /\ \A d \in Callers \ {c} : pc'[d] = pc[d] /\ my_millis'[d] = my_millis[d]
      /\ my_millis'[c] = millis
    BY <1>1 DEF MicrosInv, MicrosTyped
<1>5. Exactly(c, my_millis[c], cc[1])'
    BY <1>1, <1>4 DEF MicrosInv, CallRight, Exactly, Enough
<1>6. Roughly(c)'
    <2>1. PICK m, r, v : m = MS * millis /\ r = count + Uncounted(compare) /\ v = -r
        OBVIOUS
    <2>2. /\ m \in Int /\ r \in 0 .. Period + Period - 1 /\ v \in Int /\ now \in Int
          /\ since[c] \in Nat
        BY <2>1, MicrosNumbers DEF MicrosInv, MicrosTyped, Uncounted
    <2>3. m + r \in Int /\ (m + r) + v = m /\ now + v = now - (0 + r) /\ now + v \in Int
        BY <2>1, <2>2
    <2>4. Same(now, m + r)
        BY Zenon, <2>1 DEF MicrosInv, ClockRight
    <2>5. Same(now + v, (m + r) + v)
        BY Zenon, <2>2, <2>3, <2>4, SameFacts
    <2>6. Same(m, now + v)
        <3>1. Same(now + v, m)
            BY Zenon, <2>3, <2>5
        <3>2. QED
            BY Zenon, <2>2, <2>3, <3>1, SameFacts
    <2>7. 0 \in Enough(c)'
        BY <1>1, <2>2 DEF Enough
    <2>8. Same(MS * my_millis'[c], now' - (0 + r))
        BY Zenon, <1>1, <1>4, <2>1, <2>3, <2>6
    <2>9. QED
        BY <2>2, <2>7, <2>8 DEF Roughly, Period
<1>7. CallRight(c)'
    BY <1>4, <1>5, <1>6 DEF CallRight
<1>8. QED
    BY <1>1, <1>2, <1>3, <1>4, <1>7, OthersKeep DEF MicrosInv

LEMMA ReadFirstKeeps == ASSUME MicrosInv, NEW c \in Callers, ReadFirst(c) PROVE MicrosInv'
<1>1. /\ MayRun(c) /\ pc[c] = "enabled" /\ pc' = [pc EXCEPT ![c] = "read"]
      /\ ticks1' = [ticks1 EXCEPT ![c] = cc[1]]
      /\ UNCHANGED <<now, millis, count, compare, cc, extra, my_millis, since, off>>
    BY DEF ReadFirst, At, microsClock
<1>2. MicrosTyped'
    BY <1>1 DEF MicrosInv, MicrosTyped, Steps
<1>3. ClockRight'
    BY <1>1 DEF MicrosInv, ClockRight
<1>4. /\ pc'[c] = "read" /\ \A d \in Callers \ {c} : pc'[d] = pc[d]
      /\ ticks1'[c] = cc[1]
    BY <1>1 DEF MicrosInv, MicrosTyped
<1>5. CallRight(c)'
    BY <1>1, <1>4 DEF MicrosInv, CallRight, Exactly, Roughly, Enough
<1>6. QED
    BY <1>1, <1>2, <1>3, <1>4, <1>5, OthersKeep DEF MicrosInv

LEMMA MicrosReturnKeeps == ASSUME MicrosInv, NEW c \in Callers, MicrosReturn(c) PROVE MicrosInv'
<1>1. /\ MayRun(c) /\ pc' = [pc EXCEPT ![c] = "idle"]
      /\ extra' = [extra EXCEPT ![c] = FALSE] /\ my_millis' = [my_millis EXCEPT ![c] = 0]
      /\ ticks1' = [ticks1 EXCEPT ![c] = 0] /\ since' = [since EXCEPT ![c] = 0]
      /\ UNCHANGED <<now, millis, count, compare, cc, off>>
    BY DEF MicrosReturn, At, microsClock
<1>2. MicrosTyped'
    <2>1. 0 \in 0 .. Period - 1
        BY MicrosNumbers
    <2>2. QED
        BY <1>1, <2>1 DEF MicrosInv, MicrosTyped, Steps
<1>3. ClockRight'
    BY <1>1 DEF MicrosInv, ClockRight
<1>4. /\ pc'[c] = "idle"
      /\ \A d \in Callers \ {c} :
            pc'[d] = pc[d] /\ my_millis'[d] = my_millis[d] /\ since'[d] = since[d]
    BY <1>1 DEF MicrosInv, MicrosTyped
<1>5. CallRight(c)'
    BY <1>4 DEF CallRight
<1>6. QED
    BY <1>1, <1>2, <1>3, <1>4, <1>5, OthersKeep DEF MicrosInv

LEMMA MicrosRests == MicrosInv /\ UNCHANGED microsVars => MicrosInv'
<1> SUFFICES ASSUME MicrosInv, UNCHANGED microsVars PROVE MicrosInv'
    OBVIOUS
<1>1. UNCHANGED <<now, millis, count, compare, cc, pc, extra, my_millis, ticks1, since, off>>
    BY DEF microsVars, microsClock, locals
<1>2. MicrosTyped' /\ ClockRight'
    BY <1>1 DEF MicrosInv, MicrosTyped, ClockRight
<1>3. \A c \in Callers : CallRight(c) => CallRight(c)'
    BY <1>1 DEF CallRight, Captured, Inspected, Exactly, Roughly, Enough
<1>4. QED
    BY <1>2, <1>3 DEF MicrosInv

\* The clock is right modulo the word, and every call of timer_micros() knows
\* what the steps it has done allow it to know.
THEOREM MicrosInvariance == MicrosSpec => []MicrosInv
<1>1. MicrosInv /\ [MicrosNext]_microsVars => MicrosInv'
    <2> SUFFICES ASSUME MicrosInv, [MicrosNext]_microsVars PROVE MicrosInv'
        OBVIOUS
    <2>1. ASSUME NEW c \in Callers, timer_micros(c) PROVE MicrosInv'
        BY <2>1, DisableKeeps, CaptureFirstKeeps, InspectKeeps, CaptureSecondKeeps,
           EnableKeeps, ReadFirstKeeps, MicrosReturnKeeps DEF timer_micros
    <2>2. QED
        BY <2>1, MicrosecondKeeps, timer1_handlerKeeps, MicrosRests DEF MicrosNext
<1>2. QED
    BY StartMicros, <1>1, PTL DEF MicrosSpec

\* A caller of interrupt priority gets a time within its call from
\* timer_micros(), and any other one a time less than two periods from it:
\* for all callers, priorities and periods, if interrupts are disabled for
\* less than a period at a time.
THEOREM MicrosAreAccurate == MicrosSpec => []MicrosAccurate
<1>1. ASSUME MicrosInv, NEW c \in Callers, pc[c] = "read"
      PROVE  /\ prio[c] = P_HANDLER =>
                    \E t \in 0 .. since[c] : Answer(c) = (now - t) % WORD_SIZE
             /\ \E t \in -(2 * Period - 1) .. since[c] + (2 * Period - 1) :
                    Answer(c) = (now - t) % WORD_SIZE
    <2>1. PICK m, a, p, x : /\ m = my_millis[c] /\ a = ticks1[c]
                            /\ p = Uncounted(Corrects(extra[c], a, cc[2]))
                            /\ x = MS * m + (a + p)
        OBVIOUS
    <2>2. /\ m \in Int /\ a \in 0 .. Period - 1 /\ p \in {0, Period} /\ now \in Int
          /\ since[c] \in Nat /\ x \in Int /\ MS * m \in Int
        BY <1>1, <2>1, MicrosNumbers DEF MicrosInv, MicrosTyped, Uncounted
    <2>3. Answer(c) = x % WORD_SIZE
        <3>1. PICK e : e = IF Corrects(extra[c], a, cc[2]) THEN EXPIRY ELSE 0
            OBVIOUS
        <3>2. MS * (m + e) = MS * m + p /\ e \in Int
            BY <2>1, <2>2, <3>1, MicrosNumbers DEF Uncounted
        <3>3. MS * (m + e) + a = x
            BY <2>1, <2>2, <3>2, MicrosNumbers
        <3>4. Answer(c) = (MS * (m + e) + a) % WORD_SIZE
            BY <2>1, <3>1 DEF Answer
        <3>5. QED
            BY <3>3, <3>4
    <2>4. ASSUME prio[c] = P_HANDLER
          PROVE  \E t \in 0 .. since[c] : Answer(c) = (now - t) % WORD_SIZE
        <3>1. PICK u \in Enough(c) : Same(x, now - u)
            BY <1>1, <2>1, <2>4 DEF MicrosInv, CallRight, Exactly
        <3>2. u \in 0 .. since[c] /\ now - u \in Int
            BY <2>2, <3>1 DEF Enough
        <3>3. x % WORD_SIZE = (now - u) % WORD_SIZE
            BY Zenon, <2>2, <3>1, <3>2, SameFacts
        <3>4. QED
            BY <2>3, <3>2, <3>3
    <2>5. \E t \in -(2 * Period - 1) .. since[c] + (2 * Period - 1) :
              Answer(c) = (now - t) % WORD_SIZE
        <3>1. PICK u \in Enough(c), r \in 0 .. Period + Period - 1 : Same(MS * m, now - (u + r))
            BY <1>1, <2>1 DEF MicrosInv, CallRight, Roughly
        <3>2. PICK q, y, t, b : q = MS * m /\ y = now - (u + r) /\ b = a + p /\ t = (u + r) - b
            OBVIOUS
        <3>3. /\ q \in Int /\ y \in Int /\ b \in Int /\ t \in Int /\ u \in Int /\ r \in Int
            BY <2>2, <3>1, <3>2, MicrosNumbers DEF Enough
        <3>4. q + b = x /\ y + b = now - t /\ now - t \in Int
            BY <2>1, <2>2, <3>2, <3>3
        <3>5. Same(q + b, y + b)
            <4>1. Same(q, y)
                BY Zenon, <3>1, <3>2
            <4>2. QED
                BY Zenon, <3>3, <4>1, SameFacts
        <3>6. x % WORD_SIZE = (now - t) % WORD_SIZE
            <4>1. Same(x, now - t)
                BY Zenon, <3>4, <3>5
            <4>2. QED
                BY Zenon, <2>2, <3>4, <4>1, SameFacts
        <3>7. t \in -(2 * Period - 1) .. since[c] + (2 * Period - 1)
            BY <2>2, <3>1, <3>2, <3>3, MicrosNumbers DEF Enough
        <3>8. QED
            BY <2>3, <3>6, <3>7
    <2>6. QED
        BY <2>4, <2>5
<1>2. ASSUME MicrosInv PROVE HandlersExact /\ ErrorBounded
    <2>1. HandlersExact
        <3> SUFFICES ASSUME NEW c \in Callers, prio[c] = P_HANDLER, pc[c] = "read"
                     PROVE  \E t \in -0 .. since[c] + 0 : Answer(c) = (now - t) % WORD_SIZE
            BY DEF HandlersExact, AnswersWithin
        <3>1. since[c] \in Nat
            BY <1>2 DEF MicrosInv, MicrosTyped
        <3>2. -0 .. since[c] + 0 = 0 .. since[c]
            BY <3>1
        <3>3. QED
            BY <1>1, <1>2, <3>2
    <2>2. ErrorBounded
        BY <1>1, <1>2 DEF ErrorBounded, AnswersWithin
    <2>3. QED
        BY <2>1, <2>2
<1>3. MicrosInv => MicrosAccurate
    BY <1>2 DEF MicrosAccurate
<1>4. QED
    BY MicrosInvariance, <1>3, PTL
=============================================================================
