---------------------------- MODULE TimerDriver -----------------------------
(***************************************************************************)
(* The timer task of timer.c and its clients: timer_delay(), timer_pulse() *)
(* and timer_wait(), the table timer[], and the interrupt that counts the  *)
(* milliseconds and wakes the task.                                        *)
(*                                                                         *)
(* Times are relative to millis: due[i] is timer[i].next - millis.  The    *)
(* code only compares the two, so this loses nothing until they overflow.  *)
(* Messages meet as Kernel has them meet: a receiver that waits is served  *)
(* at once, senders queue in order, and a pending interrupt comes first.   *)
(* The call of tick() is left to TickClock.                                *)
(***************************************************************************)
EXTENDS Integers, Sequences, FiniteSets

CONSTANTS
    Clients,        \* Processes that call the driver
    MAX_TIMERS,     \* Slots in timer[]
    TICK,           \* Milliseconds between two interrupts
    Delays,         \* The delays and periods that clients ask for
    Prompt,         \* Clients wait for a PING as soon as it is due
    Lag             \* Bound: milliseconds a timer can be overdue

ASSUME DriverAssumption ==
    /\ MAX_TIMERS \in Nat \ {0} /\ TICK \in Nat \ {0}
    /\ Delays \subseteq Nat \ {0} /\ Lag \in Nat /\ Prompt \in BOOLEAN

Slots == 1 .. MAX_TIMERS
Nobody == "nobody"
ASSUME NobodyAssumption == Nobody \notin Clients

VARIABLES
    client,     \* client[i], period[i], due[i]: the slot i of timer[]
    period,
    due,
    task,       \* Where the timer task is
    slot,       \* Its loop variable in check_timers()
    request,    \* The client whose REGISTER it handles
    queue,      \* Clients that wait to send to it, in order
    pending,    \* The interrupt that came while it was not waiting
    st,         \* st[c]: what client c is doing
    asked,      \* asked[c]: the delay or period it asked for last
    repeats,    \* repeats[c]: whether it asked for a pulse
    sub,        \* Milliseconds since the latest interrupt
    (* Ghosts *)
    age,        \* age[c]: milliseconds since the tick before c's timer was
                \* created, modulo the period for a pulse
    passed,     \* A millisecond has passed since the task became busy
    lost        \* An interrupt came while one was pending

table == <<client, period, due>>
taskVars == <<task, slot, request, queue, pending>>
clientVars == <<st, asked, repeats>>
clockVars == <<sub, age, passed, lost>>
vars == <<table, taskVars, clientVars, clockVars>>

TaskStates == {"waiting", "ready", "checking", "sending", "sent", "creating",
               "panicked"}

Init ==
    /\ client = [i \in Slots |-> Nobody]
    /\ period = [i \in Slots |-> 0]
    /\ due = [i \in Slots |-> 0]
    /\ task = "waiting" /\ slot = 1 /\ request = Nobody
    /\ queue = <<>> /\ pending = FALSE
    /\ st = [c \in Clients |-> "running"]
    /\ asked = [c \in Clients |-> 0]
    /\ repeats = [c \in Clients |-> FALSE]
    /\ sub = 0
    /\ age = [c \in Clients |-> 0]
    /\ passed = FALSE /\ lost = FALSE

Used == {i \in Slots : client[i] # Nobody}

\* At t the task has something to do; if clients are prompt, then also while
\* it is in a send to one.
Busy(t) == t # "waiting" /\ (t = "sending" => Prompt)

Goes(t) ==
    /\ task' = t
    /\ passed' = (passed /\ Busy(t))

-----------------------------------------------------------------------------
(* Time *)

\* timer1_handler(): counts the milliseconds and sends INTERRUPT to the task.
Expiry ==
    /\ due' = [i \in Slots |-> IF i \in Used THEN due[i] - TICK ELSE 0]
    /\ IF task = "waiting"
       THEN /\ task' = "checking" /\ slot' = 1
            /\ UNCHANGED <<pending, lost>>
       ELSE /\ pending' = TRUE
            /\ lost' = (lost \/ pending)
            /\ UNCHANGED <<task, slot>>

Aged(c) ==
    IF \A i \in Used : client[i] # c THEN 0
    ELSE IF repeats[c] THEN (age[c] + 1) % asked[c]
    ELSE age[c] + 1

\* A millisecond passes.  The task, the most urgent process there is, needs
\* less than that for what it has to do, so only one passes meanwhile.
Pass ==
    /\ Busy(task) => ~passed
    /\ task # "panicked"
    /\ sub = TICK - 1 => \A i \in Used : due[i] > TICK - Lag
    /\ sub' = (sub + 1) % TICK
    /\ age' = [c \in Clients |-> Aged(c)]
    /\ passed' = Busy(task)
    /\ IF sub = TICK - 1 THEN Expiry
       ELSE UNCHANGED <<due, task, slot, pending, lost>>
    /\ UNCHANGED <<client, period, request, queue, clientVars>>

-----------------------------------------------------------------------------
(* The timer task *)

\* Back at receive(ANY), the task takes a pending interrupt first, then the
\* first message that waits, and else waits itself.
Receive ==
    /\ task = "ready"
    /\ \/ /\ pending
          /\ pending' = FALSE
          /\ slot' = 1
          /\ Goes("checking")
          /\ UNCHANGED <<request, queue, st>>
       \/ /\ ~pending /\ queue # <<>>
          /\ request' = Head(queue)
          /\ queue' = Tail(queue)
          /\ st' = [st EXCEPT ![Head(queue)] = "registered"]
          /\ Goes("creating")
          /\ UNCHANGED <<slot, pending>>
       \/ /\ ~pending /\ queue = <<>>
          /\ Goes("waiting")
          /\ UNCHANGED <<slot, request, queue, pending, st>>
    /\ UNCHANGED <<table, asked, repeats, sub, age, lost>>

IsFirst(i, S) == i \in S /\ \A j \in S : i <= j

\* The delay is counted from the latest tick.
create(c, delay, repeat) ==
    \E i \in Slots :
        /\ IsFirst(i, Slots \ Used)
        /\ client' = [client EXCEPT ![i] = c]
        /\ due' = [due EXCEPT ![i] = delay]
        /\ period' = [period EXCEPT ![i] = repeat]

Create ==
    /\ task = "creating"
    /\ create(request, asked[request],
              IF repeats[request] THEN asked[request] ELSE 0)
    /\ age' = [age EXCEPT ![request] =
                  IF repeats[request] THEN sub % asked[request] ELSE sub]
    /\ request' = Nobody
    /\ Goes("ready")
    /\ UNCHANGED <<slot, queue, pending, clientVars, sub, lost>>

TooManyTimers ==
    /\ task = "creating"
    /\ Used = Slots
    /\ task' = "panicked"
    /\ UNCHANGED <<table, slot, request, queue, pending, clientVars, clockVars>>

\* Seeded fault: a timer goes off in the tick before its time.
IsDueSoon(i) == client[i] # Nobody /\ due[i] <= 1

IsDue(i) == client[i] # Nobody /\ due[i] <= 0

NextSlot ==
    IF slot < MAX_TIMERS
    THEN Goes("checking") /\ slot' = slot + 1
    ELSE Goes("ready") /\ slot' = 1

\* check_timers() looks at one slot.  The send of PING blocks the task until
\* the client receives.
Check ==
    /\ task = "checking"
    /\ \/ /\ ~IsDue(slot)
          /\ NextSlot
          /\ UNCHANGED st
       \/ /\ IsDue(slot) /\ st[client[slot]] = "waiting"
          /\ st' = [st EXCEPT ![client[slot]] = "running"]
          /\ Goes("sent")
          /\ UNCHANGED slot
       \/ /\ IsDue(slot) /\ st[client[slot]] # "waiting"
          /\ Goes("sending")
          /\ UNCHANGED <<slot, st>>
    /\ UNCHANGED <<table, request, queue, pending, asked, repeats,
                   sub, age, lost>>

\* Seeded fault: a delay keeps its slot.
RenewKeeps(i) ==
    /\ due' = [due EXCEPT ![i] = IF period[i] > 0 THEN @ + period[i] ELSE 0]
    /\ UNCHANGED client

\* Seeded fault: the next pulse is counted from the present time.
RenewFromNow(i) ==
    /\ due' = [due EXCEPT ![i] = IF period[i] > 0 THEN period[i] ELSE 0]
    /\ client' = [client EXCEPT ![i] = IF period[i] > 0 THEN @ ELSE Nobody]

\* After the send a pulse is moved on by its period, and a delay is removed.
Renew(i) ==
    /\ due' = [due EXCEPT ![i] = IF period[i] > 0 THEN @ + period[i] ELSE 0]
    /\ client' = [client EXCEPT ![i] = IF period[i] > 0 THEN @ ELSE Nobody]

Sent ==
    /\ task = "sent"
    /\ Renew(slot)
    /\ NextSlot
    /\ UNCHANGED <<period, request, queue, pending, clientVars, sub, age, lost>>

timer_task == Receive \/ Create \/ TooManyTimers \/ Check \/ Sent

-----------------------------------------------------------------------------
(* Clients *)

\* The call sends REGISTER.  A client that has a pulse is assumed to be back
\* in timer_wait() for each, and makes no other call.
Register(c, ms, repeat) ==
    /\ st[c] = "running"
    /\ ~repeats[c]
    /\ task # "panicked"
    /\ asked' = [asked EXCEPT ![c] = ms]
    /\ repeats' = [repeats EXCEPT ![c] = repeat]
    /\ IF task = "waiting"
       THEN /\ st' = [st EXCEPT ![c] = "registered"]
            /\ task' = "creating"
            /\ request' = c
            /\ UNCHANGED queue
       ELSE /\ st' = [st EXCEPT ![c] = "registering"]
            /\ queue' = Append(queue, c)
            /\ UNCHANGED <<task, request>>
    /\ UNCHANGED <<table, slot, pending, clockVars>>

timer_delay(c) == \E ms \in Delays : Register(c, ms, FALSE)

\* A period shorter than a tick would fall behind for ever.
timer_pulse(c) == \E ms \in Delays : ms >= TICK /\ Register(c, ms, TRUE)

\* timer_pulse() returns.
Proceed(c) ==
    /\ st[c] = "registered" /\ repeats[c]
    /\ st' = [st EXCEPT ![c] = "running"]
    /\ UNCHANGED <<table, taskVars, asked, repeats, clockVars>>

\* receive(PING, NULL), the end of timer_delay() and all of timer_wait().
Wait(c) ==
    /\ st[c] = IF repeats[c] THEN "running" ELSE "registered"
    /\ IF task = "sending" /\ client[slot] = c
       THEN /\ st' = [st EXCEPT ![c] = "running"]
            /\ task' = "sent"
       ELSE /\ st' = [st EXCEPT ![c] = "waiting"]
            /\ UNCHANGED task
    /\ UNCHANGED <<table, slot, request, queue, pending, asked, repeats, clockVars>>

Next ==
    \/ Pass
    \/ timer_task
    \/ \E c \in Clients :
          timer_delay(c) \/ timer_pulse(c) \/ Proceed(c) \/ Wait(c)

\* The task has the highest priority; time passes; a client inside a call,
\* and one that has a pulse, gets the processor and goes on to receive.
Fairness ==
    /\ WF_vars(Pass)
    /\ WF_vars(timer_task)
    /\ \A c \in Clients : WF_vars(Proceed(c)) /\ WF_vars(Wait(c))

Spec == Init /\ [][Next]_vars
FairSpec == Spec /\ Fairness

-----------------------------------------------------------------------------
(* Properties *)

\* The type invariant.
TypeOK ==
    /\ client \in [Slots -> Clients \cup {Nobody}]
    /\ period \in [Slots -> Delays \cup {0}]
    /\ due \in [Slots -> Int]
    /\ task \in TaskStates
    /\ slot \in Slots
    /\ request \in Clients \cup {Nobody}
    /\ queue \in Seq(Clients)
    /\ pending \in BOOLEAN
    /\ st \in [Clients ->
          {"running", "registering", "registered", "waiting"}]
    /\ asked \in [Clients -> Delays \cup {0}]
    /\ repeats \in [Clients -> BOOLEAN]
    /\ sub \in 0 .. TICK - 1
    /\ age \in [Clients -> Nat]
    /\ passed \in BOOLEAN /\ lost \in BOOLEAN

\* The task panics for want of a slot only if every slot belongs to another
\* client, no two to the same: a delay gives its slot back before the next
\* request of its client is handled.
PanicOnlyWhenFull ==
    task = "panicked" =>
        Cardinality({client[i] : i \in Used} \ {request}) = MAX_TIMERS

\* The task is never stuck in a send to a client that is itself stuck in a
\* send to the task, the deadlock that the comment on check_timers() fears.
NoStandoff ==
    task = "sending" => st[client[slot]] \notin {"registering", "waiting"}

\* A PING reaches c in this step.
Pinged(c) == st[c] # "running" /\ st'[c] = "running" /\ ~repeats[c]

\* A delay never ends before its time, counted from the tick before its
\* timer was created.
NeverEarly ==
    [][\A c \in Clients : Pinged(c) => age[c] >= asked[c]]_vars

\* When the task waits, a pulse is due a whole number of periods after the tick
\* before it was created, and no more than one period ahead, and a delay is due
\* at its time: late handling of one pulse does not move the later ones, be it
\* so late that interrupts are lost.  Unless one was, no timer is overdue.
NoDrift ==
    task = "waiting" =>
        \A i \in Used :
            LET c == client[i] IN
            /\ IF repeats[c]
               THEN due[i] <= asked[c] /\ (due[i] + (age[c] - sub)) % asked[c] = 0
               ELSE due[i] = asked[c] - (age[c] - sub)
            /\ ~lost => due[i] > 0

\* If every client waits when its PING is due, as check_timers() assumes, then
\* every call of timer_delay(), timer_pulse() and timer_wait() returns.
CallsReturn ==
    \A c \in Clients : st[c] # "running" ~> st[c] = "running"
=============================================================================
