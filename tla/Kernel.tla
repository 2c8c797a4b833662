------------------------------- MODULE Kernel -------------------------------
(***************************************************************************)
(* The micro:bian kernel (microbian.c): processes and their queues,        *)
(* synchronous message passing, interrupts turned into messages, and       *)
(* receive with a timeout.                                                 *)
(*                                                                         *)
(* System calls, interrupt handlers and the context switch all run at one  *)
(* exception priority, so none interrupts another: each is one action, and *)
(* an interrupt handler is one action with the switch it asks for, which   *)
(* the processor takes before any other exception.  Between two system     *)
(* calls the current process may be interrupted at any point.              *)
(*                                                                         *)
(* The programs are the most general clients: the current process may make *)
(* any call, with arguments from the sets below.                           *)
(***************************************************************************)
EXTENDS Timeouts

CONSTANTS
    IDLE,           \* The idle process, pid 0
    NULL,           \* No process; no message buffer
    Irqs,           \* The interrupts devices can raise
    OwnIrqs,        \* Those whose driver has a handler of its own
    SendTypes,      \* Message types that programs send()
    SendrecTypes,   \* Message types that they sendrec()
    Filters,        \* Arguments of receive() and of a receive_t() that polls
    TimedFilters,   \* Arguments of a receive_t() that waits
    Buffers,        \* FALSE: a receive() without buffer; TRUE: with one
    Prios           \* Arguments of priority()

INTERRUPT == 1
REPLY == 2
TIMEOUT == 3
ANY == -1
HARDWARE == 65535           \* -1, in the unsigned short field sender

P_HANDLER == 0
P_LOW == 2
P_IDLE == 3
Prio == 0 .. P_LOW          \* The NPRIO non-idle priorities

ASSUME KernelAssumption ==
    /\ IDLE \notin Proc /\ NULL \notin Proc \cup {IDLE}
    /\ OwnIrqs \subseteq Irqs
    /\ SendTypes \subseteq Nat /\ SendrecTypes \subseteq Nat
    /\ Filters \subseteq Nat \cup {ANY} /\ TimedFilters \subseteq Nat \cup {ANY}
    /\ Buffers \subseteq BOOLEAN
    /\ Prios \subseteq Int

VARIABLES
    state,      \* state[p]: DEAD .. SENDREC, or ABSENT before start()
    prio,       \* prio[p]: the field priority
    waiting,    \* waiting[d]: the list of processes waiting to send to d
    pending,    \* pending[p]: whether an INTERRUPT message is pending
    filter,     \* filter[p]: message type accepted by receive
    msgbuf,     \* msgbuf[p]: what the message buffer holds, or NULL
    readyq,     \* os_readyq[]: a list for each priority
    current,    \* os_current
    handler,    \* os_handler[]
    enabled,    \* The interrupts enabled in the interrupt controller
    phase,      \* "init" in init(), "boot" up to idle's first yield, "run"
    panic       \* "none", or why the kernel has stopped

processVars == <<state, prio, waiting, pending, filter, msgbuf>>
schedVars == <<readyq, current>>
irqVars == <<handler, enabled>>
vars == <<processVars, schedVars, irqVars, phase, panic, timeoutVars>>

Dest == Proc \cup {IDLE}

\* A buffer before the kernel has written to it: its content means nothing.
Blank == [type |-> ANY, sender |-> NULL]

Init ==
    /\ state = [p \in Proc |-> "ABSENT"]
    /\ prio = [p \in Proc |-> P_LOW]
    /\ waiting = [d \in Dest |-> <<>>]
    /\ pending = [p \in Proc |-> FALSE]
    /\ filter = [p \in Proc |-> ANY]
    /\ msgbuf = [p \in Proc |-> NULL]
    /\ readyq = [k \in Prio |-> <<>>]
    /\ current = NULL
    /\ handler = [i \in Irqs |-> IDLE]
    /\ enabled = {}
    /\ phase = "init"
    /\ panic = "none"
    /\ TimeoutsInit

-----------------------------------------------------------------------------
(* Queues *)

\* Seeded fault: a process joins its queue at the front.
EnqueueFront(rq, p) == [rq EXCEPT ![prio[p]] = <<p>> \o rq[prio[p]]]

\* make_ready(p); the assignment to p's state is made in the callers.
Enqueue(rq, p) == [rq EXCEPT ![prio[p]] = Append(rq[prio[p]], p)]

\* The same for os_current, which may be the idle process.
EnqueueCurrent(rq) == IF current = IDLE THEN rq ELSE Enqueue(rq, current)

\* choose_proc(), from the queues as the rest of the call leaves them.
First(rq, k) == rq[k] # <<>> /\ \A j \in Prio : j < k => rq[j] = <<>>

\* Seeded faults: the chosen process stays in its queue; the search ends one
\* priority too early.
ChooseProcKeeps(rq) ==
    \/ \E k \in Prio : First(rq, k) /\ current' = Head(rq[k]) /\ readyq' = rq
    \/ (\A k \in Prio : rq[k] = <<>>) /\ current' = IDLE /\ readyq' = rq

ChooseProcShort(rq) ==
    \/ \E k \in Prio \ {P_LOW} :
          /\ First(rq, k)
          /\ current' = Head(rq[k])
          /\ readyq' = [rq EXCEPT ![k] = Tail(rq[k])]
    \/ /\ \A k \in Prio \ {P_LOW} : rq[k] = <<>>
       /\ current' = IDLE
       /\ readyq' = rq

ChooseProc(rq) ==
    \/ \E k \in Prio :
          /\ First(rq, k)
          /\ current' = Head(rq[k])
          /\ readyq' = [rq EXCEPT ![k] = Tail(rq[k])]
    \/ /\ \A k \in Prio : rq[k] = <<>>
       /\ current' = IDLE
       /\ readyq' = rq

Panic(why) ==
    /\ panic' = why
    /\ UNCHANGED <<processVars, schedVars, irqVars, phase, timeoutVars>>

\* p is the current process and the kernel runs: p may make a system call.
Calls(p) == phase = "run" /\ panic = "none" /\ current = p

-----------------------------------------------------------------------------
(* Messages *)

\* The idle process is IDLING for ever.
StateOf(d) == IF d = IDLE THEN "IDLING" ELSE state[d]

\* find_dest() panics on a process that does not exist, or is dead.
Reachable(d) == StateOf(d) \notin {"ABSENT", "DEAD"}

\* Seeded fault: the filter is not looked at.
AcceptsAll(p, t) == StateOf(p) = "RECEIVING"

\* accept(): p waits for a message of type t.
Accepts(p, t) ==
    /\ StateOf(p) = "RECEIVING"
    /\ filter[p] = ANY \/ filter[p] = t

\* The message buffers when p's holds the message m, if p gave one.
Written(buf, p, m) ==
    IF buf[p] = NULL THEN buf ELSE [buf EXCEPT ![p] = m]

\* deliver_special(): a message from the hardware.
Special(buf, p, t) == Written(buf, p, [type |-> t, sender |-> HARDWARE])

\* Seeded fault: the fields of the message are confused.
DeliverConfused(buf, p, src) ==
    Written(buf, p, [type |-> buf[src].sender, sender |-> src])

\* deliver(): src's message, marked with its sender.
Deliver(buf, p, src) == Written(buf, p, [type |-> buf[src].type, sender |-> src])

\* find_sender(): the place of the first sender in p's queue whose message
\* has type t; the set is empty when there is none.
Matches(q, t) == t = ANY \/ msgbuf[q].type = t

FirstSender(p, t) ==
    {i \in DOMAIN waiting[p] :
        /\ Matches(waiting[p][i], t)
        /\ \A j \in DOMAIN waiting[p] : j < i => ~Matches(waiting[p][j], t)}

\* await_reply(p) and choose_proc(), when st, wq, buf and rq are the states,
\* the senders' queues, the buffers and the ready queues up to there.
AwaitReply(p, st, wq, buf, rq) ==
    \/ \E i \in FirstSender(p, REPLY) :
          LET src == waiting[p][i]
          IN  /\ state' = [st EXCEPT ![p] = "ACTIVE", ![src] = "ACTIVE"]
              /\ waiting' = [wq EXCEPT ![p] = RemoveAt(wq[p], i)]
              /\ msgbuf' = Deliver(buf, p, src)
              /\ ChooseProc(Enqueue(Enqueue(rq, p), src))
              /\ UNCHANGED filter
    \/ /\ FirstSender(p, REPLY) = {}
       /\ state' = [st EXCEPT ![p] = "RECEIVING"]
       /\ filter' = [filter EXCEPT ![p] = REPLY]
       /\ waiting' = wq
       /\ msgbuf' = buf
       /\ ChooseProc(rq)

\* queue_sender(): the current process p joins d's queue with message m.
QueueSender(p, d, m, how) ==
    /\ state' = [state EXCEPT ![p] = how]
    /\ waiting' = [waiting EXCEPT ![d] = Append(waiting[d], p)]
    /\ msgbuf' = [msgbuf EXCEPT ![p] = m]
    /\ ChooseProc(readyq)
    /\ UNCHANGED <<filter, timeoutVars>>

-----------------------------------------------------------------------------
(* System calls *)

\* start(), called by init(): a new process, ready at low priority.
Start(p) ==
    /\ phase = "init" /\ state[p] = "ABSENT"
    /\ state' = [state EXCEPT ![p] = "ACTIVE"]
    /\ readyq' = Enqueue(readyq, p)
    /\ UNCHANGED <<prio, waiting, pending, filter, msgbuf, current, irqVars,
                   phase, panic, timeoutVars>>

\* Later calls of start() are refused.
LateStart(p) == Calls(p) /\ Panic("start() called after scheduler startup")

\* __start() after init(): the main program becomes the idle process ...
Boot ==
    /\ phase = "init"
    /\ phase' = "boot"
    /\ current' = IDLE
    /\ UNCHANGED <<processVars, readyq, irqVars, panic, timeoutVars>>

\* ... which yields once, and never makes another call.
IdleYield ==
    /\ phase = "boot"
    /\ phase' = "run"
    /\ ChooseProc(readyq)
    /\ UNCHANGED <<processVars, irqVars, panic, timeoutVars>>

Yield(p) ==
    /\ Calls(p)
    /\ ChooseProc(Enqueue(readyq, p))
    /\ UNCHANGED <<processVars, irqVars, phase, panic, timeoutVars>>

BadDest(p, d) == Calls(p) /\ ~Reachable(d) /\ Panic("bad destination")

\* Seeded fault: mini_send(), like mini_sendrec(), leaves the timeout alone.
CancelNot(d) == UNCHANGED timeoutVars

\* The receiver's timeout, if it has set one, is cancelled.
Cancel(d) ==
    \/ timeout[d] # NO_TIME /\ CancelTimeout(d)
    \/ timeout[d] = NO_TIME /\ UNCHANGED timeoutVars

\* mini_send() when the receiver waits: it is made ready, then the sender.
Meet(p, d, t) ==
    /\ Cancel(d)
    /\ state' = [state EXCEPT ![d] = "ACTIVE"]
    /\ msgbuf' = Deliver([msgbuf EXCEPT ![p] = [Blank EXCEPT !.type = t]], d, p)
    /\ ChooseProc(Enqueue(Enqueue(readyq, d), p))
    /\ UNCHANGED <<prio, waiting, pending, filter, irqVars, phase, panic>>

SendNow(p, d, t) ==
    /\ Calls(p) /\ Accepts(d, t)
    /\ IF timeout[d] # NO_TIME => MayCancel(d)
       THEN Meet(p, d, t)
       ELSE Panic("assertion in cancel_timeout")

\* mini_send() otherwise.
SendLater(p, d, t) ==
    /\ Calls(p) /\ Reachable(d) /\ ~Accepts(d, t)
    /\ QueueSender(p, d, [Blank EXCEPT !.type = t], "SENDING")
    /\ UNCHANGED <<prio, pending, irqVars, phase, panic>>

\* mini_sendrec().  A waiting receiver keeps the timeout it may have set.
SendrecNow(p, d, t) ==
    /\ Calls(p) /\ Accepts(d, t) /\ t # REPLY
    /\ AwaitReply(p, [state EXCEPT ![d] = "ACTIVE"], waiting,
                  Deliver([msgbuf EXCEPT ![p] = [Blank EXCEPT !.type = t]], d, p),
                  Enqueue(readyq, d))
    /\ UNCHANGED <<prio, pending, irqVars, phase, panic, timeoutVars>>

SendrecLater(p, d, t) ==
    /\ Calls(p) /\ Reachable(d) /\ ~Accepts(d, t) /\ t # REPLY
    /\ QueueSender(p, d, [Blank EXCEPT !.type = t], "SENDREC")
    /\ UNCHANGED <<prio, pending, irqVars, phase, panic>>

SendrecReply(p, d) == Calls(p) /\ Reachable(d) /\ Panic("sendrec of REPLY")

-----------------------------------------------------------------------------
(* mini_receive(f, b, ms): b tells whether there is a buffer.  The actions  *)
(* below exclude one another, in the order in which the code tries them.    *)

NewBuffer(p, b) == [msgbuf EXCEPT ![p] = IF b THEN Blank ELSE NULL]

\* Seeded fault: receive(ANY) does not look at the pending interrupt.
TakesInterruptOnly(p, f) == pending[p] /\ f = INTERRUPT

TakesInterrupt(p, f) == pending[p] /\ f \in {ANY, INTERRUPT}

\* An interrupt has come already.
ReceiveInterrupt(p, f, b) ==
    /\ Calls(p) /\ TakesInterrupt(p, f)
    /\ pending' = [pending EXCEPT ![p] = FALSE]
    /\ msgbuf' = Special(NewBuffer(p, b), p, INTERRUPT)
    /\ UNCHANGED <<state, prio, waiting, filter, schedVars, irqVars, phase,
                   panic, timeoutVars>>

\* The place of the sender whose message the receive takes.
Sender(p, f) == IF f = INTERRUPT THEN {} ELSE FirstSender(p, f)

\* Seeded fault: the first sender leaves the queue, not the one found.
TakenFirst(p, i) == [waiting EXCEPT ![p] = Tail(waiting[p])]

Taken(p, i) == [waiting EXCEPT ![p] = RemoveAt(waiting[p], i)]

\* A sender is there, and send() is all it asked for.
ReceiveSent(p, f, b) ==
    /\ Calls(p) /\ ~TakesInterrupt(p, f)
    /\ \E i \in Sender(p, f) :
          /\ state[waiting[p][i]] = "SENDING"
          /\ state' = [state EXCEPT ![waiting[p][i]] = "ACTIVE"]
          /\ waiting' = Taken(p, i)
          /\ msgbuf' = Deliver(NewBuffer(p, b), p, waiting[p][i])
          /\ ChooseProc(Enqueue(Enqueue(readyq, p), waiting[p][i]))
    /\ UNCHANGED <<prio, pending, filter, irqVars, phase, panic, timeoutVars>>

\* A sender is there, and it wants a reply.
ReceiveCall(p, f, b) ==
    /\ Calls(p) /\ ~TakesInterrupt(p, f)
    /\ \E i \in Sender(p, f) :
          LET src == waiting[p][i]
          IN  /\ state[src] # "SENDING"
              /\ IF state[src] = "SENDREC"
                 THEN /\ AwaitReply(src, state, Taken(p, i),
                                    Deliver(NewBuffer(p, b), p, src),
                                    Enqueue(readyq, p))
                      /\ UNCHANGED <<prio, pending, irqVars, phase, panic,
                                     timeoutVars>>
                 ELSE Panic("Bad state in receive()")

NoMessage(p, f) == Calls(p) /\ ~TakesInterrupt(p, f) /\ Sender(p, f) = {}

\* No message, and the call does not wait.
ReceivePoll(p, f, b) ==
    /\ NoMessage(p, f)
    /\ msgbuf' = Special(NewBuffer(p, b), p, TIMEOUT)
    /\ UNCHANGED <<state, prio, waiting, pending, filter, schedVars, irqVars,
                   phase, panic, timeoutVars>>

\* No message, and the call waits.
Block(p, f, b) ==
    /\ state' = [state EXCEPT ![p] = "RECEIVING"]
    /\ filter' = [filter EXCEPT ![p] = f]
    /\ msgbuf' = NewBuffer(p, b)
    /\ ChooseProc(readyq)
    /\ UNCHANGED <<prio, waiting, pending, irqVars, phase, panic>>

ReceiveWait(p, f, b) == NoMessage(p, f) /\ Block(p, f, b) /\ UNCHANGED timeoutVars

ReceiveTimed(p, f, b, ms) ==
    /\ NoMessage(p, f)
    /\ IF MaySet(p)
       THEN SetTimeout(p, ms) /\ Block(p, f, b)
       ELSE Panic("assertion in set_timeout")

-----------------------------------------------------------------------------
\* exit(): the processes that wait to send to p keep waiting.
Exit(p) ==
    /\ Calls(p)
    /\ state' = [state EXCEPT ![p] = "DEAD"]
    /\ ChooseProc(readyq)
    /\ UNCHANGED <<prio, waiting, pending, filter, msgbuf, irqVars, phase,
                   panic, timeoutVars>>

\* SYS_TICK: mini_tick() makes the processes it fires ready, in the order of
\* timeout[].  The timer task is its only caller, as an interrupt handler.
\* FiredAt(f, k) are those that join the queue of priority k.
FiredAt(f, k) == {p \in ToSet(f) : prio[p] = k}

Fire(f) ==
    /\ state' = [q \in Proc |-> IF q \in ToSet(f) THEN "ACTIVE" ELSE state[q]]
    /\ msgbuf' = [q \in Proc |->
                     IF q \in ToSet(f) THEN Special(msgbuf, q, TIMEOUT)[q]
                     ELSE msgbuf[q]]
    /\ \E a \in InOrder(FiredAt(f, 0), f), b \in InOrder(FiredAt(f, 1), f),
          c \in InOrder(FiredAt(f, 2), f) :
          readyq' = [k \in Prio |-> readyq[k] \o (CASE k = 0 -> a
                                                   [] k = 1 -> b
                                                   [] k = 2 -> c)]

TickCall(p) ==
    /\ Calls(p) /\ prio[p] = P_HANDLER
    /\ IF next_time # NO_TIME /\ ticks > next_time => MayTick
       THEN /\ \E f \in Firings : MiniTick(TICK, f) /\ Fire(f)
            /\ UNCHANGED <<prio, waiting, pending, filter, current, irqVars,
                           phase, panic>>
       ELSE Panic("assertion in mini_tick")

-----------------------------------------------------------------------------
(* Calls that are plain functions *)

\* connect(irq).  The timer's own handler names the timer task, which is the
\* process that enables its interrupt; connecting stands for that too.
Connect(p, irq) ==
    /\ Calls(p)
    /\ prio' = IF irq \in OwnIrqs THEN prio ELSE [prio EXCEPT ![p] = P_HANDLER]
    /\ handler' = [handler EXCEPT ![irq] = p]
    /\ UNCHANGED <<state, waiting, pending, filter, msgbuf, schedVars, enabled,
                   phase, panic, timeoutVars>>

\* priority(k).
SetPriority(p, k) ==
    /\ Calls(p) /\ k \in Prio
    /\ prio' = [prio EXCEPT ![p] = k]
    /\ UNCHANGED <<state, waiting, pending, filter, msgbuf, schedVars, irqVars,
                   phase, panic, timeoutVars>>

BadPriority(p, k) == Calls(p) /\ k \notin Prio /\ Panic("Bad priority")

\* enable_irq(irq).
EnableIrq(p, irq) ==
    /\ Calls(p)
    /\ irq \in OwnIrqs => handler[irq] = p
    /\ enabled' = enabled \cup {irq}
    /\ UNCHANGED <<processVars, schedVars, handler, phase, panic, timeoutVars>>

-----------------------------------------------------------------------------
(* Interrupts *)

CurrentPrio == IF current = IDLE THEN P_IDLE ELSE prio[current]

\* Seeded fault: only the idle process is preempted.
PreemptsIdle == CurrentPrio > P_LOW

\* interrupt(d), and the context switch when it asks for one.
Preempts == CurrentPrio > P_HANDLER

Interrupt(d) ==
    \/ /\ Accepts(d, INTERRUPT)
       /\ msgbuf' = Special(msgbuf, d, INTERRUPT)
       /\ state' = [state EXCEPT ![d] = "ACTIVE"]
       /\ IF Preempts
          THEN ChooseProc(EnqueueCurrent(Enqueue(readyq, d)))
          ELSE readyq' = Enqueue(readyq, d) /\ UNCHANGED current
       /\ UNCHANGED pending
    \/ /\ ~Accepts(d, INTERRUPT)
       /\ pending' = [pending EXCEPT ![d] = TRUE]
       /\ UNCHANGED <<state, msgbuf, schedVars>>

\* default_handler(), or the driver's own handler, which leaves the
\* interrupt enabled.
Raise(irq) == phase = "run" /\ panic = "none" /\ irq \in enabled

HandleIrq(irq) ==
    /\ Raise(irq) /\ handler[irq] # IDLE /\ Reachable(handler[irq])
    /\ enabled' = IF irq \in OwnIrqs THEN enabled ELSE enabled \ {irq}
    /\ Interrupt(handler[irq])
    /\ UNCHANGED <<prio, waiting, filter, handler, phase, panic, timeoutVars>>

BadIrq(irq) ==
    /\ Raise(irq)
    /\ ~(handler[irq] # IDLE /\ Reachable(handler[irq]))
    /\ Panic("Unexpected interrupt")

-----------------------------------------------------------------------------
Send(p) ==
    \E d \in Dest :
        \/ BadDest(p, d)
        \/ \E t \in SendTypes : SendNow(p, d, t) \/ SendLater(p, d, t)

Sendrec(p) ==
    \E d \in Dest, t \in SendrecTypes :
        \/ t = REPLY /\ SendrecReply(p, d)
        \/ SendrecNow(p, d, t)
        \/ SendrecLater(p, d, t)

Receive(p) ==
    \E f \in Filters, b \in Buffers :
        \/ ReceiveInterrupt(p, f, b)
        \/ ReceiveSent(p, f, b)
        \/ ReceiveCall(p, f, b)
        \/ ReceivePoll(p, f, b)
        \/ ReceiveWait(p, f, b)

ReceiveT(p) ==
    \E f \in TimedFilters, b \in Buffers :
        \/ ReceiveInterrupt(p, f, b)
        \/ ReceiveSent(p, f, b)
        \/ ReceiveCall(p, f, b)
        \/ \E ms \in Delays : ReceiveTimed(p, f, b, ms)

Configure(p) ==
    \/ \E irq \in Irqs : Connect(p, irq) \/ EnableIrq(p, irq)
    \/ \E k \in Prios : SetPriority(p, k) \/ BadPriority(p, k)

Next ==
    \/ \E p \in Proc :
          \/ Start(p) \/ LateStart(p) \/ Yield(p) \/ Exit(p)
          \/ Send(p) \/ Sendrec(p) \/ Receive(p) \/ ReceiveT(p)
          \/ TickCall(p) \/ Configure(p)
    \/ Boot \/ IdleYield
    \/ \E irq \in Irqs : HandleIrq(irq) \/ BadIrq(irq)

Spec == Init /\ [][Next]_vars

\* No process keeps the processor for ever: one that runs makes, sooner or
\* later, a call that gives it up.
Fairness == WF_vars(IdleYield) /\ \A p \in Proc : WF_vars(Yield(p))

FairSpec == Spec /\ Fairness

-----------------------------------------------------------------------------
(***************************************************************************)
(* The kernel does not cancel the timeout of a receiver that it wakes by a *)
(* sendrec() or by an interrupt.  Programs avoid the consequence if no     *)
(* receive with a timeout accepts a message that arrives so.               *)
(***************************************************************************)
Disciplined == TimedFilters \cap (SendrecTypes \cup {ANY, INTERRUPT}) = {}

Assertions == {"assertion in cancel_timeout", "assertion in set_timeout",
               "assertion in mini_tick", "Bad state in receive()"}

\* What panic() tells a program that calls the kernel wrongly.
Refusals == {"start() called after scheduler startup", "bad destination",
             "sendrec of REPLY", "Bad priority", "Unexpected interrupt"}

States == {"ABSENT", "DEAD", "ACTIVE", "SENDING", "RECEIVING", "SENDREC"}

Types == SendTypes \cup SendrecTypes \cup {INTERRUPT, TIMEOUT, ANY}

Messages == [type : Types, sender : Proc \cup {HARDWARE, NULL}]

\* The variables have their types.
TypeOK ==
    /\ state \in [Proc -> States]
    /\ prio \in [Proc -> Prio]
    /\ waiting \in [Dest -> Seq(Proc)]
    /\ pending \in [Proc -> BOOLEAN]
    /\ filter \in [Proc -> Filters \cup TimedFilters \cup {ANY, REPLY}]
    /\ msgbuf \in [Proc -> Messages \cup {NULL}]
    /\ readyq \in [Prio -> Seq(Proc)]
    /\ current \in Dest \cup {NULL}
    /\ handler \in [Irqs -> Dest]
    /\ enabled \subseteq Irqs
    /\ phase \in {"init", "boot", "run"}
    /\ panic \in {"none"} \cup Assertions \cup Refusals

-----------------------------------------------------------------------------
(* Safety *)

Blocked(p) == state[p] \in {"SENDING", "SENDREC"}

Ready(k) == {p \in Proc : state[p] = "ACTIVE" /\ p # current /\ prio[p] = k}

\* The field next links "each process into at most one queue -- either the
\* queue of ready processes at some priority level, or the queue of senders
\* waiting to deliver a message to a particular receiver process": a process
\* has one place in all these lists, for its one field next.
Places(p) ==
    UNION {{<<"ready", k, i>> : i \in {j \in DOMAIN readyq[k] : readyq[k][j] = p}} :
              k \in Prio}
    \cup
    UNION {{<<"waiting", d, i>> : i \in {j \in DOMAIN waiting[d] : waiting[d][j] = p}} :
              d \in Dest}

AtMostOneQueue == \A p \in Proc : Cardinality(Places(p)) <= 1

\* Each process is in the queue its state asks for: those ready to run in
\* the ready queue of their priority, the current one in none, and a sender
\* in the queue of one receiver.  No process is lost and none runs twice.
QueuesMatchStates ==
    /\ \A k \in Prio : Lists(readyq[k], Ready(k))
    /\ \A d \in Dest : IsInjective(waiting[d])
    /\ \A p \in Proc : Blocked(p) <=> \E d \in Dest : p \in ToSet(waiting[d])
    /\ \A d, e \in Dest : d # e => ToSet(waiting[d]) \cap ToSet(waiting[e]) = {}
    /\ current \in Proc => state[current] = "ACTIVE"

\* A receiver does not wait while a message it accepts is there: neither a
\* sender in its queue nor a pending interrupt.
NoMissedMeeting ==
    \A p \in Proc : state[p] = "RECEIVING" =>
        /\ filter[p] # INTERRUPT => FirstSender(p, filter[p]) = {}
        /\ filter[p] \in {ANY, INTERRUPT} => ~pending[p]

\* Only a waiting process has a timeout set, so a timeout that fires finds a
\* process that still waits.
TimedOnlyWaiting == \A p \in Timed : state[p] = "RECEIVING"

\* None of the kernel's own assertions fails, whatever the programs do.
AssertionsHold == panic \notin Assertions

\* "Idle only runs again when there's nothing to do."
IdleOnlyWhenNothingToDo ==
    phase = "run" /\ current = IDLE => \A p \in Proc : state[p] # "ACTIVE"

-----------------------------------------------------------------------------
(* Action properties *)

Wakes(p) == state[p] \in {"SENDING", "SENDREC", "RECEIVING"} /\ state'[p] = "ACTIVE"

\* A process that made a sendrec() runs again only with a REPLY.
CallGetsReply ==
    [][\A p \in Proc :
          /\ Wakes(p)
          /\ \/ state[p] = "SENDREC"
             \/ state[p] = "RECEIVING" /\ filter[p] = REPLY /\ p \notin Timed
          => msgbuf'[p] = NULL \/ msgbuf'[p].type = REPLY]_vars

\* A receiver wakes with a message that its filter accepts: from a process
\* that sends it now or was in its queue, or from the hardware; a TIMEOUT only
\* when its own timeout is overrun.
FromSender(p, m) ==
    /\ m.sender \in Proc
    /\ filter[p] \in {ANY, m.type}
    /\ m.sender = current \/ m.sender \in ToSet(waiting[p])

FromHardware(p, m) ==
    /\ m.sender = HARDWARE
    /\ \/ m.type = INTERRUPT /\ filter[p] \in {ANY, INTERRUPT}
       \/ m.type = TIMEOUT /\ p \in Timed /\ timeout[p] < ticks

ReceivesWhatItAsked ==
    [][\A p \in Proc :
          state[p] = "RECEIVING" /\ Wakes(p) /\ msgbuf'[p] # NULL =>
             FromSender(p, msgbuf'[p]) \/ FromHardware(p, msgbuf'[p])]_vars

\* A sender that waits runs again only when the process it waits for has
\* taken its message.
SendEndsByHandover ==
    [][\A p \in Proc : state[p] = "SENDING" /\ Wakes(p) =>
          \E d \in Proc :
             /\ p \in ToSet(waiting[d]) \ ToSet(waiting'[d])
             /\ \/ msgbuf'[d] = NULL
                \/ msgbuf'[d] = [type |-> msgbuf[p].type, sender |-> p]]_vars

\* When an interrupt handler wakes, it runs at once or an interrupt handler
\* is running: it never waits for a process of lower priority.
PromptDispatch ==
    [][\A p \in Proc : Wakes(p) /\ prio[p] = P_HANDLER =>
          CurrentPrio' = P_HANDLER]_vars

-----------------------------------------------------------------------------
(* Liveness *)

\* An interrupt handler that is ready does run.
HandlerRuns ==
    \A p \in Proc :
        p \in ToSet(readyq[P_HANDLER]) ~> current = p \/ panic # "none"
=============================================================================
