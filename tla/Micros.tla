------------------------------- MODULE Micros -------------------------------
(***************************************************************************)
(* timer_micros(): the time in microseconds, read from the counter of      *)
(* Timer 1, the event that says the counter has expired, and the           *)
(* milliseconds that the interrupt handler counts.  The counter runs on    *)
(* between any two steps, the interrupt comes whenever interrupts are      *)
(* enabled, and several processes may be inside the call at once: one that *)
(* has enabled interrupts again can be preempted before it returns.        *)
(*                                                                         *)
(* Steps are in the order of the source.  The load of millis is taken to   *)
(* stay before intr_enable(); the code does not force a compiler to keep   *)
(* it there.                                                               *)
(***************************************************************************)
EXTENDS Integers

CONSTANTS
    Callers,    \* Processes that call timer_micros()
    prio,       \* prio[c]: priority of c; a smaller number is more urgent
    P_HANDLER,  \* The most urgent priority; such a process is not preempted
    MS,         \* Microseconds in a millisecond (1000)
    EXPIRY,     \* Milliseconds between two expiries of the counter
    WORD_SIZE,  \* 2^32: unsigned numbers are taken modulo WORD_SIZE
    Section,    \* Bound: microseconds that interrupts can stay disabled
    Long        \* Bound: microseconds that a call can last

\* The counter counts from 0 to Period - 1.
Period == MS * EXPIRY

ASSUME ConstantsAssumption ==
    /\ MS \in Nat \ {0} /\ EXPIRY \in Nat \ {0}
    /\ WORD_SIZE \in Nat \ {0} /\ P_HANDLER \in Nat
    /\ prio \in [Callers -> Nat]
    /\ Section \in 0 .. Period - 1
    /\ Long \in Nat /\ Long < WORD_SIZE

VARIABLES
    now,        \* The true time modulo WORD_SIZE (not in the code)
    millis,     \* Milliseconds counted by the interrupt handler
    count,      \* The counter
    compare,    \* TIMER1_COMPARE[0]: the counter expired, not yet handled
    cc,         \* cc[1], cc[2]: the capture registers, shared by all calls
    pc,         \* pc[c]: the step that c has reached in the call
    extra,      \* extra[c], my_millis[c], ticks1[c]: local variables
    my_millis,
    ticks1,
    since,      \* since[c]: microseconds since c began its call (a ghost)
    off         \* Microseconds since interrupts were disabled (a ghost)

microsClock == <<now, millis, count, compare>>
locals == <<extra, my_millis, ticks1>>
microsVars == <<microsClock, cc, pc, locals, since, off>>

Steps == {"idle", "disabled", "captured", "inspected", "recaptured",
          "enabled", "read"}

\* The steps at which interrupts are disabled.
Disabled == {"disabled", "captured", "inspected", "recaptured"}

Enabled == \A c \in Callers : pc[c] \notin Disabled

MicrosInit ==
    /\ now = 0 /\ millis = 0 /\ count = 0 /\ compare = FALSE
    /\ cc = [i \in 1 .. 2 |-> 0]
    /\ pc = [c \in Callers |-> "idle"]
    /\ extra = [c \in Callers |-> FALSE]
    /\ my_millis = [c \in Callers |-> 0]
    /\ ticks1 = [c \in Callers |-> 0]
    /\ since = [c \in Callers |-> 0]
    /\ off = 0

-----------------------------------------------------------------------------
(* The hardware and the interrupt handler *)

\* A microsecond passes.  An expiry is handled before the next one, because
\* interrupts are disabled only for short.
Microsecond ==
    /\ Enabled \/ off < Section
    /\ \A c \in Callers : pc[c] # "idle" => since[c] < Long
    /\ count = Period - 1 => ~compare
    /\ now' = (now + 1) % WORD_SIZE
    /\ count' = (count + 1) % Period
    /\ compare' = (compare \/ count = Period - 1)
    /\ since' = [c \in Callers |-> IF pc[c] = "idle" THEN 0 ELSE since[c] + 1]
    /\ off' = IF Enabled THEN 0 ELSE off + 1
    /\ UNCHANGED <<millis, cc, pc, locals>>

timer1_handler ==
    /\ Enabled
    /\ compare
    /\ millis' = (millis + EXPIRY) % WORD_SIZE
    /\ compare' = FALSE
    /\ UNCHANGED <<now, count, cc, pc, locals, since, off>>

-----------------------------------------------------------------------------
(* The call *)

\* c can run: nobody else has disabled interrupts, and everybody else in the
\* middle of the call is one that an interrupt can have preempted for c.
MayRun(c) ==
    \A d \in Callers \ {c} : pc[d] # "idle" =>
        /\ pc[d] \notin Disabled
        /\ prio[d] >= prio[c]
        /\ prio[d] > P_HANDLER

At(c, here, there) ==
    /\ MayRun(c)
    /\ pc[c] = here
    /\ pc' = [pc EXCEPT ![c] = there]

Disable(c) ==
    /\ At(c, "idle", "disabled")
    /\ off' = 0
    /\ UNCHANGED <<microsClock, cc, locals, since>>

CaptureFirst(c) ==
    /\ At(c, "disabled", "captured")
    /\ cc' = [cc EXCEPT ![1] = count]
    /\ UNCHANGED <<microsClock, locals, since, off>>

Inspect(c) ==
    /\ At(c, "captured", "inspected")
    /\ extra' = [extra EXCEPT ![c] = compare]
    /\ UNCHANGED <<microsClock, cc, my_millis, ticks1, since, off>>

CaptureSecond(c) ==
    /\ At(c, "inspected", "recaptured")
    /\ cc' = [cc EXCEPT ![2] = count]
    /\ UNCHANGED <<microsClock, locals, since, off>>

Enable(c) ==
    /\ At(c, "recaptured", "enabled")
    /\ my_millis' = [my_millis EXCEPT ![c] = millis]
    /\ off' = 0
    /\ UNCHANGED <<microsClock, cc, extra, ticks1, since>>

\* The capture registers are read after interrupts are enabled again.
ReadFirst(c) ==
    /\ At(c, "enabled", "read")
    /\ ticks1' = [ticks1 EXCEPT ![c] = cc[1]]
    /\ UNCHANGED <<microsClock, cc, extra, my_millis, since, off>>

\* Seeded fault: every expiry seen is added, the ones between the captures too.
CorrectsAlways(expired, first, second) == expired

\* The expiry came before the first capture, and is not in millis.
Corrects(expired, first, second) == expired /\ first <= second

Answer(c) ==
    (MS * (my_millis[c] + (IF Corrects(extra[c], ticks1[c], cc[2])
                           THEN EXPIRY ELSE 0))
        + ticks1[c]) % WORD_SIZE

\* Reads the second capture and returns Answer(c).  The locals are dead.
MicrosReturn(c) ==
    /\ At(c, "read", "idle")
    /\ extra' = [extra EXCEPT ![c] = FALSE]
    /\ my_millis' = [my_millis EXCEPT ![c] = 0]
    /\ ticks1' = [ticks1 EXCEPT ![c] = 0]
    /\ since' = [since EXCEPT ![c] = 0]
    /\ UNCHANGED <<microsClock, cc, off>>

timer_micros(c) ==
    \/ Disable(c)
    \/ CaptureFirst(c)
    \/ Inspect(c)
    \/ CaptureSecond(c)
    \/ Enable(c)
    \/ ReadFirst(c)
    \/ MicrosReturn(c)

MicrosNext ==
    \/ Microsecond
    \/ timer1_handler
    \/ \E c \in Callers : timer_micros(c)

MicrosSpec == MicrosInit /\ [][MicrosNext]_microsVars

-----------------------------------------------------------------------------
(* Properties *)

\* The answer c is about to return, with an error of at most e microseconds,
\* is a time at which c was inside the call.
AnswersWithin(c, e) ==
    pc[c] = "read" =>
        \E t \in -e .. since[c] + e : Answer(c) = (now - t) % WORD_SIZE

\* A caller of interrupt priority gets a time at which it was inside the call,
\* wherever the expiry and its interrupt fall among the steps of
\* timer_micros(), and however often the milliseconds have overflowed.
HandlersExact ==
    \A c \in Callers : prio[c] = P_HANDLER => AnswersWithin(c, 0)

\* Any caller gets a time less than two periods of the counter from its call,
\* though other calls may overwrite the capture registers before
\* timer_micros() has read them: millis was right, and at most one expiry is
\* missing or added.
ErrorBounded == \A c \in Callers : AnswersWithin(c, 2 * Period - 1)

\* What timer_micros() can promise to each kind of caller.
MicrosAccurate == HandlersExact /\ ErrorBounded

\* timer.c:140 says of timer_micros() that it returns "microseconds since
\* startup", to any process that calls it.
Exact == \A c \in Callers : AnswersWithin(c, 0)
=============================================================================
