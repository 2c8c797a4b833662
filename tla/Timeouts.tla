------------------------------ MODULE Timeouts ------------------------------
(***************************************************************************)
(* The kernel's receive-with-timeout service (microbian.c, section         *)
(* TIMEOUTS): an array of the processes whose receive() carries a timeout, *)
(* an accumulator of clock ticks, and the earliest due time.               *)
(*                                                                         *)
(* This module holds the service's state and its three operations as       *)
(* actions.  TickClock composes it with a clock and a caller that keeps    *)
(* the operations' assertions; Kernel composes it with send and receive.   *)
(***************************************************************************)
EXTENDS Lists

CONSTANTS
    Proc,       \* The processes, the idle process apart
    NPROCS,     \* Size of timeout[] and of the process table
    TICK,       \* Milliseconds between two calls of tick()
    Delays,     \* The positive delays that callers ask for, in ms
    Half        \* An int holds -Half .. Half-1: 2^31 on the target

ASSUME TimeoutsAssumption ==
    /\ NPROCS \in Nat \ {0}
    /\ TICK \in Nat \ {0}
    /\ Delays \subseteq Nat \ {0}
    /\ Half \in Nat \ {0}

\* The processes and the idle process fit the process table: create_proc()
\* panics otherwise.
ASSUME RoomForAll == IsFiniteSet(Proc) /\ Cardinality(Proc) < NPROCS

(***************************************************************************)
(* The operands that occur below are ints, so a sum of two leaves the      *)
(* range by less than one turn and Wrap brings it back.                    *)
(***************************************************************************)
Wrap(x) == IF x >= Half THEN x - 2*Half
           ELSE IF x < -Half THEN x + 2*Half ELSE x

NO_TIME == -Half            \* 0x80000000, as an int

VARIABLES
    timeout,    \* timeout[p]: the field p->timeout
    timeouts,   \* The array timeout[0..n_timeouts), as a sequence
    ticks,      \* Time accumulated since the last update (ms)
    next_time   \* Earliest timeout due, at the latest

timeoutVars == <<timeout, timeouts, ticks, next_time>>

TimeoutsInit ==
    /\ timeout = [p \in Proc |-> NO_TIME]
    /\ timeouts = <<>>
    /\ ticks = 0
    /\ next_time = NO_TIME

Listed == ToSet(timeouts)

Timed == {p \in Proc : timeout[p] # NO_TIME}

-----------------------------------------------------------------------------
(***************************************************************************)
(* set_timeout(ms), with p for os_current.  MaySet is the pair of          *)
(* assertions at its head.                                                 *)
(***************************************************************************)
MaySet(p) ==
    /\ Len(timeouts) < NPROCS
    /\ timeout[p] = NO_TIME

Due(ms) == Wrap(ticks + ms)

Earliest(due) == IF next_time = NO_TIME \/ due < next_time THEN due ELSE next_time

SetTimeout(p, ms) ==
    /\ timeout' = [timeout EXCEPT ![p] = Due(ms)]
    /\ timeouts' = Append(timeouts, p)
    /\ next_time' = Earliest(Due(ms))
    /\ UNCHANGED ticks

(***************************************************************************)
(* cancel_timeout(p), for a p that has a timeout set: the last entry of    *)
(* the array takes the place of p's.  next_time is left as it is.          *)
(***************************************************************************)
MayCancel(p) ==
    /\ timeout[p] # NO_TIME
    /\ p \in Listed

CancelTimeout(p) ==
    /\ timeout' = [timeout EXCEPT ![p] = NO_TIME]
    /\ \E i \in DOMAIN timeouts :
          timeouts[i] = p /\ timeouts' = SwapOut(timeouts, i)
    /\ UNCHANGED <<ticks, next_time>>

-----------------------------------------------------------------------------
(***************************************************************************)
(* mini_tick(ms).  The loop over timeout[] keeps the processes that are    *)
(* not Expired and sends TIMEOUT to the others, both in the order of the   *)
(* array; fired is the sequence of the latter.                             *)
(***************************************************************************)
Expired(p) == timeout[p] < ticks

\* Seeded fault: the tick itself is not taken off what remains.
RemainingKeepsTick(p, ms) == Wrap(timeout[p] - ticks)

Remaining(p, ms) == Wrap(timeout[p] - Wrap(ticks + ms))

NoneActive(fired) ==
    /\ next_time = NO_TIME
    /\ fired = <<>>
    /\ UNCHANGED timeoutVars

NoneExpired(ms, fired) ==
    /\ next_time # NO_TIME
    /\ ticks <= next_time
    /\ ticks' = Wrap(ticks + ms)
    /\ fired = <<>>
    /\ UNCHANGED <<timeout, timeouts, next_time>>

\* The least of the remaining times, NO_TIME when no process is left.
NextTimes(kept, ms) ==
    IF kept = {} THEN {NO_TIME}
    ELSE {m \in {Remaining(p, ms) : p \in kept} :
             \A p \in kept : m <= Remaining(p, ms)}

Update(ms, fired) ==
    LET kept == {p \in Listed : ~Expired(p)}
    IN  /\ next_time # NO_TIME
        /\ ticks > next_time
        /\ fired \in InOrder(Listed \ kept, timeouts)
        /\ timeouts' \in InOrder(kept, timeouts)
        /\ timeout' = [p \in Proc |->
                          CASE p \in kept -> Remaining(p, ms)
                            [] p \in Listed \ kept -> NO_TIME
                            [] OTHER -> timeout[p]]
        /\ next_time' \in NextTimes(kept, ms)
        /\ ticks' = 0

\* The assertion inside the loop, for the calls that reach it.
MayTick == \A p \in Listed : timeout[p] # NO_TIME

MiniTick(ms, fired) ==
    \/ NoneActive(fired)
    \/ NoneExpired(ms, fired)
    \/ Update(ms, fired)

\* Every sequence that some call of mini_tick() can fire.
Firings == UNION {[1 .. n -> Listed] : n \in 0 .. Len(timeouts)}

-----------------------------------------------------------------------------
(***************************************************************************)
(* What the service keeps true, whoever calls it with its assertions true  *)
(* and with delays whose sums fit an int.                                  *)
(***************************************************************************)
SmallDelays ==
    /\ 2*TICK < Half
    /\ \A ms \in Delays : 2*(ms + TICK) < Half

\* The array timeout[] lists the processes whose timeout field is set, once
\* each (the comment at its head says so): no entry is lost or doubled when
\* the swap of cancel_timeout() and the compaction of mini_tick() interleave.
ArrayMatchesFields == Lists(timeouts, Timed)

\* The early return of mini_tick() never skips a timeout that has expired:
\* next_time is at most every due time, though cancel_timeout() leaves it
\* stale, and it is NO_TIME only when nothing is set and ticks is zero.
NextTimeIsEarly ==
    /\ \A p \in Timed : next_time # NO_TIME /\ next_time <= timeout[p]
    /\ next_time = NO_TIME => ticks = 0

\* Each time left, and next_time, is at least -TICK and small enough for the
\* next sums to fit an int.
TimesFit ==
    /\ 2*ticks < Half
    /\ next_time # NO_TIME => -TICK <= next_time /\ 2*(next_time + TICK) < Half
    /\ \A p \in Timed : /\ timeout[p] - ticks >= -TICK
                        /\ 2*(timeout[p] - ticks + TICK) < Half

TimesTyped ==
    /\ timeout \in [Proc -> Int]
    /\ ticks \in Nat
    /\ next_time \in Int

TimeoutsInv ==
    /\ TimesTyped
    /\ ArrayMatchesFields
    /\ NextTimeIsEarly
    /\ TimesFit
=============================================================================
