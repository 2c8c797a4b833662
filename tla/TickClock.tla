----------------------------- MODULE TickClock ------------------------------
(***************************************************************************)
(* The timeout service driven by a clock.  Time passes in milliseconds;    *)
(* tick(TICK) is called each time TICK of them have passed.  At any moment *)
(* between, before or after two ticks a process may begin a receive with a *)
(* timeout, or get a message and lose its timeout.                         *)
(*                                                                         *)
(* The clock and the callers stand for code outside the service: timer.c   *)
(* and the send and receive calls, which Kernel models.                    *)
(***************************************************************************)
EXTENDS Timeouts

VARIABLES
    fired,      \* The processes that the latest call sent TIMEOUT, in order
    sub,        \* Milliseconds since the latest tick
    asked,      \* asked[p]: the delay p asked for, 0 if it has no timeout
    age         \* age[p]: milliseconds since p asked

clockVars == <<fired, sub, asked, age>>
vars == <<timeoutVars, clockVars>>

Init ==
    /\ TimeoutsInit
    /\ fired = <<>>
    /\ sub = 0
    /\ asked = [p \in Proc |-> 0]
    /\ age = [p \in Proc |-> 0]

Begin(p, ms) ==
    /\ asked[p] = 0
    /\ SetTimeout(p, ms)
    /\ asked' = [asked EXCEPT ![p] = ms]
    /\ age' = [age EXCEPT ![p] = 0]
    /\ fired' = <<>>
    /\ UNCHANGED sub

GetMessage(p) ==
    /\ asked[p] # 0
    /\ CancelTimeout(p)
    /\ asked' = [asked EXCEPT ![p] = 0]
    /\ age' = [age EXCEPT ![p] = 0]
    /\ fired' = <<>>
    /\ UNCHANGED sub

\* A millisecond passes, if no tick is due.
Pass ==
    /\ sub < TICK
    /\ sub' = sub + 1
    /\ age' = [p \in Proc |-> IF asked[p] # 0 THEN age[p] + 1 ELSE 0]
    /\ UNCHANGED <<timeoutVars, fired, asked>>

Woken == ToSet(fired')

Tick ==
    /\ sub = TICK
    /\ \E f \in Firings : MiniTick(TICK, f) /\ fired' = f
    /\ sub' = 0
    /\ asked' = [p \in Proc |-> IF p \in Woken THEN 0 ELSE asked[p]]
    /\ age' = [p \in Proc |-> IF p \in Woken THEN 0 ELSE age[p]]

Next ==
    \/ \E p \in Proc, ms \in Delays : Begin(p, ms)
    \/ \E p \in Proc : GetMessage(p)
    \/ Pass
    \/ Tick

Spec == Init /\ [][Next]_vars

-----------------------------------------------------------------------------
(* Types *)

Times == -Half .. Half - 1

\* The variables have their types, and every time fits an int.
TypeOK ==
    /\ timeout \in [Proc -> Times]
    /\ timeouts \in Seq(Proc)
    /\ ticks \in Times
    /\ next_time \in Times
    /\ fired \in Seq(Proc)
    /\ sub \in 0 .. TICK
    /\ asked \in [Proc -> {0} \cup Delays]
    /\ age \in [Proc -> Nat]

-----------------------------------------------------------------------------
(* Safety *)

\* Whatever the callers have done, the assertions of set_timeout(),
\* cancel_timeout() and mini_tick() hold at their next call: there is room in
\* the array, and the fields agree with who is waiting.
AssertionsHold ==
    /\ \A p \in Proc : IF asked[p] = 0 THEN MaySet(p) ELSE MayCancel(p)
    /\ MayTick

\* "This scheme ensures that no timer fires earlier than it should, even if
\* the timer is set just before a tick": a timeout that fires is as old as
\* the delay that was asked for.
Fires(p) == timeout[p] # NO_TIME /\ timeout'[p] = NO_TIME /\ sub' < sub

NeverEarly == [][\A p \in Proc : Fires(p) => age[p] >= asked[p]]_vars

\* No timeout outlives its delay by more than two ticks, so a receive with a
\* timeout does end, also when other timeouts are set and cancelled.
NeverLate == \A p \in Proc : age[p] <= asked[p] + 2*TICK

-----------------------------------------------------------------------------
(* Refinement *)

C == INSTANCE Countdown WITH
        left  <- [p \in Listed |-> timeout[p] - ticks],
        fired <- ToSet(fired)

\* The array, the accumulator and the cached earliest time together do what
\* independent countdowns would do: in particular each tick fires exactly
\* the processes that are due.
ImplementsCountdown == C!Spec
=============================================================================
