--------------------------- MODULE MCTimerDriver ----------------------------
(***************************************************************************)
(* TimerDriver with clients that play the same part, and next to it        *)
(* timer_micros(), with a process of interrupt priority and one of low     *)
(* priority.  In each behaviour one of the two is used and the other is at *)
(* rest.                                                                   *)
(***************************************************************************)
EXTENDS TimerDriver, Micros, TLC

Perms == Permutations(Clients)

MCPrio == [c \in Callers |-> IF c = "driver" THEN 0 ELSE 2]

VARIABLE half           \* The part of timer.c that is used

BothInit == Init /\ MicrosInit /\ half \in {"timers", "micros"}

BothNext ==
    /\ \/ half = "timers" /\ Next /\ UNCHANGED microsVars
       \/ half = "micros" /\ MicrosNext /\ UNCHANGED vars
    /\ UNCHANGED half

BothSpec == BothInit /\ [][BothNext]_<<vars, microsVars, half>>
=============================================================================
