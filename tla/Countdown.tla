----------------------------- MODULE Countdown ------------------------------
(***************************************************************************)
(* What the timeout service promises, without its array, its accumulator   *)
(* or its cached earliest time: each timeout counts down on its own.       *)
(* A tick fires exactly the timeouts that the earlier ticks have already   *)
(* overrun, and takes TICK from each of the others.                        *)
(***************************************************************************)
EXTENDS Integers

CONSTANTS Proc, TICK, Delays

VARIABLES
    left,       \* left[p]: time left to p, for each p that has a timeout
    fired       \* The processes that the latest call sent a TIMEOUT message

vars == <<left, fired>>

Init ==
    /\ left = [p \in {} |-> 0]
    /\ fired = {}

Set(p, ms) ==
    /\ p \notin DOMAIN left
    /\ left' = [q \in DOMAIN left \cup {p} |-> IF q = p THEN ms ELSE left[q]]
    /\ fired' = {}

Cancel(p) ==
    /\ p \in DOMAIN left
    /\ left' = [q \in DOMAIN left \ {p} |-> left[q]]
    /\ fired' = {}

Tick ==
    /\ fired' = {p \in DOMAIN left : left[p] < 0}
    /\ left' = [p \in DOMAIN left \ fired' |-> left[p] - TICK]

Next ==
    \/ \E p \in Proc, ms \in Delays : Set(p, ms)
    \/ \E p \in Proc : Cancel(p)
    \/ Tick

Spec == Init /\ [][Next]_vars
=============================================================================
