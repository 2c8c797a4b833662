-------------------------------- MODULE Prandom --------------------------------
(***************************************************************************)
(* prandom() of lib.c: the steps of the call, made by several processes,   *)
(* and the numbers it returns.  The code has M = 2^31 - 1 and A = 48271,   *)
(* and its variables are ints, from -(M + 1) to M.                         *)
(***************************************************************************)
EXTENDS Integers

CONSTANTS
    Players,        \* Processes that call prandom()
    M, A            \* The modulus and the multiplier

Noone == "no one"

Q == M \div A
R == M % A

\* What makes Schrage's method work, and, M being prime, that no multiple of A
\* by a number below M is one of M.
ASSUME PrandomAssumption ==
    /\ Noone \notin Players
    /\ M \in Nat /\ A \in 1 .. M - 1
    /\ R < Q
    /\ \A x \in 1 .. M - 1 : (A * x) % M # 0

VARIABLES
    seed,
    where,          \* where[c]: how far c is in the call
    val,            \* val[c]: its local variable, also what it returns
    masked,         \* The process that has disabled interrupts
    prev,           \* prev[c]: whether c had done so when it made the call
    (* Ghosts *)
    true_seed,      \* The generator as it is defined
    drew            \* drew[c]: what it gave for c's call

randomVars == <<seed, where, val, masked, prev, true_seed, drew>>

Lehmer(x) == (A * x) % M

RandomInit ==
    /\ seed \in 1 .. M - 1 /\ true_seed = seed
    /\ where = [c \in Players |-> "idle"]
    /\ val = [c \in Players |-> 0] /\ drew = val
    /\ masked = Noone /\ prev = [c \in Players |-> Noone]

\* While one process has disabled interrupts nobody else runs.
Runs(c) == masked \in {c, Noone}

\* Outside the call, too, a process may disable interrupts.
intr_disable(c) ==
    /\ where[c] = "idle" /\ masked = Noone
    /\ masked' = c
    /\ UNCHANGED <<seed, where, val, prev, true_seed, drew>>

intr_enable(c) ==
    /\ where[c] = "idle" /\ masked = c
    /\ masked' = Noone
    /\ UNCHANGED <<seed, where, val, prev, true_seed, drew>>

\* get_primask() and intr_disable().
Mask(c) ==
    /\ where[c] = "idle" /\ Runs(c)
    /\ prev' = [prev EXCEPT ![c] = masked]
    /\ masked' = c
    /\ where' = [where EXCEPT ![c] = "masked"]
    /\ UNCHANGED <<seed, val, true_seed, drew>>

Load(c) ==
    /\ where[c] = "masked" /\ Runs(c)
    /\ val' = [val EXCEPT ![c] = seed]
    /\ where' = [where EXCEPT ![c] = "loaded"]
    /\ UNCHANGED <<seed, masked, prev, true_seed, drew>>

\* Seeded fault: the seed is simply multiplied.
DifferencePlain(x) == A * x

Difference(x) == A * (x - Q * (x \div Q)) - R * (x \div Q)

Multiply(x) == IF Difference(x) < 0 THEN Difference(x) + M ELSE Difference(x)

StoreSeed(c) ==
    /\ where[c] = "loaded" /\ Runs(c)
    /\ val' = [val EXCEPT ![c] = Multiply(val[c])]
    /\ seed' = Multiply(val[c])
    /\ true_seed' = Lehmer(true_seed)
    /\ drew' = [drew EXCEPT ![c] = Lehmer(true_seed)]
    /\ where' = [where EXCEPT ![c] = "stored"]
    /\ UNCHANGED <<masked, prev>>

\* set_primask(prev).
Unmask(c) ==
    /\ where[c] = "stored" /\ Runs(c)
    /\ masked' = prev[c]
    /\ where' = [where EXCEPT ![c] = "idle"]
    /\ UNCHANGED <<seed, val, prev, true_seed, drew>>

RandomNext ==
    \E c \in Players :
        \/ intr_disable(c) \/ intr_enable(c)
        \/ Mask(c) \/ Load(c) \/ StoreSeed(c) \/ Unmask(c)

RandomSpec == RandomInit /\ [][RandomNext]_randomVars

-----------------------------------------------------------------------------
\* Calls give the numbers of the generator, each to one call, whoever makes it:
\* no two calls take the same seed.
DrawsOwnNumber ==
    /\ seed = true_seed
    /\ \A c \in Players : val[c] = drew[c] \/ where[c] = "loaded"

\* "Schrage's method" keeps to its purpose: no product or difference on the way
\* to a number overflows an int.
NoOverflow ==
    \A c \in Players : where[c] = "loaded" =>
        /\ A * (val[c] - Q * (val[c] \div Q)) \in 0 .. M
        /\ R * (val[c] \div Q) \in 0 .. M
        /\ Difference(val[c]) \in -M .. M

\* Whoever calls prandom() gets a number of its own of the generator, "in the
\* range [1 .. 2^31-1)", by steps that do not overflow.
RandomCorrect == DrawsOwnNumber /\ seed \in 1 .. M - 1 /\ NoOverflow
=============================================================================
