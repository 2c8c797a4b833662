------------------------------ MODULE MCMicros ------------------------------
(* A process of interrupt priority and one of low priority.                 *)
EXTENDS Micros

MCPrio == [c \in Callers |-> IF c = "driver" THEN 0 ELSE 2]
=============================================================================
