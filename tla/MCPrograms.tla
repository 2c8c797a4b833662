------------------------------ MODULE MCPrograms ------------------------------
(***************************************************************************)
(* Kernel with two kinds of programs: those that exchange messages and     *)
(* calls, and those that send, receive with a timeout and call tick().     *)
(* Their states add up; MCKernel's two processes do everything at once.    *)
(***************************************************************************)
EXTENDS MCKernel

VARIABLE kind           \* The kind of the programs

\* No timeout is set, and all processes have low priority.
OnlyMessages == timeouts' = <<>> /\ prio' = prio

\* No process waits but for a message, with a timeout, and none is a REPLY.
OnlyAlarms ==
    \A p \in Proc :
        /\ state'[p] # "SENDREC"
        /\ state'[p] = "RECEIVING" => timeout'[p] # NO_TIME
        /\ msgbuf'[p] # NULL => msgbuf'[p].type # REPLY

ProgramsInit == Init /\ kind \in {"messages", "alarms"}

ProgramsNext ==
    /\ Next
    /\ IF kind = "messages" THEN OnlyMessages ELSE OnlyAlarms
    /\ UNCHANGED kind

ProgramsSpec == ProgramsInit /\ [][ProgramsNext]_<<vars, kind>>
=============================================================================
