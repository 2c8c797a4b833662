------------------------------- MODULE MCParts -------------------------------
(***************************************************************************)
(* Parts of the kernel, the startup code and the library that share no     *)
(* state but the board.  In each behaviour one of them is used and the     *)
(* others are at rest, so that the states of all need not be multiplied.   *)
(***************************************************************************)
EXTENDS TickClock, Heap, Context, Kprintf, Memory, Interrupts, Rings, Numbers,
        Printf, Prandom

VARIABLE part           \* The one that is used

partsVars ==
    <<part, vars, heapVars, contextVars, kprintfVars, memoryVars,
      interruptVars, ringVars, numberVars, printfVars, randomVars>>

Piece(spelling, arguments, prints) ==
    [spelling |-> spelling, arguments |-> arguments, prints |-> prints]

\* A character, a zero and another number for %x, '%%' and '%' alone.
MCPieces ==
    {Piece(<<"t">>, <<>>, <<"t">>),
     Piece(<<"%", "x">>, << <<"0">> >>, <<"0">>),
     Piece(<<"%", "x">>, << <<"f">> >>, <<"0", "x", "f">>),
     Piece(<<"%", "%">>, <<>>, <<"%">>),
     Piece(<<"%">>, <<>>, <<"%">>)}

\* One of the two writers calls printf(), the other any function.
Busy == CHOOSE w \in Writers : TRUE

\* Only what is used has several initial states.
PartsInit ==
    /\ part \in {"ticks", "heap", "context", "kprintf", "memory", "interrupts",
                 "rings", "numbers", "printf", "random"}
    /\ Init /\ HeapInit /\ KprintfInit /\ MemoryInit /\ RingsInit
    /\ IF part = "numbers" THEN NumbersInit ELSE Starts(0, SIGNED)
    /\ IF part = "printf" THEN PrintfInit ELSE PrintsPieces([w \in Writers |-> <<>>])
    /\ call[Busy] = "printf" /\ (part # "printf" => Range(call) = {"printf"})
    /\ RandomInit /\ (part # "random" => seed = 1)
    /\ ContextInit
    /\ part # "context" => chip = "m0" /\ runs = CHOOSE t \in Tasks : TRUE
    /\ InterruptsInit
    /\ part # "interrupts" => board = "V1" /\ used = {"UART"}

\* What only one part in use leaves unchanged.
Others(name) ==
    /\ name # "ticks" => UNCHANGED vars
    /\ name # "heap" => UNCHANGED heapVars
    /\ name # "context" => UNCHANGED contextVars
    /\ name # "kprintf" => UNCHANGED kprintfVars
    /\ name # "memory" => UNCHANGED memoryVars
    /\ name # "interrupts" => UNCHANGED interruptVars
    /\ name # "rings" => UNCHANGED ringVars
    /\ name # "numbers" => UNCHANGED numberVars
    /\ name # "printf" => UNCHANGED printfVars
    /\ name # "random" => UNCHANGED randomVars

PartsNext ==
    /\ \/ part = "ticks" /\ Next /\ Others("ticks")
       \/ part = "heap" /\ HeapNext /\ Others("heap")
       \/ part = "context" /\ ContextNext /\ Others("context")
       \/ part = "kprintf" /\ KprintfNext /\ Others("kprintf")
       \/ part = "memory" /\ MemoryNext /\ Others("memory")
       \/ part = "interrupts" /\ InterruptsNext /\ Others("interrupts")
       \/ part = "rings" /\ RingsNext /\ Others("rings")
       \/ part = "numbers" /\ NumbersNext /\ Others("numbers")
       \/ part = "printf" /\ PrintfNext /\ Others("printf")
       \/ part = "random" /\ RandomNext /\ Others("random")
    /\ UNCHANGED part

PartsSpec == PartsInit /\ [][PartsNext]_partsVars
=============================================================================
