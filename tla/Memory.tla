-------------------------------- MODULE Memory ---------------------------------
(***************************************************************************)
(* The start of a board and the memory routines of its startup.c: after    *)
(* __reset() has filled the RAM, a program calls memcpy(), memmove(),      *)
(* memset() and memcmp(), which go a byte at a time.                       *)
(***************************************************************************)
EXTENDS Integers, FiniteSets, FiniteSetsExt

CONSTANTS
    XRAM, DATA, BSS, FREE,  \* Sizes of the segments (XRAM is 0 on V1)
    BYTE,           \* The number of values of a byte
    MAXCALLS        \* Bound on the calls of the program

ASSUME MemoryAssumption ==
    {XRAM, DATA, BSS, FREE, MAXCALLS} \subseteq Nat /\ BYTE \in Nat \ {0}

(* The linker script: the images of xram and data follow the text in the   *)
(* flash, and the RAM holds xram, data, bss and what is free.              *)
etext == 0
xram_start == etext + XRAM + DATA
data_start == xram_start + XRAM
bss_start == data_start + DATA
bss_end == bss_start + BSS
RAM == xram_start .. bss_end + FREE - 1
Address == etext .. bss_end + FREE - 1

VARIABLES
    mem,            \* The bytes of flash and RAM
    stage,          \* 0 .. 3: what __reset() has begun to fill; PROGRAM
    clock,          \* The crystal clock: "off", "starting", "on"
    job,            \* The routine that runs, with its arguments
    n, to, from,    \* Its counter and pointers
    result,         \* What memcmp() has found: -1, 0 or 1
    calls,
    (* Ghost *)
    was             \* mem when the routine was called

memoryVars == <<mem, stage, clock, job, n, to, from, result, calls, was>>

PROGRAM == 4

Job(op, dest, src, size, x) ==
    [op |-> op, dest |-> dest, src |-> src, size |-> size, x |-> x]

\* What the memory holds at power on: images in the flash, anything in the RAM.
Initially(a) == (a + 1) % BYTE

MemoryInit ==
    /\ mem = [a \in Address |-> Initially(a)] /\ was = mem
    /\ stage = 0 /\ clock = "off"
    /\ job = Job("none", 0, 0, 0, 0)
    /\ n = 0 /\ to = 0 /\ from = 0 /\ result = 0 /\ calls = 0

\* Seeded fault: memmove() starts from the beginning whichever way it moves.
DownwardsNever(j) == j.op = "nothing"

\* memmove() starts from the end when it moves up.
Downwards(j) == j.op = "memmove" /\ j.dest > j.src

Invoke(j) ==
    /\ job.op = "none"
    /\ job' = j /\ n' = j.size
    /\ to' = IF Downwards(j) THEN j.dest + j.size ELSE j.dest
    /\ from' = IF Downwards(j) THEN j.src + j.size ELSE j.src
    /\ result' = 0 /\ was' = mem

(* The loops.  A byte is written and both pointers move; memcmp() returns  *)
(* at the first difference.                                                *)
More == n > 0 /\ result = 0

Upward == to' = to + 1 /\ from' = from + 1 /\ n' = n - 1

memcpy ==
    /\ job.op = "memcpy" /\ More
    /\ mem' = [mem EXCEPT ![to] = mem[from]] /\ Upward /\ UNCHANGED result

memmove ==
    /\ job.op = "memmove" /\ More
    /\ IF Downwards(job)
       THEN /\ mem' = [mem EXCEPT ![to - 1] = mem[from - 1]]
            /\ to' = to - 1 /\ from' = from - 1 /\ n' = n - 1
       ELSE mem' = [mem EXCEPT ![to] = mem[from]] /\ Upward
    /\ UNCHANGED result

memset ==
    /\ job.op = "memset" /\ More
    /\ mem' = [mem EXCEPT ![to] = job.x % BYTE] /\ Upward /\ UNCHANGED result

memcmp ==
    /\ job.op = "memcmp" /\ More
    /\ Upward /\ UNCHANGED mem
    /\ result' = IF mem[to] = mem[from] THEN 0
                 ELSE IF mem[to] < mem[from] THEN -1 ELSE 1

Move ==
    /\ memcpy \/ memmove \/ memset \/ memcmp
    /\ UNCHANGED <<stage, clock, job, calls, was>>

Finish ==
    /\ job.op # "none" /\ ~More
    /\ job' = Job("none", 0, 0, 0, 0)
    /\ UNCHANGED <<mem, stage, clock, n, to, from, result, calls, was>>

-----------------------------------------------------------------------------
(* __reset *)

StartClock ==
    /\ stage = 0 /\ clock = "off"
    /\ clock' = "starting"
    /\ UNCHANGED <<mem, stage, job, n, to, from, result, calls, was>>

\* The oscillator is external: it runs some time after it was started.
ClockStarts ==
    /\ clock = "starting"
    /\ clock' = "on"
    /\ UNCHANGED <<mem, stage, job, n, to, from, result, calls, was>>

\* The segments in the order in which they are filled; V1 has no xram.
Fills == <<
    Job("memcpy", xram_start, etext, XRAM, 0),
    Job("memcpy", data_start, etext + XRAM, DATA, 0),
    Job("memset", bss_start, 0, BSS, 0) >>

Fill ==
    /\ clock = "on" /\ stage \in 0 .. 2
    /\ stage' = stage + 1
    /\ Invoke(Fills[stage + 1])
    /\ UNCHANGED <<mem, clock, calls>>

__start ==
    /\ stage = 3 /\ job.op = "none"
    /\ stage' = PROGRAM
    /\ UNCHANGED <<mem, clock, job, n, to, from, result, calls, was>>

-----------------------------------------------------------------------------
\* The calls of a program, in the RAM; memcpy() is for areas that do not overlap.
InRAM(a, size) == a \in RAM /\ a + size - 1 <= bss_end + FREE - 1

Apart(d, s, size) == d + size <= s \/ s + size <= d

Jobs ==
    {j \in [op : {"memcpy", "memmove", "memset", "memcmp"}, dest : RAM, src : RAM,
            size : 0 .. Cardinality(RAM), x : {0, BYTE + 1}] :
        /\ InRAM(j.dest, j.size) /\ InRAM(j.src, j.size)
        /\ j.op = "memcpy" => Apart(j.dest, j.src, j.size)
        /\ j.op = "memset" <=> j.x = BYTE + 1
        /\ j.op = "memset" => j.src = j.dest}

Call ==
    /\ stage = PROGRAM /\ calls < MAXCALLS
    /\ \E j \in Jobs : Invoke(j)
    /\ calls' = calls + 1
    /\ UNCHANGED <<mem, stage, clock>>

MemoryNext == StartClock \/ ClockStarts \/ Fill \/ __start \/ Call \/ Move \/ Finish

MemorySpec == MemoryInit /\ [][MemoryNext]_memoryVars

-----------------------------------------------------------------------------
Ended == job.op # "none" /\ ~More

Area(a) == a .. a + job.size - 1

\* The program starts with xram and data as they were linked, bss zero, and
\* nothing else touched, the images in the flash included.
StartsFresh ==
    stage = PROGRAM /\ calls = 0 =>
        \A a \in Address :
            mem[a] = IF a \in xram_start .. bss_start - 1 THEN Initially(a - xram_start)
                     ELSE IF a \in bss_start .. bss_end - 1 THEN 0
                     ELSE Initially(a)

\* memmove() leaves at dest what src held when it was called, also "allowing
\* overlaps"; memcpy() does for areas apart, memset() writes its byte, and no
\* routine touches a byte that is not in dest.
FillsDest ==
    Ended => \A a \in Address :
        mem[a] = IF job.op = "memcmp" \/ a \notin Area(job.dest) THEN was[a]
                 ELSE IF job.op = "memset" THEN job.x % BYTE
                 ELSE was[job.src + (a - job.dest)]

\* memcmp() orders its areas as their first unequal bytes.
ComparesAreas ==
    Ended /\ job.op = "memcmp" =>
        LET unequal == {i \in 0 .. job.size - 1 :
                           mem[job.dest + i] # mem[job.src + i]}
        IN IF unequal = {} THEN result = 0
           ELSE result = IF mem[job.dest + Min(unequal)] < mem[job.src + Min(unequal)]
                         THEN -1 ELSE 1

\* The reset and the routines leave in memory what they should, and only there.
MemoryAsMeant == StartsFresh /\ FillsDest /\ ComparesAreas
=============================================================================
