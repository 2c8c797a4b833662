--------------------------- MODULE RoutineProofs ----------------------------
(***************************************************************************)
(* Theorems of routines that work on storage, numbers and texts: filling   *)
(* and copying memory, the rings of the serial driver, prandom(), the      *)
(* conversion of numbers, and printf.                                      *)
(***************************************************************************)
EXTENDS Memory, Rings, Prandom, Numbers, Printf, SequenceTheorems, WellFoundedInduction, TLAPS

-----------------------------------------------------------------------------
(***************************************************************************)
(* Induction on natural numbers, stated for sets and functions: a set that *)
(* has 0 and the successor of each of its members has them all, and there  *)
(* is a function that follows a rule from each number to the next. The     *)
(* recursive functions of Numbers and Printf are reasoned about with       *)
(* these.                                                                  *)
(***************************************************************************)

\* Every set of naturals that is not empty has a least member.
LEMMA Least ==
    ASSUME NEW T, T \subseteq Nat, T # {}
    PROVE  \E m \in T : \A k \in T : m <= k
<1> DEFINE Less == OpToRel(<, Nat)
<1>1. IsWellFoundedOn(Less, Nat)
    BY NatLessThanWellFounded
<1>2. \E m \in T : \A k \in T : ~(<<k, m>> \in Less)
    <2> HIDE DEF Less
    <2> QED BY <1>1, WFMin
<1>3. \A k, m \in Nat : k < m => <<k, m>> \in Less
    BY DEF OpToRel
<1>4. PICK m \in T : \A k \in T : ~(<<k, m>> \in Less)
    BY <1>2
<1>5. ASSUME NEW k \in T
      PROVE  m <= k
    <2>1. k \in Nat /\ m \in Nat /\ ~(k < m)
        <3> HIDE DEF Less
        <3> QED BY <1>3, <1>4
    <2>2. QED
        BY <2>1
<1>6. QED
    BY <1>5

\* Induction on natural numbers, for a set in place of a predicate.
LEMMA Induction ==
    ASSUME NEW S, 0 \in S, \A k \in Nat : k \in S => k + 1 \in S
    PROVE  Nat \subseteq S
<1> DEFINE T == Nat \ S
<1>1. SUFFICES ASSUME T # {} PROVE FALSE
    OBVIOUS
<1>2. PICK m \in T : \A k \in T : m <= k
    <2> HIDE DEF T
    <2>1. T \subseteq Nat
        BY DEF T
    <2> QED BY <1>1, <2>1, Least
<1>3. m \in Nat /\ m # 0 /\ m \notin S
    OBVIOUS
<1>4. m - 1 \in Nat /\ m - 1 \notin T
    BY <1>2, <1>3
<1>5. QED
    BY <1>3, <1>4

\* f begins with a, and F[k] takes its value at k to the next one.
Follows(f, V, a, F) ==
    f \in [Nat -> V] /\ f[0] = a /\ \A k \in Nat : f[k + 1] = F[k][f[k]]

\* A function of naturals can be defined by recursion, from its value at 0 and
\* the function that takes each to the next.
LEMMA Recursion ==
    ASSUME NEW V, NEW a \in V, NEW F \in [Nat -> [V -> V]]
    PROVE  \E f : Follows(f, V, a, F)
<1> DEFINE Part(m, g) == /\ g \in [Nat -> V] /\ g[0] = a
                         /\ \A k \in 0 .. m - 1 : g[k + 1] = F[k][g[k]]
           Parts == {m \in Nat : \E g \in [Nat -> V] : Part(m, g)}
<1>1. 0 \in Parts
    <2>1. Part(0, [k \in Nat |-> a])
        OBVIOUS
    <2>2. QED
        BY <2>1
<1>2. ASSUME NEW m \in Nat, m \in Parts
      PROVE  m + 1 \in Parts
    <2>1. PICK g \in [Nat -> V] : Part(m, g)
        BY <1>2
    <2> DEFINE h == [g EXCEPT ![m + 1] = F[m][g[m]]]
    <2>2. h \in [Nat -> V]
        OBVIOUS
    <2>3. h[m + 1] = F[m][g[m]] /\ \A k \in 0 .. m : h[k] = g[k]
        OBVIOUS
    <2>4. Part(m + 1, h)
        BY <2>1, <2>2, <2>3
    <2>5. QED
        <3> HIDE DEF h, Part
        <3> QED BY <2>2, <2>4
<1>3. Nat \subseteq Parts
    <2> HIDE DEF Parts
    <2> QED BY <1>1, <1>2, Induction
<1>4. ASSUME NEW m \in Nat, NEW g, NEW h, Part(m, g), Part(m, h)
      PROVE  g[m] = h[m]
    <2> DEFINE Same == {k \in Nat : k <= m => g[k] = h[k]}
    <2>1. 0 \in Same
        BY <1>4
    <2>2. ASSUME NEW k \in Nat, k \in Same
          PROVE  k + 1 \in Same
        <3>1. SUFFICES ASSUME k + 1 <= m PROVE g[k + 1] = h[k + 1]
            OBVIOUS
        <3>2. g[k] = h[k] /\ k \in 0 .. m - 1
            BY <2>2, <3>1
        <3>3. QED
            BY <1>4, <3>2
    <2>3. Nat \subseteq Same
        <3> HIDE DEF Same
        <3> QED BY <2>1, <2>2, Induction
    <2>4. QED
        BY <2>3
<1> DEFINE G(m) == CHOOSE g \in [Nat -> V] : Part(m, g)
           f == [m \in Nat |-> G(m)[m]]
<1>5. \A m \in Nat : Part(m, G(m))
    <2> HIDE DEF Part
    <2> QED BY <1>3
<1>6. f \in [Nat -> V]
    BY <1>5
<1>7. f[0] = a
    <2>1. Part(0, G(0))
        BY <1>5
    <2> HIDE DEF G
    <2> QED BY <2>1
<1>8. ASSUME NEW k \in Nat
      PROVE  f[k + 1] = F[k][f[k]]
    <2>1. Part(k + 1, G(k + 1)) /\ Part(k, G(k))
        <3> HIDE DEF Part, G
        <3>1. k + 1 \in Nat
            OBVIOUS
        <3> QED BY <1>5, <3>1
    <2> HIDE DEF G
    <2>2. Part(k, G(k + 1))
        BY <2>1
    <2>3. G(k + 1)[k] = G(k)[k]
        <3> HIDE DEF Part
        <3> QED BY <1>4, <2>1, <2>2
    <2>4. G(k + 1)[k + 1] = F[k][G(k + 1)[k]]
        BY <2>1
    <2>5. QED
        BY <2>3, <2>4
<1>9. QED
    <2> HIDE DEF f
    <2> QED BY <1>6, <1>7, <1>8 DEF Follows

-----------------------------------------------------------------------------
(***************************************************************************)
(* Theorem of Memory: the startup code prepares the segments, and each     *)
(* routine for areas of memory does what it promises and nothing else, for *)
(* every size of the segments and the areas.                               *)
(*                                                                         *)
(* The inductive invariant says which bytes the routine that runs has      *)
(* written so far and what it has read.                                    *)
(***************************************************************************)

Limit == bss_end + FREE

\* The memory when the first s segments have been filled.
Filled(s) ==
    [a \in Address |->
        IF s >= 1 /\ a \in xram_start .. data_start - 1 THEN Initially(a - xram_start)
        ELSE IF s >= 2 /\ a \in data_start .. bss_start - 1 THEN Initially(a - xram_start)
        ELSE IF s >= 3 /\ a \in bss_start .. bss_end - 1 THEN 0
        ELSE Initially(a)]

\* The routine that runs was called with areas in the memory.
JobFits(j) ==
    /\ j.op \in {"memcpy", "memmove", "memset", "memcmp"}
    /\ j.dest \in Nat /\ j.src \in Nat /\ j.size \in Nat /\ j.x \in Nat
    /\ xram_start <= j.dest /\ j.dest + j.size <= Limit /\ j.src + j.size <= Limit
    /\ j.op = "memcpy" => Apart(j.dest, j.src, j.size)

\* The counter and the pointers go together, ...
Pointers ==
    /\ n \in 0 .. job.size /\ result \in {-1, 0, 1}
    /\ job.op # "memcmp" => result = 0
    /\ IF Downwards(job)
       THEN to = job.dest + n /\ from = job.src + n
       ELSE to = job.dest + (job.size - n) /\ from = job.src + (job.size - n)

\* ... what was written is what it should be, ...
Written(a) ==
    IF Downwards(job) THEN a \in job.dest + n .. job.dest + job.size - 1
    ELSE a \in job.dest .. job.dest + (job.size - n) - 1

Contents ==
    \A a \in Address :
        mem[a] = IF job.op = "memcmp" \/ ~Written(a) THEN was[a]
                 ELSE IF job.op = "memset" THEN job.x % BYTE
                 ELSE was[job.src + (a - job.dest)]

\* ... and what was compared was equal, but for the last.
Compared ==
    job.op = "memcmp" =>
        /\ result = 0 => \A i \in 0 .. job.size - n - 1 : mem[job.dest + i] = mem[job.src + i]
        /\ result # 0 =>
              /\ n < job.size
              /\ \A i \in 0 .. job.size - n - 2 : mem[job.dest + i] = mem[job.src + i]
              /\ mem[job.dest + (job.size - n - 1)] # mem[job.src + (job.size - n - 1)]
              /\ result = IF mem[job.dest + (job.size - n - 1)] < mem[job.src + (job.size - n - 1)]
                          THEN -1 ELSE 1

\* The segments are filled in their order before the program calls anything.
Segments ==
    /\ stage \in 0 .. PROGRAM /\ calls \in Nat /\ (stage < PROGRAM => calls = 0)
    /\ stage = 0 => job.op = "none"
    /\ job.op = "none" /\ calls = 0 => mem = Filled(stage)
    /\ job.op # "none" /\ calls = 0 =>
          stage \in 1 .. 3 /\ job = Fills[stage] /\ was = Filled(stage - 1)

MemoryInv ==
    /\ mem \in [Address -> Int] /\ was \in [Address -> Int]
    /\ Segments
    /\ job.op # "none" => JobFits(job) /\ Pointers /\ Contents /\ Compared

-----------------------------------------------------------------------------
(* The memory *)

LEMMA SegmentFacts ==
    /\ XRAM \in Nat /\ DATA \in Nat /\ BSS \in Nat /\ FREE \in Nat /\ BYTE \in Nat \ {0}
    /\ xram_start = XRAM + DATA /\ data_start = xram_start + XRAM
    /\ bss_start = data_start + DATA /\ bss_end = bss_start + BSS /\ Limit = bss_end + FREE
    /\ Address = 0 .. Limit - 1 /\ RAM = xram_start .. Limit - 1
    /\ xram_start \in Nat /\ data_start \in Nat /\ bss_start \in Nat /\ bss_end \in Nat
    /\ Limit \in Nat
<1>1. XRAM \in Nat /\ DATA \in Nat /\ BSS \in Nat /\ FREE \in Nat /\ BYTE \in Nat \ {0}
    BY MemoryAssumption
<1>2. xram_start = XRAM + DATA
    BY <1>1 DEF xram_start, etext
<1>3. /\ data_start = xram_start + XRAM /\ bss_start = data_start + DATA
      /\ bss_end = bss_start + BSS /\ Limit = bss_end + FREE
    BY DEF data_start, bss_start, bss_end, Limit
<1>4. /\ xram_start \in Nat /\ data_start \in Nat /\ bss_start \in Nat /\ bss_end \in Nat
      /\ Limit \in Nat
    BY <1>1, <1>2, <1>3
<1>5. bss_end + FREE - 1 = Limit - 1
    BY <1>1, <1>3, <1>4
<1>6. Address = 0 .. Limit - 1 /\ RAM = xram_start .. Limit - 1
    BY <1>5 DEF Address, RAM, etext
<1>7. QED
    BY <1>1, <1>2, <1>3, <1>4, <1>6

LEMMA InitiallyFacts == \A a \in Int : Initially(a) \in Int
    BY SegmentFacts DEF Initially

LEMMA FilledFacts ==
    ASSUME NEW s \in 0 .. 3
    PROVE  Filled(s) \in [Address -> Int]
<1>1. \A a \in Address : a \in Int /\ a - xram_start \in Int
    BY SegmentFacts
<1>2. QED
    BY <1>1, InitiallyFacts DEF Filled

\* The calls of __reset() and of the program are for areas in the memory.
LEMMA FillFacts ==
    /\ Fills[1] = Job("memcpy", xram_start, 0, XRAM, 0)
    /\ Fills[2] = Job("memcpy", data_start, XRAM, DATA, 0)
    /\ Fills[3] = Job("memset", bss_start, 0, BSS, 0)
<1>1. etext = 0 /\ etext + XRAM = XRAM
    BY SegmentFacts DEF etext
<1>2. QED
    BY <1>1 DEF Fills

LEMMA FillsFit == \A s \in 1 .. 3 : JobFits(Fills[s])
<1>1. JobFits(Fills[1])
    BY FillFacts, SegmentFacts DEF JobFits, Job, Apart
<1>2. JobFits(Fills[2])
    BY FillFacts, SegmentFacts DEF JobFits, Job, Apart
<1>3. JobFits(Fills[3])
    BY FillFacts, SegmentFacts DEF JobFits, Job, Apart
<1>4. QED
    BY <1>1, <1>2, <1>3

LEMMA JobsFit == \A j \in Jobs : JobFits(j)
<1> SUFFICES ASSUME NEW j \in Jobs PROVE JobFits(j)
    OBVIOUS
<1>1. /\ j.op \in {"memcpy", "memmove", "memset", "memcmp"}
      /\ j.dest \in RAM /\ j.src \in RAM /\ j.size \in Nat /\ j.x \in {0, BYTE + 1}
      /\ InRAM(j.dest, j.size) /\ InRAM(j.src, j.size)
      /\ j.op = "memcpy" => Apart(j.dest, j.src, j.size)
    BY DEF Jobs
<1>2. /\ j.dest \in Nat /\ j.src \in Nat /\ j.x \in Nat
      /\ xram_start <= j.dest /\ j.dest + j.size <= Limit /\ j.src + j.size <= Limit
    BY <1>1, SegmentFacts DEF InRAM
<1>3. QED
    BY <1>1, <1>2 DEF JobFits

-----------------------------------------------------------------------------
(* The steps *)

LEMMA StartMemory == MemoryInit => MemoryInv
<1> SUFFICES ASSUME MemoryInit PROVE MemoryInv
    OBVIOUS
<1>1. mem = [a \in Address |-> Initially(a)] /\ was = mem /\ job.op = "none" /\ stage = 0 /\ calls = 0
    BY DEF MemoryInit, Job
<1>2. mem \in [Address -> Int]
    <2>1. \A a \in Address : a \in Int
        BY SegmentFacts
    <2>2. QED
        BY <1>1, <2>1, InitiallyFacts
<1>3. mem = Filled(0)
    BY <1>1 DEF Filled
<1>4. Segments
    BY <1>1, <1>3 DEF Segments, PROGRAM
<1>5. QED
    BY <1>1, <1>2, <1>4 DEF MemoryInv

\* A routine begins with nothing written and nothing compared.
LEMMA InvokeFacts ==
    ASSUME MemoryInv, NEW j, JobFits(j), Invoke(j), mem' = mem
    PROVE  /\ job' = j /\ was' = mem
           /\ JobFits(job)' /\ Pointers' /\ Contents' /\ Compared'
<1>1. /\ job' = j /\ n' = j.size /\ result' = 0 /\ was' = mem
      /\ to' = IF Downwards(j) THEN j.dest + j.size ELSE j.dest
      /\ from' = IF Downwards(j) THEN j.src + j.size ELSE j.src
      /\ j.size \in Nat /\ j.dest \in Nat /\ j.src \in Nat
    BY DEF Invoke, JobFits
<1>2. JobFits(job)'
    BY <1>1 DEF JobFits
<1>3. Pointers'
    BY <1>1 DEF Pointers, Downwards
<1>4. \A a : ~ Written(a)'
    BY <1>1 DEF Written, Downwards
<1>5. Contents'
    BY <1>1, <1>4 DEF Contents
<1>6. Compared'
    BY <1>1 DEF Compared
<1>7. QED
    BY <1>1, <1>2, <1>3, <1>5, <1>6

\* One byte is written.
LEMMA WriteFacts ==
    ASSUME mem \in [Address -> Int], NEW a \in Address, NEW v \in Int, mem' = [mem EXCEPT ![a] = v]
    PROVE  /\ mem' \in [Address -> Int] /\ mem'[a] = v
           /\ \A b \in Address \ {a} : mem'[b] = mem[b]
    OBVIOUS

\* The routine goes on: what it leaves alone, and what is left to show.
LEMMA MoveKeeps ==
    ASSUME MemoryInv, UNCHANGED <<stage, clock, job, calls, was>>, job.op # "none",
           mem' \in [Address -> Int], Pointers', Contents', Compared'
    PROVE  MemoryInv'
<1>1. JobFits(job)'
    BY DEF MemoryInv, JobFits
<1>2. Segments'
    BY DEF MemoryInv, Segments
<1>3. QED
    BY <1>1, <1>2 DEF MemoryInv

\* What is known while a routine runs.
LEMMA RunningFacts ==
    ASSUME MemoryInv, job.op # "none", More
    PROVE  /\ JobFits(job) /\ Pointers /\ Contents /\ Compared
           /\ n \in 1 .. job.size /\ result = 0 /\ mem \in [Address -> Int] /\ was \in [Address -> Int]
           /\ job.dest \in Nat /\ job.src \in Nat /\ job.size \in Nat /\ job.x \in Nat
           /\ job.dest + job.size <= Limit /\ job.src + job.size <= Limit
    BY DEF MemoryInv, More, Pointers, JobFits

\* A byte that is read from src was not written since the call.
LEMMA memcpyKeeps == ASSUME MemoryInv, memcpy, UNCHANGED <<stage, clock, job, calls, was>>
                     PROVE  MemoryInv'
<1>1. PICK d, s, k : d = job.dest /\ s = job.src /\ k = job.size - n
    OBVIOUS
<1>2. /\ JobFits(job) /\ Contents /\ job.op = "memcpy" /\ ~Downwards(job)
      /\ n \in Nat /\ job.size \in Nat /\ result = 0
      /\ mem \in [Address -> Int] /\ was \in [Address -> Int]
    BY RunningFacts DEF memcpy, Downwards
<1>3. /\ k \in Nat /\ k < job.size /\ d \in Nat /\ s \in Nat /\ job.size - n' = k + 1
      /\ d + job.size <= Limit /\ s + job.size <= Limit
      /\ d + job.size <= s \/ s + job.size <= d
      /\ to = d + k /\ from = s + k
    BY <1>1, <1>2, RunningFacts DEF Pointers, JobFits, Apart, memcpy, Upward
<1>4. to \in Address /\ from \in Address
    BY <1>2, <1>3, SegmentFacts
<1>5. mem[from] = was[from]
    <2>1. ~Written(from)
        BY <1>1, <1>2, <1>3 DEF Written
    <2>2. QED
        BY <1>2, <1>4, <2>1 DEF Contents
<1>6. /\ mem' \in [Address -> Int] /\ mem'[to] = mem[from]
      /\ \A b \in Address \ {to} : mem'[b] = mem[b]
    BY <1>2, <1>4, WriteFacts DEF memcpy
<1>7. Pointers'
    BY <1>1, <1>2, <1>3 DEF Pointers, memcpy, Upward, Downwards
<1>8. Contents'
    <2> SUFFICES ASSUME NEW a \in Address
                 PROVE  mem'[a] = IF ~(a \in d .. d + (k + 1) - 1) THEN was[a] ELSE was[s + (a - d)]
        BY <1>1, <1>2, <1>3 DEF Contents, Written
    <2>1. mem[a] = IF ~(a \in d .. d + k - 1) THEN was[a] ELSE was[s + (a - d)]
        BY <1>1, <1>2 DEF Contents, Written
    <2>2. CASE a = to
        BY <1>3, <1>5, <1>6, <2>2
    <2>3. CASE a # to
        <3>1. a \in Int /\ (a \in d .. d + (k + 1) - 1 <=> a \in d .. d + k - 1)
            BY <1>3, <2>3, SegmentFacts
        <3>2. QED
            BY <1>6, <2>1, <2>3, <3>1
    <2>4. QED
        BY <2>2, <2>3
<1>9. Compared'
    BY <1>2 DEF Compared
<1>10. QED
    BY <1>2, <1>6, <1>7, <1>8, <1>9, MoveKeeps

LEMMA memsetKeeps == ASSUME MemoryInv, memset, UNCHANGED <<stage, clock, job, calls, was>>
                     PROVE  MemoryInv'
<1>1. PICK d, k, v : d = job.dest /\ k = job.size - n /\ v = job.x % BYTE
    OBVIOUS
<1>2. /\ JobFits(job) /\ Contents /\ job.op = "memset" /\ ~Downwards(job)
      /\ n \in Nat /\ job.size \in Nat /\ result = 0 /\ job.x \in Nat
      /\ mem \in [Address -> Int] /\ was \in [Address -> Int]
    BY RunningFacts DEF memset, Downwards
<1>3. /\ k \in Nat /\ k < job.size /\ d \in Nat /\ job.size - n' = k + 1
      /\ d + job.size <= Limit /\ to = d + k
    BY <1>1, <1>2, RunningFacts DEF Pointers, JobFits, memset, Upward
<1>4. to \in Address
    BY <1>2, <1>3, SegmentFacts
<1>5. v \in Int
    BY <1>1, <1>2, SegmentFacts
<1>6. /\ mem' \in [Address -> Int] /\ mem'[to] = v
      /\ \A b \in Address \ {to} : mem'[b] = mem[b]
    BY <1>1, <1>2, <1>4, <1>5, WriteFacts DEF memset
<1>7. Pointers'
    BY <1>1, <1>2, <1>3, RunningFacts DEF Pointers, memset, Upward, Downwards
<1>8. Contents'
    <2> SUFFICES ASSUME NEW a \in Address
                 PROVE  mem'[a] = IF ~(a \in d .. d + (k + 1) - 1) THEN was[a] ELSE v
        BY <1>1, <1>2, <1>3 DEF Contents, Written
    <2>1. mem[a] = IF ~(a \in d .. d + k - 1) THEN was[a] ELSE v
        BY <1>1, <1>2 DEF Contents, Written
    <2>2. CASE a = to
        BY <1>3, <1>6, <2>2
    <2>3. CASE a # to
        <3>1. a \in Int /\ (a \in d .. d + (k + 1) - 1 <=> a \in d .. d + k - 1)
            BY <1>3, <2>3, SegmentFacts
        <3>2. QED
            BY <1>6, <2>1, <2>3, <3>1
    <2>4. QED
        BY <2>2, <2>3
<1>9. Compared'
    BY <1>2 DEF Compared
<1>10. QED
    BY <1>2, <1>6, <1>7, <1>8, <1>9, MoveKeeps

\* Overlap does no harm: memmove() reads each byte before it writes to it.
LEMMA memmoveKeeps == ASSUME MemoryInv, memmove, UNCHANGED <<stage, clock, job, calls, was>>
                      PROVE  MemoryInv'
<1>1. PICK d, s, z, k : d = job.dest /\ s = job.src /\ z = job.size /\ k = z - n
    OBVIOUS
<1>2. /\ JobFits(job) /\ Contents /\ job.op = "memmove" /\ (Downwards(job) <=> d > s)
      /\ result = 0 /\ result' = 0
      /\ mem \in [Address -> Int] /\ was \in [Address -> Int]
    BY <1>1, RunningFacts DEF memmove, Downwards
<1>3. /\ k \in Nat /\ k < z /\ d \in Nat /\ s \in Nat /\ z \in Nat /\ n \in Nat /\ n = z - k
      /\ d + z <= Limit /\ s + z <= Limit /\ n' = n - 1 /\ z - n' = k + 1
    BY <1>1, <1>2, RunningFacts DEF JobFits, memmove, Upward
<1>4. CASE d > s
    <2>1. /\ to = d + n /\ from = s + n /\ to' = to - 1 /\ from' = from - 1
          /\ mem' = [mem EXCEPT ![to - 1] = mem[from - 1]]
        BY <1>1, <1>2, <1>4, RunningFacts DEF Pointers, memmove
    <2>2. PICK t, f : t = to - 1 /\ f = from - 1
        OBVIOUS
    <2>3. t = d + n' /\ f = s + n' /\ n' \in Nat /\ n' < z
        BY <1>3, <2>1, <2>2
    <2>4. t \in Address /\ f \in Address
        BY <1>3, <2>3, SegmentFacts
    <2>5. mem[f] = was[f]
        <3>1. ~Written(f)
            BY <1>1, <1>2, <1>3, <1>4, <2>3 DEF Written
        <3>2. QED
            BY <1>2, <2>4, <3>1 DEF Contents
    <2>6. /\ mem' \in [Address -> Int] /\ mem'[t] = was[f]
          /\ \A b \in Address \ {t} : mem'[b] = mem[b]
        BY <1>2, <2>1, <2>2, <2>4, <2>5, WriteFacts
    <2>7. Pointers'
        <3>1. to' = d + n' /\ from' = s + n' /\ n' \in 0 .. z
            BY <1>3, <2>1, <2>3
        <3>2. QED
            BY <1>1, <1>2, <1>4, <3>1 DEF Pointers, Downwards
    <2>8. Contents'
        <3> SUFFICES ASSUME NEW a \in Address
                     PROVE  mem'[a] = IF ~(a \in d + n' .. d + z - 1) THEN was[a]
                                      ELSE was[s + (a - d)]
            BY <1>1, <1>2, <1>4 DEF Contents, Written, Downwards
        <3>1. mem[a] = IF ~(a \in d + n .. d + z - 1) THEN was[a] ELSE was[s + (a - d)]
            BY <1>1, <1>2, <1>4 DEF Contents, Written
        <3>2. CASE a = t
            <4>1. a \in d + n' .. d + z - 1 /\ s + (a - d) = f
                BY <1>3, <2>3, <3>2
            <4>2. QED
                BY <2>6, <3>2, <4>1
        <3>3. CASE a # t
            <4>1. a \in Int /\ (a \in d + n' .. d + z - 1 <=> a \in d + n .. d + z - 1)
                BY <1>3, <2>3, <3>3, SegmentFacts
            <4>2. QED
                BY <2>6, <3>1, <3>3, <4>1
        <3>4. QED
            BY <3>2, <3>3
    <2>9. Compared'
        BY <1>2 DEF Compared
    <2>10. QED
        BY <1>2, <2>6, <2>7, <2>8, <2>9, MoveKeeps
<1>5. CASE ~(d > s)
    <2>1. /\ to = d + k /\ from = s + k /\ to' = to + 1 /\ from' = from + 1
          /\ mem' = [mem EXCEPT ![to] = mem[from]]
        BY <1>1, <1>2, <1>5, RunningFacts DEF Pointers, memmove, Upward
    <2>2. to \in Address /\ from \in Address
        <3>1. d + k \in 0 .. Limit - 1 /\ s + k \in 0 .. Limit - 1
            BY <1>3, SegmentFacts
        <3>2. QED
            BY <2>1, <3>1, SegmentFacts
    <2>3. mem[from] = was[from]
        <3>1. ~Written(from)
            BY <1>1, <1>2, <1>3, <1>5, <2>1 DEF Written
        <3>2. QED
            BY <1>2, <2>2, <3>1 DEF Contents
    <2>4. /\ mem' \in [Address -> Int] /\ mem'[to] = was[from]
          /\ \A b \in Address \ {to} : mem'[b] = mem[b]
        BY <1>2, <2>1, <2>2, <2>3, WriteFacts
    <2>5. Pointers'
        <3>1. to' = d + (z - n') /\ from' = s + (z - n') /\ n' \in 0 .. z
            BY <1>3, <2>1
        <3>2. QED
            BY <1>1, <1>2, <1>5, <3>1 DEF Pointers, Downwards
    <2>6. Contents'
        <3> SUFFICES ASSUME NEW a \in Address
                     PROVE  mem'[a] = IF ~(a \in d .. d + (k + 1) - 1) THEN was[a]
                                      ELSE was[s + (a - d)]
            BY <1>1, <1>2, <1>3, <1>5 DEF Contents, Written, Downwards
        <3>1. mem[a] = IF ~(a \in d .. d + k - 1) THEN was[a] ELSE was[s + (a - d)]
            BY <1>1, <1>2, <1>5 DEF Contents, Written
        <3>2. CASE a = to
            <4>1. d + k \in d .. d + (k + 1) - 1 /\ s + ((d + k) - d) = s + k
                BY <1>3
            <4>2. QED
                BY <2>1, <2>4, <3>2, <4>1
        <3>3. CASE a # to
            <4>1. a # d + k /\ a \in Int
                BY <2>1, <3>3, SegmentFacts
            <4>2. a \in d .. d + (k + 1) - 1 <=> a \in d .. d + k - 1
                BY <1>3, <4>1
            <4>3. QED
                BY <2>4, <3>1, <3>3, <4>2
        <3>4. QED
            BY <3>2, <3>3
    <2>7. Compared'
        BY <1>2 DEF Compared
    <2>8. QED
        BY <1>2, <2>4, <2>5, <2>6, <2>7, MoveKeeps
<1>6. QED
    BY <1>4, <1>5

\* memcmp() stops at the first difference.
LEMMA memcmpKeeps == ASSUME MemoryInv, memcmp, UNCHANGED <<stage, clock, job, calls, was>>
                     PROVE  MemoryInv'
<1>1. PICK d, s, z, k : d = job.dest /\ s = job.src /\ z = job.size /\ k = z - n
    OBVIOUS
<1>2. /\ Contents /\ Compared /\ job.op = "memcmp" /\ ~Downwards(job)
      /\ result = 0 /\ mem' = mem /\ mem \in [Address -> Int]
    BY RunningFacts DEF memcmp, Downwards
<1>3. /\ k \in Nat /\ k < z /\ d \in Nat /\ s \in Nat /\ z \in Nat /\ n' \in Nat /\ z - n' = k + 1
      /\ d + z <= Limit /\ s + z <= Limit /\ to = d + k /\ from = s + k
      /\ to' = d + (k + 1) /\ from' = s + (k + 1) /\ n' <= z
    BY <1>1, <1>2, RunningFacts DEF JobFits, Pointers, memcmp, Upward
<1>4. PICK x, y : x = mem[d + k] /\ y = mem[s + k]
    OBVIOUS
<1>5. /\ x \in Int /\ y \in Int
      /\ result' = IF x = y THEN 0 ELSE IF x < y THEN -1 ELSE 1
    <2>1. d + k \in Address /\ s + k \in Address
        BY <1>3, SegmentFacts
    <2>2. QED
        BY <1>2, <1>3, <1>4, <2>1 DEF memcmp
<1>6. \A i \in 0 .. k - 1 : mem[d + i] = mem[s + i]
    BY <1>1, <1>2 DEF Compared
<1>7. Pointers'
    BY <1>1, <1>2, <1>3, <1>5 DEF Pointers, Downwards, memcmp
<1>8. Contents'
    BY <1>2 DEF Contents, memcmp
<1>9. Compared'
    <2>1. ASSUME result' = 0, NEW i \in 0 .. (k + 1) - 1 PROVE mem[d + i] = mem[s + i]
        <3>1. CASE i = k
            BY <1>4, <1>5, <2>1, <3>1
        <3>2. CASE i # k
            <4>1. i \in 0 .. k - 1
                BY <1>3, <3>2
            <4>2. QED
                BY <1>6, <4>1
        <3>3. QED
            BY <3>1, <3>2
    <2>2. ASSUME result' # 0
          PROVE  x # y /\ result' = IF x < y THEN -1 ELSE 1
        BY <1>5, <2>2
    <2>3. PICK m : m = n'
        OBVIOUS
    <2>4. m < z /\ z - m - 1 = k /\ z - m - 2 = k - 1
        <3>1. m \in Nat /\ z \in Nat /\ k \in Nat /\ z - m = k + 1
            BY <1>3, <2>3
        <3>2. QED
            BY <3>1
    <2>5. QED
        BY <1>1, <1>2, <1>3, <1>4, <1>6, <2>1, <2>2, <2>3, <2>4 DEF Compared
<1>10. QED
    BY <1>2, <1>7, <1>8, <1>9, MoveKeeps DEF memcmp

LEMMA FinishKeeps == MemoryInv /\ Finish => MemoryInv'
<1> SUFFICES ASSUME MemoryInv, Finish PROVE MemoryInv'
    OBVIOUS
<1>1. /\ job.op # "none" /\ ~More /\ job'.op = "none"
      /\ mem' = mem /\ stage' = stage /\ calls' = calls /\ was' = was
    BY DEF Finish, Job
<1>2. /\ JobFits(job) /\ Pointers /\ Contents /\ Segments
      /\ mem \in [Address -> Int] /\ was \in [Address -> Int]
    BY <1>1 DEF MemoryInv
<1>3. ASSUME calls = 0 PROVE mem = Filled(stage)
    <2>1. stage \in 1 .. 3 /\ job = Fills[stage] /\ was = Filled(stage - 1)
        BY <1>1, <1>2, <1>3 DEF Segments
    <2>2. job.op \in {"memcpy", "memset"} /\ n = 0 /\ ~Downwards(job)
        <3>1. job.op \in {"memcpy", "memset"}
            BY <2>1, FillFacts DEF Job
        <3>2. QED
            BY <1>1, <1>2, <3>1 DEF Pointers, More, Downwards, JobFits
    <2>3. ASSUME NEW a \in Address
          PROVE  mem[a] = IF ~(a \in job.dest .. job.dest + job.size - 1) THEN was[a]
                          ELSE IF job.op = "memset" THEN job.x % BYTE
                          ELSE was[job.src + (a - job.dest)]
        <3>1. job.size - n = job.size
            BY <1>2, <2>2 DEF JobFits
        <3>2. QED
            BY <1>2, <2>2, <3>1 DEF Contents, Written
    <2>4. ASSUME NEW a \in Address PROVE mem[a] = Filled(stage)[a]
        <3>1. a \in Int
            BY SegmentFacts
        <3>2. CASE stage = 1
            <4>1. job = Job("memcpy", xram_start, 0, XRAM, 0)
                BY <2>1, <3>2, FillFacts
            <4>2. /\ job.op = "memcpy" /\ job.dest = xram_start /\ job.src = 0
                  /\ job.size = XRAM
                BY <4>1 DEF Job
            <4>3. QED
                BY <2>1, <2>3, <3>1, <3>2, <4>2, SegmentFacts DEF Filled
        <3>3. CASE stage = 2
            <4>1. job = Job("memcpy", data_start, XRAM, DATA, 0)
                BY <2>1, <3>3, FillFacts
            <4>2. /\ job.op = "memcpy" /\ job.dest = data_start /\ job.src = XRAM
                  /\ job.size = DATA
                BY <4>1 DEF Job
            <4>3. ASSUME a \in data_start .. bss_start - 1
                  PROVE  mem[a] = Initially(a - xram_start)
                <5>1. PICK k : k = XRAM + (a - data_start)
                    OBVIOUS
                <5>2. k \in Address /\ k < xram_start /\ k \in Int /\ k = a - xram_start
                    BY <3>1, <4>3, <5>1, SegmentFacts
                <5>3. was[k] = Initially(k)
                    BY <2>1, <3>3, <5>2, SegmentFacts DEF Filled
                <5>4. a \in data_start .. data_start + DATA - 1
                    BY <3>1, <4>3, SegmentFacts
                <5>5. QED
                    BY <2>3, <4>2, <5>1, <5>2, <5>3, <5>4
            <4>4. ASSUME ~(a \in data_start .. bss_start - 1) PROVE mem[a] = Filled(1)[a]
                <5>1. ~(a \in data_start .. data_start + DATA - 1)
                    BY <3>1, <4>4, SegmentFacts
                <5>2. QED
                    BY <2>1, <2>3, <3>3, <4>2, <5>1
            <4>5. QED
                BY <3>1, <3>3, <4>3, <4>4, SegmentFacts DEF Filled
        <3>4. CASE stage = 3
            <4>1. job = Job("memset", bss_start, 0, BSS, 0)
                BY <2>1, <3>4, FillFacts
            <4>2. /\ job.op = "memset" /\ job.dest = bss_start /\ job.src = 0
                  /\ job.size = BSS /\ job.x = 0
                BY <4>1 DEF Job
            <4>3. QED
                BY <2>1, <2>3, <3>1, <3>4, <4>2, SegmentFacts DEF Filled
        <3>5. QED
            BY <2>1, <3>2, <3>3, <3>4
    <2>5. QED
        BY <1>2, <2>1, <2>4, FilledFacts
<1>4. Segments'
    BY <1>1, <1>2, <1>3 DEF Segments
<1>5. QED
    BY <1>1, <1>2, <1>4 DEF MemoryInv

LEMMA FillKeeps == MemoryInv /\ Fill => MemoryInv'
<1> SUFFICES ASSUME MemoryInv, Fill PROVE MemoryInv'
    OBVIOUS
<1>1. PICK j : j = Fills[stage + 1]
    OBVIOUS
<1>2. /\ stage \in 0 .. 2 /\ stage' = stage + 1 /\ Invoke(j) /\ mem' = mem /\ calls' = calls
      /\ job.op = "none"
    BY <1>1 DEF Fill, Invoke
<1>3. JobFits(j) /\ j.op # "none"
    <2>1. stage + 1 \in 1 .. 3
        BY <1>2
    <2>2. JobFits(j)
        BY <1>1, <2>1, FillsFit
    <2>3. QED
        BY <2>2 DEF JobFits
<1>4. /\ job' = j /\ was' = mem /\ JobFits(job)' /\ Pointers' /\ Contents' /\ Compared'
    BY <1>2, <1>3, InvokeFacts
<1>5. calls = 0 /\ mem = Filled(stage)
    BY <1>2 DEF MemoryInv, Segments, PROGRAM
<1>6. Segments'
    <2>1. stage' \in 1 .. 3 /\ stage' - 1 = stage
        BY <1>2
    <2>2. QED
        BY <1>1, <1>2, <1>3, <1>4, <1>5, <2>1 DEF Segments, PROGRAM
<1>7. QED
    BY <1>2, <1>4, <1>6 DEF MemoryInv

LEMMA CallKeeps == MemoryInv /\ Call => MemoryInv'
<1> SUFFICES ASSUME MemoryInv, Call PROVE MemoryInv'
    OBVIOUS
<1>1. PICK j \in Jobs : Invoke(j)
    BY DEF Call
<1>2. stage = PROGRAM /\ stage' = stage /\ mem' = mem /\ calls' = calls + 1 /\ calls \in Nat
    BY DEF Call, MemoryInv, Segments
<1>3. JobFits(j) /\ j.op # "none"
    BY JobsFit DEF JobFits
<1>4. /\ job' = j /\ was' = mem /\ JobFits(job)' /\ Pointers' /\ Contents' /\ Compared'
    BY <1>1, <1>2, <1>3, InvokeFacts
<1>5. Segments'
    BY <1>2, <1>3, <1>4 DEF Segments, PROGRAM
<1>6. QED
    BY <1>2, <1>4, <1>5 DEF MemoryInv

\* What __reset() does between its loops, and steps that change nothing here.
LEMMA ResetKeeps ==
    MemoryInv /\ (StartClock \/ ClockStarts \/ __start \/ UNCHANGED memoryVars) => MemoryInv'
<1> SUFFICES ASSUME MemoryInv,
                    UNCHANGED <<mem, job, n, to, from, result, calls, was>>,
                    \/ stage' = stage
                    \/ stage = 3 /\ stage' = PROGRAM /\ job.op = "none"
             PROVE  MemoryInv'
    BY DEF StartClock, ClockStarts, __start, memoryVars
<1>1. Segments'
    <2>1. CASE stage' = stage
        BY <2>1 DEF MemoryInv, Segments
    <2>2. CASE stage = 3 /\ stage' = PROGRAM /\ job.op = "none"
        <3>1. Filled(3) = Filled(PROGRAM)
            BY DEF Filled, PROGRAM
        <3>2. QED
            BY <2>2, <3>1 DEF MemoryInv, Segments, PROGRAM
    <2>3. QED
        BY <2>1, <2>2
<1>2. job.op # "none" => JobFits(job)' /\ Pointers' /\ Contents' /\ Compared'
    <2>1. JobFits(job) <=> JobFits(job)'
        BY DEF JobFits
    <2>2. Pointers => Pointers'
        BY DEF Pointers
    <2>3. Contents => Contents'
        BY DEF Contents, Written
    <2>4. Compared => Compared'
        BY DEF Compared
    <2>5. QED
        BY <2>1, <2>2, <2>3, <2>4 DEF MemoryInv
<1>3. QED
    BY <1>1, <1>2 DEF MemoryInv

-----------------------------------------------------------------------------
\* The routines keep to their areas, whatever the areas and in whatever order
\* the program calls them, and begin after __reset() has filled its segments.
THEOREM MemoryInvariance == MemorySpec => []MemoryInv
<1>1. MemoryInv /\ [MemoryNext]_memoryVars => MemoryInv'
    <2>1. MemoryInv /\ Move => MemoryInv'
        BY memcpyKeeps, memsetKeeps, memmoveKeeps, memcmpKeeps DEF Move
    <2>2. QED
        BY <2>1, FinishKeeps, FillKeeps, CallKeeps, ResetKeeps DEF MemoryNext
<1>2. QED
    BY StartMemory, <1>1, PTL DEF MemorySpec

\* The program starts with its data as they were linked and bss zero, and each
\* routine of startup.c leaves in memory (and memcmp() answers) what it was
\* called for, overlapping areas of memmove() included: for every size of the
\* segments and every call.
THEOREM MemoryIsAsMeant == MemorySpec => []MemoryAsMeant
<1>1. ASSUME MemoryInv PROVE StartsFresh
    <2> SUFFICES ASSUME stage = PROGRAM, calls = 0, NEW a \in Address
                 PROVE  mem[a] = IF a \in xram_start .. bss_start - 1 THEN Initially(a - xram_start)
                                 ELSE IF a \in bss_start .. bss_end - 1 THEN 0
                                 ELSE Initially(a)
        BY DEF StartsFresh
    <2>1. mem = Filled(4)
        BY <1>1 DEF MemoryInv, Segments, PROGRAM
    <2>2. QED
        BY <2>1, SegmentFacts DEF Filled
<1>2. ASSUME MemoryInv, Ended PROVE FillsDest
    <2>1. JobFits(job) /\ Pointers /\ Contents /\ (job.op = "memcmp" \/ n = 0)
        BY <1>2 DEF MemoryInv, Ended, More, Pointers, JobFits
    <2>2. ASSUME job.op # "memcmp", NEW a \in Address
          PROVE  Written(a) <=> a \in Area(job.dest)
        <3>1. n = 0 /\ job.dest \in Nat /\ job.size \in Nat /\ job.size - n = job.size
              /\ job.dest + n = job.dest
            BY <2>1, <2>2 DEF JobFits
        <3>2. QED
            BY <3>1 DEF Written, Area
    <2>3. QED
        BY <2>1, <2>2 DEF FillsDest, Contents
<1>3. ASSUME MemoryInv, Ended, job.op = "memcmp" PROVE ComparesAreas
    <2>1. PICK d, s, z, k : d = job.dest /\ s = job.src /\ z = job.size /\ k = z - n
        OBVIOUS
    <2>2. PICK unequal : unequal = {i \in 0 .. z - 1 : mem[d + i] # mem[s + i]}
        OBVIOUS
    <2>3. /\ z \in Nat /\ n \in 0 .. z /\ k \in 0 .. z /\ Compared
          /\ n = 0 \/ result # 0
        BY <1>3, <2>1 DEF MemoryInv, Ended, More, Pointers, JobFits
    <2>4. CASE result = 0
        <3>1. \A i \in 0 .. k - 1 : mem[d + i] = mem[s + i]
            BY <1>3, <2>1, <2>3, <2>4 DEF Compared
        <3>2. unequal = {}
            BY <2>1, <2>2, <2>3, <2>4, <3>1
        <3>3. QED
            BY <2>1, <2>2, <2>4, <3>2 DEF ComparesAreas
    <2>5. CASE result # 0
        <3>1. /\ n < z
              /\ \A i \in 0 .. k - 2 : mem[d + i] = mem[s + i]
              /\ mem[d + (k - 1)] # mem[s + (k - 1)]
              /\ result = IF mem[d + (k - 1)] < mem[s + (k - 1)] THEN -1 ELSE 1
            BY <1>3, <2>1, <2>3, <2>5 DEF Compared
        <3>2. k - 1 \in unequal /\ \A i \in unequal : k - 1 <= i
            BY <2>1, <2>2, <2>3, <3>1
        <3>3. Min(unequal) = k - 1
            <4>1. unequal \subseteq Int
                BY <2>2
            <4>2. ASSUME NEW x \in unequal, \A y \in unequal : x <= y PROVE x = k - 1
                BY <2>3, <3>2, <4>1, <4>2
            <4>3. QED
                BY <3>2, <4>2 DEF Min
        <3>4. QED
            BY <2>1, <2>2, <3>1, <3>2, <3>3 DEF ComparesAreas
    <2>6. QED
        BY <2>4, <2>5
<1>4. MemoryInv => MemoryAsMeant
    BY <1>1, <1>2, <1>3 DEF MemoryAsMeant, FillsDest, ComparesAreas
<1>5. QED
    BY MemoryInvariance, <1>4, PTL

-----------------------------------------------------------------------------
(***************************************************************************)
(* Theorem of Rings: the two rings of characters implement the sequences   *)
(* of Console, for every size of the rings.                                *)
(*                                                                         *)
(* The refinement reads each sequence from its ring, Len characters from   *)
(* the pointer on, with places taken modulo the size of the ring; the      *)
(* lemmas say what storing a character and moving a pointer do to such a   *)
(* sequence.                                                               *)
(***************************************************************************)

Values == Chars \cup {Nothing, BS, CR, LF, SP}

\* The pointers delimit the characters that are counted, and these fit.
RingsInv ==
    /\ rxbuf \in [Places -> Values] /\ txbuf \in [Places -> Values]
    /\ rx_outp \in Places /\ tx_outp \in Places
    /\ n_avail \in Nat /\ n_edit \in Nat /\ n_tx \in Nat
    /\ n_avail + n_edit <= NBUF /\ n_tx <= NBUF
    /\ rx_inp = wrap(rx_outp + n_avail + n_edit)
    /\ tx_inp = wrap(tx_outp + n_tx)

-----------------------------------------------------------------------------
(* Places in a ring *)

\* wrap() is the identity below NBUF, and NBUF is taken off once from there.
LEMMA WrapFacts ==
    /\ \A x \in Places : wrap(x) = x
    /\ \A x \in Places : wrap(x + NBUF) = x
    /\ wrap(-1) = NBUF - 1
    BY RingsAssumption DEF wrap, Places

\* Where the place k places after place a is.
LEMMA WrapSum ==
    ASSUME NEW a \in Places, NEW k \in 0 .. NBUF
    PROVE  /\ wrap(a + k) = IF a + k < NBUF THEN a + k ELSE a + k - NBUF
           /\ wrap(a + k) \in Places
<1>1. CASE a + k < NBUF
    <2>1. a + k \in Places
        BY <1>1, RingsAssumption DEF Places
    <2>2. QED
        BY <1>1, <2>1, WrapFacts
<1>2. CASE ~(a + k < NBUF)
    <2>1. a + k - NBUF \in Places /\ a + k = (a + k - NBUF) + NBUF
        BY <1>2, RingsAssumption DEF Places
    <2>2. QED
        BY <1>2, <2>1, WrapFacts
<1>3. QED
    BY <1>1, <1>2

\* Going on from a place that was reached.
LEMMA WrapWrap ==
    ASSUME NEW a \in Places, NEW k \in Nat, NEW l \in Nat, k + l <= NBUF
    PROVE  wrap(wrap(a + k) + l) = wrap(a + k + l)
<1>1. PICK b : b = wrap(a + k)
    OBVIOUS
<1>2. b \in Places /\ b = IF a + k < NBUF THEN a + k ELSE a + k - NBUF
    BY <1>1, WrapSum, RingsAssumption
<1>3. wrap(b + l) = IF b + l < NBUF THEN b + l ELSE b + l - NBUF
    BY <1>2, WrapSum, RingsAssumption
<1>4. PICK m : m = k + l
    OBVIOUS
<1>5. m \in 0 .. NBUF /\ a + k + l = a + m
    BY <1>4, RingsAssumption DEF Places
<1>6. wrap(a + m) = IF a + m < NBUF THEN a + m ELSE a + m - NBUF
    BY <1>5, WrapSum
<1>7. b + l = IF a + k < NBUF THEN a + m ELSE a + m - NBUF
    BY <1>2, <1>5, RingsAssumption DEF Places
<1>8. wrap(b + l) = wrap(a + m)
    BY <1>3, <1>4, <1>5, <1>6, <1>7, <1>2, RingsAssumption DEF Places
<1>9. QED
    BY <1>1, <1>5, <1>8

\* Places at different distances of less than a turn are different.
LEMMA WrapDistinct ==
    ASSUME NEW a \in Places, NEW k \in 0 .. NBUF - 1, NEW l \in 0 .. NBUF - 1,
           wrap(a + k) = wrap(a + l)
    PROVE  k = l
    BY WrapSum, RingsAssumption DEF Places

\* The sequence of len characters from a place on.
LEMMA LiveFacts ==
    ASSUME NEW s \in [Places -> Values], NEW a \in Places, NEW k \in Nat, NEW len \in Nat,
           k + len <= NBUF
    PROVE  /\ Live(s, a + k, len) \in Seq(Values)
           /\ Len(Live(s, a + k, len)) = len
           /\ \A i \in 1 .. len : Live(s, a + k, len)[i] = s[wrap(a + k + i - 1)]
           /\ \A i \in 1 .. len : wrap(a + k + i - 1) \in Places
<1>1. ASSUME NEW i \in 1 .. len PROVE wrap(a + k + i - 1) \in Places
    <2>1. PICK m : m = k + i - 1
        OBVIOUS
    <2>2. m \in 0 .. NBUF /\ a + k + i - 1 = a + m
        BY <2>1, RingsAssumption DEF Places
    <2>3. QED
        BY <2>2, WrapSum
<1>2. Live(s, a + k, len) \in [1 .. len -> Values]
    BY <1>1 DEF Live
<1>3. QED
    BY <1>1, <1>2 DEF Live

\* The same, from the place itself on.
LEMMA LiveFirst ==
    ASSUME NEW s \in [Places -> Values], NEW a \in Places, NEW len \in 0 .. NBUF
    PROVE  /\ Live(s, a, len) \in Seq(Values)
           /\ Len(Live(s, a, len)) = len
           /\ \A i \in 1 .. len : Live(s, a, len)[i] = s[wrap(a + i - 1)]
           /\ \A i \in 1 .. len : wrap(a + i - 1) \in Places
<1>1. a + 0 = a /\ len \in Nat /\ 0 + len <= NBUF /\ 0 \in Nat
    BY RingsAssumption DEF Places
<1>2. \A i \in 1 .. len : a + 0 + i - 1 = a + i - 1
    BY DEF Places
<1>3. QED
    BY <1>1, <1>2, LiveFacts

\* Two sequences in a ring are equal if they are so place by place.
LEMMA LiveEqual ==
    ASSUME NEW s, NEW t, NEW a, NEW b, NEW len,
           \A i \in 1 .. len : s[wrap(a + i - 1)] = t[wrap(b + i - 1)]
    PROVE  Live(s, a, len) = Live(t, b, len)
    BY DEF Live

-----------------------------------------------------------------------------
(* Output *)

\* What is queued for output is queued after what waits, as far as it fits.
LEMMA OutputFacts ==
    ASSUME RingsInv, NEW chars \in Seq(Values), Output(chars)
    PROVE  /\ txbuf' \in [Places -> Values] /\ tx_outp' \in Places
           /\ n_tx' \in Nat /\ n_tx' <= NBUF
           /\ tx_inp' = wrap(tx_outp' + n_tx')
           /\ Live(txbuf', tx_outp', n_tx') =
                  Live(txbuf, tx_outp, n_tx)
                      \o SubSeq(chars, 1, IF Len(chars) <= NBUF - n_tx THEN Len(chars)
                                          ELSE NBUF - n_tx)
<1>1. PICK k, a, len : k = Fitting(chars) /\ a = tx_outp /\ len = n_tx
    OBVIOUS
<1>2. /\ k \in Nat /\ k <= Len(chars) /\ Len(chars) \in Nat /\ len + k <= NBUF
      /\ len \in Nat /\ a \in Places
      /\ k = IF Len(chars) <= NBUF - n_tx THEN Len(chars) ELSE NBUF - n_tx
    <2>1. Len(chars) \in Nat /\ n_tx \in Nat /\ n_tx <= NBUF /\ tx_outp \in Places
        BY LenProperties DEF RingsInv
    <2>2. QED
        BY <1>1, <2>1, RingsAssumption DEF Fitting
<1>3. /\ tx_inp = wrap(a + len) /\ tx_inp' = wrap(tx_inp + k) /\ n_tx' = len + k /\ tx_outp' = a
      /\ txbuf' = [i \in Places |->
                      IF \E j \in 1 .. k : i = wrap(tx_inp + j - 1)
                      THEN chars[CHOOSE j \in 1 .. k : i = wrap(tx_inp + j - 1)]
                      ELSE txbuf[i]]
    BY <1>1 DEF Output, RingsInv
<1>4. tx_inp' = wrap(a + (len + k))
    <2>1. wrap(wrap(a + len) + k) = wrap(a + len + k)
        BY <1>2, WrapWrap
    <2>2. a + len + k = a + (len + k)
        BY <1>2 DEF Places
    <2>3. QED
        BY <1>3, <2>1, <2>2
<1>5. \A j \in 1 .. k : wrap(tx_inp + j - 1) = wrap(a + (len + j - 1)) /\ len + j - 1 \in 0 .. NBUF - 1
    <2> SUFFICES ASSUME NEW j \in 1 .. k
                 PROVE  /\ wrap(tx_inp + j - 1) = wrap(a + (len + j - 1))
                        /\ len + j - 1 \in 0 .. NBUF - 1
        OBVIOUS
    <2>1. PICK l : l = j - 1
        OBVIOUS
    <2>2. l \in Nat /\ len + l <= NBUF /\ len + j - 1 \in 0 .. NBUF - 1 /\ a + len + l = a + (len + j - 1)
        BY <1>2, <2>1, RingsAssumption DEF Places
    <2>3. wrap(wrap(a + len) + l) = wrap(a + len + l)
        BY <1>2, <2>2, WrapWrap
    <2>4. wrap(a + len) \in Int
        BY <1>2, WrapSum, RingsAssumption DEF Places
    <2>5. tx_inp + j - 1 = wrap(a + len) + l
        BY <1>3, <2>1, <2>4
    <2>6. QED
        BY <2>2, <2>3, <2>5
<1>6. \A i \in 1 .. len : txbuf'[wrap(a + i - 1)] = txbuf[wrap(a + i - 1)]
    <2> SUFFICES ASSUME NEW i \in 1 .. len PROVE txbuf'[wrap(a + i - 1)] = txbuf[wrap(a + i - 1)]
        OBVIOUS
    <2>1. PICK m, w : m = i - 1 /\ w = wrap(a + m)
        OBVIOUS
    <2>2. m \in 0 .. NBUF - 1 /\ m \in 0 .. NBUF /\ a + i - 1 = a + m /\ m < len
        BY <1>2, <2>1, RingsAssumption DEF Places
    <2>3. w \in Places
        BY <1>2, <2>1, <2>2, WrapSum
    <2>4. ASSUME NEW j \in 1 .. k, w = wrap(tx_inp + j - 1) PROVE FALSE
        <3>1. PICK l : l = len + j - 1
            OBVIOUS
        <3>2. l \in 0 .. NBUF - 1 /\ wrap(a + m) = wrap(a + l)
            BY <1>5, <2>1, <2>4, <3>1
        <3>3. m = l
            BY <1>2, <2>2, <3>2, WrapDistinct
        <3>4. QED
            BY <1>2, <2>2, <3>1, <3>3
    <2>5. txbuf'[w] = txbuf[w]
        BY <1>3, <2>3, <2>4
    <2>6. QED
        BY <2>1, <2>2, <2>5
<1>7. \A j \in 1 .. k : txbuf'[wrap(a + (len + j - 1))] = chars[j]
    <2> SUFFICES ASSUME NEW j \in 1 .. k PROVE txbuf'[wrap(a + (len + j - 1))] = chars[j]
        OBVIOUS
    <2>1. PICK w : w = wrap(a + (len + j - 1))
        OBVIOUS
    <2>2. len + j - 1 \in 0 .. NBUF /\ w = wrap(tx_inp + j - 1)
        <3>1. len + j - 1 \in 0 .. NBUF - 1 /\ wrap(tx_inp + j - 1) = wrap(a + (len + j - 1))
            BY <1>5
        <3>2. QED
            BY <2>1, <3>1, RingsAssumption
    <2>3. w \in Places
        BY <1>2, <2>1, <2>2, WrapSum
    <2>4. PICK h : h = CHOOSE g \in 1 .. k : w = wrap(tx_inp + g - 1)
        OBVIOUS
    <2>5. h \in 1 .. k /\ w = wrap(tx_inp + h - 1)
        BY <2>2, <2>4
    <2>6. txbuf'[w] = chars[h]
        BY <1>3, <2>2, <2>3, <2>4
    <2>7. h = j
        <3>1. PICK l, m : l = len + h - 1 /\ m = len + j - 1
            OBVIOUS
        <3>2. l \in 0 .. NBUF - 1 /\ m \in 0 .. NBUF - 1 /\ wrap(a + l) = wrap(a + m)
            BY <1>5, <2>1, <2>5, <3>1
        <3>3. l = m
            BY <1>2, <3>2, WrapDistinct
        <3>4. QED
            BY <1>2, <2>5, <3>1, <3>3
    <2>8. QED
        BY <2>1, <2>6, <2>7
<1>8. txbuf' \in [Places -> Values]
    <2>1. ASSUME NEW i \in Places, NEW j \in 1 .. k, i = wrap(tx_inp + j - 1)
          PROVE  txbuf'[i] \in Values
        <3>1. txbuf'[i] = chars[j]
            BY <1>5, <1>7, <2>1
        <3>2. j \in 1 .. Len(chars)
            BY <1>2
        <3>3. QED
            BY <3>1, <3>2, ElementOfSeq
    <2>2. ASSUME NEW i \in Places, ~ \E j \in 1 .. k : i = wrap(tx_inp + j - 1)
          PROVE  txbuf'[i] \in Values
        BY <1>3, <2>2 DEF RingsInv
    <2>3. \A i \in Places : txbuf'[i] \in Values
        BY <2>1, <2>2
    <2>4. QED
        BY <1>3, <2>3
<1>9. Live(txbuf', a, len + k) = Live(txbuf, a, len) \o SubSeq(chars, 1, k)
    <2>1. PICK s, t, u : s = Live(txbuf, a, len) /\ t = SubSeq(chars, 1, k) /\ u = Live(txbuf', a, len + k)
        OBVIOUS
    <2>2. s \in Seq(Values) /\ Len(s) = len /\ \A i \in 1 .. len : s[i] = txbuf[wrap(a + i - 1)]
        <3>1. len \in 0 .. NBUF /\ txbuf \in [Places -> Values]
            BY <1>2, RingsAssumption DEF RingsInv
        <3>2. QED
            BY <1>2, <2>1, <3>1, LiveFirst
    <2>3. t \in Seq(Values) /\ Len(t) = k /\ \A j \in 1 .. k : t[j] = chars[j]
        BY <1>2, <2>1
    <2>4. /\ u \in Seq(Values) /\ Len(u) = len + k
          /\ \A i \in 1 .. len + k : u[i] = txbuf'[wrap(a + i - 1)]
        <3>1. len + k \in 0 .. NBUF
            BY <1>2, RingsAssumption
        <3>2. QED
            BY <1>2, <1>8, <2>1, <3>1, LiveFirst
    <2>5. ASSUME NEW i \in 1 .. len + k PROVE u[i] = (s \o t)[i]
        <3>1. CASE i <= len
            <4>1. i \in 1 .. len
                BY <1>2, <3>1
            <4>2. u[i] = s[i]
                BY <1>6, <2>2, <2>4, <4>1
            <4>3. (s \o t)[i] = s[i]
                BY <1>2, <2>2, <2>3, <3>1, ConcatProperties
            <4>4. QED
                BY <4>2, <4>3
        <3>2. CASE i > len
            <4>1. PICK j : j = i - len
                OBVIOUS
            <4>2. j \in 1 .. k /\ a + i - 1 = a + (len + j - 1) /\ i \in 1 .. len + k /\ i = len + j
                BY <1>2, <3>2, <4>1 DEF Places
            <4>3. u[i] = chars[j]
                BY <1>7, <2>4, <4>2
            <4>4. (s \o t)[i] = t[j]
                BY <1>2, <2>2, <2>3, <3>2, <4>1, ConcatProperties
            <4>5. QED
                BY <2>3, <4>2, <4>3, <4>4
        <3>3. i <= len \/ i > len
            BY <1>2
        <3>4. QED
            BY <3>1, <3>2, <3>3, Zenon
    <2>6. s \o t \in Seq(Values) /\ Len(s \o t) = len + k
        <3>1. s \o t \in Seq(Values) /\ Len(s \o t) = Len(s) + Len(t)
            BY <2>2, <2>3, ConcatProperties, Zenon
        <3>2. QED
            BY <2>2, <2>3, <3>1
    <2>7. u = s \o t
        BY <2>4, <2>5, <2>6, SeqEqual
    <2>8. QED
        BY <2>1, <2>7
<1>10. /\ tx_outp' \in Places /\ n_tx' \in Nat /\ n_tx' <= NBUF
       /\ tx_inp' = wrap(tx_outp' + n_tx')
    BY <1>2, <1>3, <1>4
<1>11. Live(txbuf', tx_outp', n_tx') = Live(txbuf, tx_outp, n_tx) \o SubSeq(chars, 1, k)
    BY <1>1, <1>3, <1>9
<1>12. QED
    BY <1>2, <1>8, <1>10, <1>11

-----------------------------------------------------------------------------
(* The sequences of Console *)

Avail == Live(rxbuf, rx_outp, n_avail)
Edit == Live(rxbuf, rx_outp + n_avail, n_edit)
Out == Live(txbuf, tx_outp, n_tx)

LEMMA SequenceFacts ==
    ASSUME RingsInv
    PROVE  /\ Avail \in Seq(Values) /\ Len(Avail) = n_avail
           /\ Edit \in Seq(Values) /\ Len(Edit) = n_edit
           /\ Out \in Seq(Values) /\ Len(Out) = n_tx
<1>1. /\ rxbuf \in [Places -> Values] /\ txbuf \in [Places -> Values]
      /\ rx_outp \in Places /\ tx_outp \in Places
      /\ n_avail \in 0 .. NBUF /\ n_tx \in 0 .. NBUF /\ n_avail \in Nat /\ n_edit \in Nat
      /\ n_avail + n_edit <= NBUF
    BY RingsAssumption DEF RingsInv
<1>2. QED
    BY <1>1, LiveFirst, LiveFacts DEF Avail, Edit, Out

\* The echo is that of Console.
LEMMA EchoFacts ==
    ASSUME RingsInv, NEW chars \in Seq(Values), Output(chars)
    PROVE  TheConsole!Echo(chars)
<1>1. Len(Out) = n_tx
    BY SequenceFacts
<1>2. Out' = Out \o SubSeq(chars, 1, IF Len(chars) <= NBUF - Len(Out) THEN Len(chars)
                                     ELSE NBUF - Len(Out))
    BY <1>1, OutputFacts DEF Out
<1>3. QED
    BY <1>2 DEF TheConsole!Echo, Out

\* One character is put behind those in the input ring, and none of them moves.
LEMMA StoreFacts ==
    ASSUME RingsInv, NEW ch \in Values, Store(ch), n_avail + n_edit < NBUF
    PROVE  /\ rxbuf' \in [Places -> Values] /\ rx_outp' = rx_outp
           /\ rx_inp' = wrap(rx_outp + (n_avail + n_edit + 1))
           /\ \A m \in 0 .. n_avail + n_edit - 1 :
                 rxbuf'[wrap(rx_outp + m)] = rxbuf[wrap(rx_outp + m)]
           /\ rxbuf'[wrap(rx_outp + (n_avail + n_edit))] = ch
<1>1. PICK a, len : a = rx_outp /\ len = n_avail + n_edit
    OBVIOUS
<1>2. a \in Places /\ len \in 0 .. NBUF - 1 /\ len \in 0 .. NBUF /\ len \in Nat
    BY <1>1, RingsAssumption DEF RingsInv
<1>3. rx_inp = wrap(a + len)
    <2>1. rx_outp + n_avail + n_edit = a + len
        BY <1>1 DEF RingsInv, Places
    <2>2. QED
        BY <2>1 DEF RingsInv
<1>4. rx_inp \in Places
    BY <1>2, <1>3, WrapSum
<1>5. rxbuf' = [rxbuf EXCEPT ![rx_inp] = ch] /\ rx_outp' = rx_outp /\ rx_inp' = wrap(rx_inp + 1)
    BY DEF Store
<1>6. rxbuf \in [Places -> Values]
    BY DEF RingsInv
<1>7. rxbuf'[rx_inp] = ch /\ \A i \in Places \ {rx_inp} : rxbuf'[i] = rxbuf[i]
    BY <1>4, <1>5, <1>6
<1>8. rxbuf' \in [Places -> Values]
    BY <1>4, <1>5, <1>6
<1>9. rx_inp' = wrap(a + (len + 1))
    <2>1. wrap(wrap(a + len) + 1) = wrap(a + len + 1)
        <3>1. len \in Nat /\ 1 \in Nat /\ len + 1 <= NBUF
            BY <1>2, RingsAssumption
        <3>2. QED
            BY <1>2, <3>1, WrapWrap
    <2>2. a + len + 1 = a + (len + 1)
        BY <1>2 DEF Places
    <2>3. QED
        BY <1>3, <1>5, <2>1, <2>2
<1>10. ASSUME NEW m \in 0 .. len - 1
       PROVE  rxbuf'[wrap(a + m)] = rxbuf[wrap(a + m)]
    <2>1. m \in 0 .. NBUF - 1 /\ m \in 0 .. NBUF /\ m # len
        BY <1>2, RingsAssumption
    <2>2. wrap(a + m) \in Places /\ wrap(a + m) # wrap(a + len)
        BY <1>2, <2>1, WrapSum, WrapDistinct
    <2>3. QED
        BY <1>3, <1>7, <2>2
<1>11. rxbuf'[wrap(a + len)] = ch
    BY <1>3, <1>7
<1>12. rx_inp' = wrap(rx_outp + (n_avail + n_edit + 1))
    BY <1>1, <1>9, Zenon
<1>13. rxbuf'[wrap(rx_outp + (n_avail + n_edit))] = ch
    BY <1>1, <1>11, Zenon
<1>14. \A m \in 0 .. n_avail + n_edit - 1 :
           rxbuf'[wrap(rx_outp + m)] = rxbuf[wrap(rx_outp + m)]
    <2>1. \A m \in 0 .. len - 1 : rxbuf'[wrap(a + m)] = rxbuf[wrap(a + m)]
        BY <1>10
    <2>2. len - 1 = n_avail + n_edit - 1 /\ a = rx_outp
        BY <1>1 DEF RingsInv
    <2>3. QED
        BY <2>1, <2>2
<1>15. QED
    BY <1>5, <1>8, <1>12, <1>13, <1>14

\* What a key adds to the input ring goes behind the line that is being edited.
LEMMA StoredSequences ==
    ASSUME RingsInv, NEW ch \in Values, Store(ch), n_avail + n_edit < NBUF
    PROVE  /\ Live(rxbuf', rx_outp', n_avail) = Avail
           /\ Live(rxbuf', rx_outp' + n_avail, n_edit + 1) = Append(Edit, ch)
<1>1. PICK a, v, e : a = rx_outp /\ v = n_avail /\ e = n_edit
    OBVIOUS
<1>2. /\ a \in Places /\ v \in Nat /\ e \in Nat /\ v + e < NBUF
      /\ NBUF \in Nat /\ rxbuf \in [Places -> Values]
    BY <1>1, RingsAssumption DEF RingsInv
<1>3. /\ rxbuf' \in [Places -> Values] /\ rx_outp' = a
      /\ \A m \in 0 .. v + e - 1 : rxbuf'[wrap(a + m)] = rxbuf[wrap(a + m)]
      /\ rxbuf'[wrap(a + (v + e))] = ch
    BY <1>1, StoreFacts
<1>4. Live(rxbuf', a, v) = Live(rxbuf, a, v)
    <2>1. ASSUME NEW i \in 1 .. v PROVE rxbuf'[wrap(a + i - 1)] = rxbuf[wrap(a + i - 1)]
        <3>1. PICK m : m = i - 1
            OBVIOUS
        <3>2. m \in 0 .. v + e - 1 /\ a + i - 1 = a + m
            BY <1>2, <3>1 DEF Places
        <3>3. QED
            BY <1>3, <3>2
    <2>2. QED
        BY <2>1, LiveEqual
<1>5. Live(rxbuf', a + v, e + 1) = Append(Live(rxbuf, a + v, e), ch)
    <2>1. PICK s, t : s = Live(rxbuf, a + v, e) /\ t = Live(rxbuf', a + v, e + 1)
        OBVIOUS
    <2>2. /\ s \in Seq(Values) /\ Len(s) = e
          /\ \A i \in 1 .. e : s[i] = rxbuf[wrap(a + v + i - 1)]
        <3>1. v + e <= NBUF
            BY <1>2
        <3>2. QED
            BY <1>2, <2>1, <3>1, LiveFacts
    <2>3. /\ t \in Seq(Values) /\ Len(t) = e + 1
          /\ \A i \in 1 .. e + 1 : t[i] = rxbuf'[wrap(a + v + i - 1)]
        <3>1. e + 1 \in Nat /\ v + (e + 1) <= NBUF
            BY <1>2
        <3>2. PICK f : f = e + 1
            OBVIOUS
        <3>3. /\ t \in Seq(Values) /\ Len(t) = f
              /\ \A i \in 1 .. f : t[i] = rxbuf'[wrap(a + v + i - 1)]
            <4>1. t = Live(rxbuf', a + v, f)
                BY <2>1, <3>2, Zenon
            <4>2. f \in Nat /\ v + f <= NBUF
                BY <3>1, <3>2
            <4>3. PICK b : b = rxbuf'
                OBVIOUS
            <4>4. QED
                BY <1>2, <1>3, <4>1, <4>2, <4>3, LiveFacts
        <3>4. QED
            BY <3>2, <3>3
    <2>4. /\ Append(s, ch) \in Seq(Values) /\ Len(Append(s, ch)) = e + 1
          /\ \A i \in 1 .. e : Append(s, ch)[i] = s[i]
          /\ Append(s, ch)[e + 1] = ch
        BY <2>2, AppendProperties
    <2>5. ASSUME NEW i \in 1 .. e + 1 PROVE t[i] = Append(s, ch)[i]
        <3>1. CASE i = e + 1
            <4>1. a + v + i - 1 = a + (v + e)
                BY <1>2, <3>1 DEF Places
            <4>2. QED
                BY <1>3, <2>3, <2>4, <3>1, <4>1
        <3>2. CASE i # e + 1
            <4>1. PICK m : m = v + i - 1
                OBVIOUS
            <4>2. i \in 1 .. e /\ a + v + i - 1 = a + m /\ m \in 0 .. v + e - 1
                BY <1>2, <3>2, <4>1 DEF Places
            <4>3. t[i] = rxbuf[wrap(a + m)]
                BY <1>3, <2>3, <4>2
            <4>4. QED
                BY <2>2, <2>4, <4>2, <4>3
        <3>3. QED
            BY <3>1, <3>2
    <2>6. t = Append(s, ch)
        BY <2>3, <2>4, <2>5, SeqEqual
    <2>7. QED
        BY <2>1, <2>6
<1>6. QED
    BY <1>1, <1>3, <1>4, <1>5 DEF Avail, Edit

-----------------------------------------------------------------------------
(* The steps *)

LEMMA CharacterFacts ==
    ASSUME RingsInv, NEW ch \in Chars, Character(ch)
    PROVE  RingsInv' /\ TheConsole!Type(ch)
<1>1. /\ n_avail \in Nat /\ n_edit \in Nat /\ n_avail + n_edit < NBUF
      /\ n_avail' = n_avail /\ n_edit' = n_edit + 1 /\ Store(ch) /\ Output(<<ch>>)
      /\ ch \in Values /\ <<ch>> \in Seq(Values)
    BY RingsAssumption DEF RingsInv, Character, Full, Values
<1>2. RingsInv'
    <2>1. rx_inp' = wrap(rx_outp' + n_avail' + n_edit')
        <3>1. rx_inp' = wrap(rx_outp + (n_avail + n_edit + 1)) /\ rx_outp' = rx_outp
            BY <1>1, StoreFacts
        <3>2. rx_outp + (n_avail + n_edit + 1) = rx_outp + n_avail + (n_edit + 1)
            BY <1>1 DEF RingsInv, Places
        <3>3. QED
            BY <1>1, <3>1, <3>2
    <2>2. rxbuf' \in [Places -> Values] /\ rx_outp' \in Places
        BY <1>1, StoreFacts DEF RingsInv
    <2>3. n_avail' \in Nat /\ n_edit' \in Nat /\ n_avail' + n_edit' <= NBUF
        BY <1>1, RingsAssumption
    <2>4. QED
        BY <1>1, <2>1, <2>2, <2>3, OutputFacts DEF RingsInv
<1>3. Avail' = Avail /\ Edit' = Append(Edit, ch)
    BY <1>1, StoredSequences DEF Avail, Edit
<1>4. Len(Avail) + Len(Edit) < NBUF
    BY <1>1, SequenceFacts
<1>5. TheConsole!Echo(<<ch>>)
    BY <1>1, EchoFacts
<1>6. QED
    BY <1>2, <1>3, <1>4, <1>5 DEF TheConsole!Type, TheConsole!Room, Avail, Edit

\* The places from a on followed by those from a + v on.
LEMMA LiveConcat ==
    ASSUME NEW s \in [Places -> Values], NEW a \in Places, NEW v \in Nat, NEW f \in Nat,
           v + f <= NBUF
    PROVE  Live(s, a, v + f) = Live(s, a, v) \o Live(s, a + v, f)
<1>1. PICK x, y, z, len : /\ x = Live(s, a, v) /\ y = Live(s, a + v, f) /\ len = v + f
                        /\ z = Live(s, a, len)
    OBVIOUS
<1>2. len \in 0 .. NBUF /\ v \in 0 .. NBUF /\ len \in Nat
    BY <1>1, RingsAssumption
<1>3. /\ x \in Seq(Values) /\ Len(x) = v
      /\ \A i \in 1 .. v : x[i] = s[wrap(a + i - 1)]
    BY <1>1, <1>2, LiveFirst
<1>4. /\ y \in Seq(Values) /\ Len(y) = f
      /\ \A i \in 1 .. f : y[i] = s[wrap(a + v + i - 1)]
    BY <1>1, LiveFacts
<1>5. /\ z \in Seq(Values) /\ Len(z) = len
      /\ \A i \in 1 .. len : z[i] = s[wrap(a + i - 1)]
    BY <1>1, <1>2, LiveFirst
<1>6. /\ x \o y \in Seq(Values) /\ Len(x \o y) = len
      /\ \A i \in 1 .. len : (x \o y)[i] = IF i <= v THEN x[i] ELSE y[i - v]
    BY <1>1, <1>3, <1>4, ConcatProperties
<1>7. ASSUME NEW i \in 1 .. len PROVE z[i] = (x \o y)[i]
    <2>1. CASE i <= v
        <3>1. i \in 1 .. v
            BY <2>1
        <3>2. QED
            BY <1>3, <1>5, <1>6, <2>1, <3>1
    <2>2. CASE ~(i <= v)
        <3>1. PICK j : j = i - v
            OBVIOUS
        <3>2. j \in 1 .. f /\ a + i - 1 = a + v + j - 1
            BY <1>1, <2>2, <3>1 DEF Places
        <3>3. y[j] = s[wrap(a + v + j - 1)]
            BY <1>4, <3>2
        <3>4. QED
            BY <1>5, <1>6, <2>2, <3>1, <3>2, <3>3
    <2>3. QED
        BY <2>1, <2>2
<1>8. z = x \o y
    BY <1>5, <1>6, <1>7, SeqEqual
<1>9. QED
    BY <1>1, <1>8, Zenon

LEMMA LiveEmpty == ASSUME NEW s, NEW a PROVE Live(s, a, 0) = <<>>
    BY DEF Live

\* Without the last, or without the first.
LEMMA LiveFront ==
    ASSUME NEW s \in [Places -> Values], NEW a \in Places, NEW v \in Nat, NEW e \in Nat,
           e > 0, v + e <= NBUF
    PROVE  Live(s, a + v, e - 1) = SubSeq(Live(s, a + v, e), 1, e - 1)
<1>1. PICK x, y, f : f = e - 1 /\ x = Live(s, a + v, e) /\ y = Live(s, a + v, f)
    OBVIOUS
<1>2. e \in Nat /\ f \in Nat /\ v + f <= NBUF /\ f < e /\ \A i \in 1 .. f : i \in 1 .. e
    BY <1>1, RingsAssumption
<1>3. /\ x \in Seq(Values) /\ Len(x) = e
      /\ \A i \in 1 .. e : x[i] = s[wrap(a + v + i - 1)]
    BY <1>1, <1>2, LiveFacts
<1>4. /\ y \in Seq(Values) /\ Len(y) = f
      /\ \A i \in 1 .. f : y[i] = s[wrap(a + v + i - 1)]
    <2>1. f \in Nat /\ v + f <= NBUF
        BY <1>2
    <2>2. /\ Live(s, a + v, f) \in Seq(Values) /\ Len(Live(s, a + v, f)) = f
          /\ \A i \in 1 .. f : Live(s, a + v, f)[i] = s[wrap(a + v + i - 1)]
        BY <2>1, LiveFacts
    <2>3. QED
        BY <1>1, <2>2, Zenon
<1>5. /\ SubSeq(x, 1, f) \in Seq(Values) /\ Len(SubSeq(x, 1, f)) = f
      /\ \A i \in 1 .. f : SubSeq(x, 1, f)[i] = x[i]
    BY <1>2, <1>3
<1>6. y = SubSeq(x, 1, f)
    <2>1. \A i \in 1 .. f : y[i] = SubSeq(x, 1, f)[i]
        BY <1>2, <1>3, <1>4, <1>5
    <2>2. QED
        BY <1>4, <1>5, <2>1, SeqEqual
<1>7. QED
    BY <1>1, <1>6, Zenon

LEMMA LiveTail ==
    ASSUME NEW s \in [Places -> Values], NEW a \in Places, NEW len \in 1 .. NBUF
    PROVE  /\ wrap(a + 1) \in Places
           /\ Live(s, a, len) # <<>>
           /\ Live(s, wrap(a + 1), len - 1) = Tail(Live(s, a, len))
<1>1. PICK x, y, f, b : /\ f = len - 1 /\ b = wrap(a + 1)
                        /\ x = Live(s, a, len) /\ y = Live(s, b, f)
    OBVIOUS
<1>2. f \in Nat /\ f \in 0 .. NBUF /\ len \in 0 .. NBUF /\ len \in Nat \ {0} /\ 1 \in 0 .. NBUF
    BY <1>1, RingsAssumption
<1>3. b \in Places
    BY <1>1, <1>2, WrapSum
<1>4. /\ x \in Seq(Values) /\ Len(x) = len
      /\ \A i \in 1 .. len : x[i] = s[wrap(a + i - 1)]
    <2>1. /\ Live(s, a, len) \in Seq(Values) /\ Len(Live(s, a, len)) = len
          /\ \A i \in 1 .. len : Live(s, a, len)[i] = s[wrap(a + i - 1)]
        BY <1>2, LiveFirst
    <2>2. QED
        BY <1>1, <2>1, Zenon
<1>5. /\ y \in Seq(Values) /\ Len(y) = f
      /\ \A i \in 1 .. f : y[i] = s[wrap(b + i - 1)]
    <2>1. /\ Live(s, b, f) \in Seq(Values) /\ Len(Live(s, b, f)) = f
          /\ \A i \in 1 .. f : Live(s, b, f)[i] = s[wrap(b + i - 1)]
        BY <1>2, <1>3, LiveFirst
    <2>2. QED
        BY <1>1, <2>1, Zenon
<1>6. x # <<>>
    BY <1>2, <1>4
<1>7. /\ Tail(x) \in Seq(Values) /\ Len(Tail(x)) = f
      /\ \A i \in 1 .. f : Tail(x)[i] = x[i + 1]
    BY <1>1, <1>2, <1>4, <1>6, HeadTailProperties
<1>8. ASSUME NEW i \in 1 .. f PROVE y[i] = Tail(x)[i]
    <2>1. PICK l : l = i - 1
        OBVIOUS
    <2>2. /\ l \in Nat /\ 1 + l <= NBUF /\ b + i - 1 = b + l
          /\ a + 1 + l = a + (i + 1) - 1 /\ i + 1 \in 1 .. len
        BY <1>1, <1>2, <1>3, <2>1, RingsAssumption DEF Places
    <2>3. wrap(b + l) = wrap(a + 1 + l)
        BY <1>1, <2>2, WrapWrap
    <2>4. y[i] = s[wrap(a + (i + 1) - 1)]
        BY <1>5, <2>2, <2>3
    <2>5. x[i + 1] = s[wrap(a + (i + 1) - 1)]
        BY <1>4, <2>2
    <2>6. QED
        BY <1>7, <2>4, <2>5
<1>9. y = Tail(x)
    BY <1>5, <1>7, <1>8, SeqEqual
<1>10. QED
    BY <1>1, <1>3, <1>6, <1>9, Zenon

\* One place back.
LEMMA WrapBack ==
    ASSUME NEW a \in Places, NEW m \in 1 .. NBUF
    PROVE  wrap(wrap(a + m) - 1) = wrap(a + (m - 1))
<1>1. PICK b, l : b = wrap(a + m) /\ l = m - 1
    OBVIOUS
<1>2. /\ b \in Places /\ b = IF a + m < NBUF THEN a + m ELSE a + m - NBUF
      /\ l \in 0 .. NBUF /\ a + l = a + m - 1
    BY <1>1, WrapSum, RingsAssumption DEF Places
<1>3. wrap(a + l) = IF a + l < NBUF THEN a + l ELSE a + l - NBUF
    BY <1>2, WrapSum
<1>4. CASE b = 0
    <2>1. a + l = NBUF - 1
        BY <1>2, <1>4, RingsAssumption DEF Places
    <2>2. b - 1 = -1
        BY <1>4
    <2>3. QED
        BY <1>1, <1>3, <2>1, <2>2, WrapFacts, RingsAssumption
<1>5. CASE b # 0
    <2>1. b - 1 \in Places /\ b - 1 = IF a + m < NBUF THEN a + l ELSE a + l - NBUF
        BY <1>1, <1>2, <1>5, RingsAssumption DEF Places
    <2>2. wrap(b - 1) = b - 1
        BY <2>1, WrapFacts
    <2>3. b - 1 = wrap(a + l)
        BY <1>1, <1>2, <1>3, <1>5, <2>1, RingsAssumption DEF Places
    <2>4. QED
        BY <1>1, <2>2, <2>3
<1>6. QED
    BY <1>4, <1>5

LEMMA NewlineFacts == ASSUME RingsInv, Newline PROVE RingsInv' /\ TheConsole!Enter
<1>1. PICK len : len = n_edit + 1
    OBVIOUS
<1>2. /\ n_avail \in Nat /\ n_edit \in Nat /\ n_avail + n_edit < NBUF /\ len \in Nat
      /\ n_avail + len <= NBUF /\ rx_outp \in Places
      /\ n_avail' = n_avail + len /\ n_edit' = 0 /\ Store(LF) /\ Output(<<CR, LF>>)
      /\ LF \in Values /\ <<CR, LF>> \in Seq(Values)
    BY <1>1, RingsAssumption DEF RingsInv, Newline, Full, Values
<1>3. /\ rxbuf' \in [Places -> Values] /\ rx_outp' = rx_outp
      /\ rx_inp' = wrap(rx_outp + (n_avail + n_edit + 1))
    BY <1>2, StoreFacts
<1>4. RingsInv'
    <2>1. rx_outp + (n_avail + n_edit + 1) = rx_outp' + n_avail' + n_edit'
        BY <1>1, <1>2, <1>3 DEF Places
    <2>2. rx_inp' = wrap(rx_outp' + n_avail' + n_edit')
        BY <1>3, <2>1
    <2>3. n_avail' \in Nat /\ n_edit' \in Nat /\ n_avail' + n_edit' <= NBUF /\ rx_outp' \in Places
        BY <1>2, <1>3
    <2>4. QED
        BY <1>2, <1>3, <2>2, <2>3, OutputFacts DEF RingsInv
<1>5. Avail' = Avail \o Append(Edit, LF)
    <2>1. /\ Live(rxbuf', rx_outp, n_avail) = Avail
          /\ Live(rxbuf', rx_outp + n_avail, len) = Append(Edit, LF)
        BY <1>1, <1>2, <1>3, StoredSequences
    <2>2. Live(rxbuf', rx_outp, n_avail + len) =
              Live(rxbuf', rx_outp, n_avail) \o Live(rxbuf', rx_outp + n_avail, len)
        BY <1>2, <1>3, LiveConcat
    <2>3. Avail' = Live(rxbuf', rx_outp, n_avail + len)
        BY <1>2, <1>3 DEF Avail
    <2>4. QED
        BY <2>1, <2>2, <2>3
<1>6. Edit' = <<>>
    BY <1>2, LiveEmpty DEF Edit
<1>7. Len(Avail) + Len(Edit) < NBUF
    BY <1>2, SequenceFacts
<1>8. TheConsole!Echo(<<CR, LF>>)
    BY <1>2, EchoFacts
<1>9. QED
    BY <1>4, <1>5, <1>6, <1>7, <1>8
       DEF TheConsole!Enter, TheConsole!Room, TheConsole!CR, TheConsole!LF, CR, LF, Avail, Edit

LEMMA RuboutFacts == ASSUME RingsInv, Rubout PROVE RingsInv' /\ TheConsole!Erase
<1>1. PICK a, m : a = rx_outp /\ m = n_avail + n_edit
    OBVIOUS
<1>2. /\ n_avail \in Nat /\ n_edit \in Nat \ {0} /\ n_avail + n_edit <= NBUF
      /\ m \in 1 .. NBUF /\ a \in Places /\ rxbuf \in [Places -> Values]
      /\ n_edit' = n_edit - 1 /\ rx_inp' = wrap(rx_inp - 1) /\ Output(<<BS, SP, BS>>)
      /\ UNCHANGED <<rxbuf, rx_outp, n_avail>>
      /\ <<BS, SP, BS>> \in Seq(Values)
    BY <1>1, RingsAssumption DEF RingsInv, Rubout, Values
<1>3. RingsInv'
    <2>1. rx_inp = wrap(a + m)
        <3>1. rx_outp + n_avail + n_edit = a + m
            BY <1>1, <1>2 DEF Places
        <3>2. QED
            BY <3>1 DEF RingsInv
    <2>2. rx_inp' = wrap(a + (m - 1))
        BY <1>2, <2>1, WrapBack
    <2>3. a + (m - 1) = rx_outp' + n_avail' + n_edit'
        BY <1>1, <1>2 DEF Places
    <2>4. rx_inp' = wrap(rx_outp' + n_avail' + n_edit')
        BY <2>2, <2>3
    <2>5. /\ n_avail' \in Nat /\ n_edit' \in Nat /\ n_avail' + n_edit' <= NBUF
          /\ rx_outp' \in Places /\ rxbuf' \in [Places -> Values]
        BY <1>1, <1>2, RingsAssumption
    <2>6. QED
        BY <1>2, <2>4, <2>5, OutputFacts DEF RingsInv
<1>4. Len(Edit) = n_edit /\ Edit # <<>>
    <2>1. Edit \in Seq(Values) /\ Len(Edit) = n_edit
        BY SequenceFacts
    <2>2. QED
        BY <1>2, <2>1
<1>5. Edit' = SubSeq(Edit, 1, Len(Edit) - 1)
    <2>1. Live(rxbuf, a + n_avail, n_edit - 1) = SubSeq(Live(rxbuf, a + n_avail, n_edit), 1, n_edit - 1)
        <3>1. n_edit \in Nat /\ n_edit > 0
            BY <1>2
        <3>2. QED
            BY <1>2, <3>1, LiveFront
    <2>2. Edit' = Live(rxbuf, a + n_avail, n_edit - 1)
        BY <1>1, <1>2 DEF Edit
    <2>3. QED
        BY <1>1, <1>4, <2>1, <2>2 DEF Edit
<1>6. Avail' = Avail
    BY <1>2 DEF Avail
<1>7. TheConsole!Echo(<<BS, SP, BS>>)
    BY <1>2, EchoFacts
<1>8. QED
    BY <1>3, <1>4, <1>5, <1>6, <1>7
       DEF TheConsole!Erase, TheConsole!Front, TheConsole!BS, TheConsole!SP, BS, SP, Avail, Edit

LEMMA QueueCharFacts ==
    ASSUME RingsInv, NEW ch \in Chars \cup {CR, LF}, QueueChar(ch)
    PROVE  RingsInv' /\ TheConsole!Put(ch)
<1>1. /\ n_tx \in Nat /\ n_tx < NBUF /\ Output(<<ch>>) /\ UNCHANGED inputRing
      /\ ch \in Values /\ <<ch>> \in Seq(Values)
    BY DEF QueueChar, Values, RingsInv
<1>2. RingsInv'
    BY <1>1, OutputFacts DEF RingsInv, inputRing
<1>3. Out \in Seq(Values) /\ Len(Out) = n_tx
    BY SequenceFacts
<1>4. Out' = Append(Out, ch)
    <2>1. Out' = Out \o SubSeq(<<ch>>, 1, IF Len(<<ch>>) <= NBUF - n_tx THEN Len(<<ch>>)
                                          ELSE NBUF - n_tx)
        BY <1>1, OutputFacts DEF Out
    <2>2. (IF Len(<<ch>>) <= NBUF - n_tx THEN Len(<<ch>>) ELSE NBUF - n_tx) = 1
        BY <1>1, RingsAssumption
    <2>3. SubSeq(<<ch>>, 1, 1) = <<ch>>
        BY <1>1, SubSeqFull
    <2>4. Append(Out, ch) = Out \o <<ch>>
        BY <1>1, <1>3, AppendIsConcat
    <2>5. QED
        BY <2>1, <2>2, <2>3, <2>4
<1>5. Avail' = Avail /\ Edit' = Edit
    BY <1>1 DEF inputRing, Avail, Edit
<1>6. QED
    BY <1>1, <1>2, <1>3, <1>4, <1>5 DEF TheConsole!Put, Avail, Edit, Out

LEMMA TransmitFacts == ASSUME RingsInv, Transmit PROVE RingsInv' /\ TheConsole!Show
<1>1. PICK a, len : a = tx_outp /\ len = n_tx
    OBVIOUS
<1>2. /\ a \in Places /\ len \in 1 .. NBUF /\ txbuf \in [Places -> Values]
      /\ tx_outp' = wrap(a + 1) /\ n_tx' = len - 1 /\ UNCHANGED <<inputRing, txbuf, tx_inp>>
      /\ tx_inp = wrap(a + len)
    BY <1>1, RingsAssumption DEF RingsInv, Transmit
<1>3. /\ wrap(a + 1) \in Places /\ Live(txbuf, a, len) # <<>>
      /\ Live(txbuf, wrap(a + 1), len - 1) = Tail(Live(txbuf, a, len))
    BY <1>2, LiveTail
<1>4. RingsInv'
    <2>1. PICK l : l = len - 1
        OBVIOUS
    <2>2. l \in Nat /\ 1 + l <= NBUF /\ 1 \in Nat /\ a + 1 + l = a + len
        BY <1>2, <2>1, RingsAssumption DEF Places
    <2>3. wrap(wrap(a + 1) + l) = wrap(a + 1 + l)
        BY <1>2, <2>2, WrapWrap
    <2>4. tx_inp' = wrap(tx_outp' + n_tx')
        BY <1>2, <2>1, <2>2, <2>3
    <2>5. tx_outp' \in Places /\ n_tx' \in Nat /\ n_tx' <= NBUF
        BY <1>2, <1>3, RingsAssumption
    <2>6. QED
        BY <1>2, <2>4, <2>5 DEF RingsInv, inputRing
<1>5. Out # <<>> /\ Out' = Tail(Out)
    BY <1>1, <1>2, <1>3 DEF Out
<1>6. Avail' = Avail /\ Edit' = Edit
    BY <1>2 DEF inputRing, Avail, Edit
<1>7. QED
    BY <1>4, <1>5, <1>6 DEF TheConsole!Show, Avail, Edit, Out

LEMMA DeliverFacts == ASSUME RingsInv, Deliver PROVE RingsInv' /\ TheConsole!Read
<1>1. PICK a, v, e : a = rx_outp /\ v = n_avail /\ e = n_edit
    OBVIOUS
<1>2. /\ a \in Places /\ v \in 1 .. NBUF /\ e \in Nat /\ v + e <= NBUF
      /\ rxbuf \in [Places -> Values]
      /\ rx_outp' = wrap(a + 1) /\ n_avail' = v - 1
      /\ UNCHANGED <<rxbuf, rx_inp, n_edit, outputRing>>
      /\ rx_inp = wrap(a + v + e)
    BY <1>1, RingsAssumption DEF RingsInv, Deliver
<1>3. /\ wrap(a + 1) \in Places /\ Live(rxbuf, a, v) # <<>>
      /\ Live(rxbuf, wrap(a + 1), v - 1) = Tail(Live(rxbuf, a, v))
    BY <1>2, LiveTail
<1>4. \A l \in Nat : 1 + l <= NBUF => wrap(wrap(a + 1) + l) = wrap(a + 1 + l)
    BY <1>2, WrapWrap
<1>5. RingsInv'
    <2>1. PICK l : l = v - 1 + e
        OBVIOUS
    <2>2. /\ l \in Nat /\ 1 + l <= NBUF /\ a + 1 + l = a + v + e
          /\ wrap(a + 1) + l = wrap(a + 1) + (v - 1) + e
        BY <1>2, <1>3, <2>1, RingsAssumption DEF Places
    <2>3. rx_inp' = wrap(rx_outp' + n_avail' + n_edit')
        BY <1>1, <1>2, <1>4, <2>2
    <2>4. rx_outp' \in Places /\ n_avail' \in Nat /\ n_edit' \in Nat /\ n_avail' + n_edit' <= NBUF
        BY <1>1, <1>2, <1>3, RingsAssumption
    <2>5. QED
        BY <1>2, <2>3, <2>4 DEF RingsInv, outputRing
<1>6. Avail # <<>> /\ Avail' = Tail(Avail)
    BY <1>1, <1>2, <1>3 DEF Avail
<1>7. Edit' = Edit
    <2>1. ASSUME NEW i \in 1 .. e
          PROVE  rxbuf[wrap(wrap(a + 1) + (v - 1) + i - 1)] = rxbuf[wrap(a + v + i - 1)]
        <3>1. PICK l : l = v - 1 + (i - 1)
            OBVIOUS
        <3>2. /\ l \in Nat /\ 1 + l <= NBUF /\ a + 1 + l = a + v + i - 1
              /\ wrap(a + 1) + l = wrap(a + 1) + (v - 1) + i - 1
            BY <1>2, <1>3, <3>1, RingsAssumption DEF Places
        <3>3. QED
            BY <1>4, <3>2
    <2>2. Live(rxbuf, wrap(a + 1) + (v - 1), e) = Live(rxbuf, a + v, e)
        BY <2>1, LiveEqual
    <2>3. QED
        BY <1>1, <1>2, <2>2 DEF Edit
<1>8. Out' = Out
    BY <1>2 DEF outputRing, Out
<1>9. QED
    BY <1>5, <1>6, <1>7, <1>8 DEF TheConsole!Read, Avail, Edit, Out

\* Each step of the rings is a step of the console.
LEMMA KeyFacts ==
    ASSUME RingsInv, NEW k \in Keys, keypress(k)
    PROVE  RingsInv' /\ TheConsole!Next
<1>1. CASE Rubout
    BY <1>1, RuboutFacts DEF TheConsole!Next
<1>2. CASE Newline
    BY <1>2, NewlineFacts DEF TheConsole!Next
<1>3. CASE k \in Chars /\ Character(k)
    BY <1>3, CharacterFacts DEF TheConsole!Next
<1>4. QED
    BY <1>1, <1>2, <1>3 DEF keypress

LEMMA RingsStep ==
    ASSUME RingsInv, [RingsNext]_ringVars
    PROVE  RingsInv' /\ [TheConsole!Next]_TheConsole!vars
<1>1. ASSUME NEW ch \in Chars \cup {CR, LF}, QueueChar(ch)
      PROVE  RingsInv' /\ TheConsole!Next
    <2>1. RingsInv' /\ TheConsole!Put(ch)
        BY <1>1, QueueCharFacts
    <2>2. QED
        BY <2>1 DEF TheConsole!Next, TheConsole!CR, TheConsole!LF, CR, LF
<1>2. CASE Transmit
    BY <1>2, TransmitFacts DEF TheConsole!Next
<1>3. CASE Deliver
    BY <1>3, DeliverFacts DEF TheConsole!Next
<1>4. CASE UNCHANGED ringVars
    <2>1. UNCHANGED <<inputRing, outputRing>>
        BY <1>4 DEF ringVars
    <2>2. RingsInv'
        BY <2>1 DEF RingsInv, inputRing, outputRing
    <2>3. UNCHANGED TheConsole!vars
        BY <2>1 DEF TheConsole!vars, Live, inputRing, outputRing
    <2>4. QED
        BY <2>2, <2>3
<1>5. QED
    BY <1>1, <1>2, <1>3, <1>4, KeyFacts DEF RingsNext

\* At first nothing is in the rings.
LEMMA StartRings == RingsInit => RingsInv /\ TheConsole!Init
<1> SUFFICES ASSUME RingsInit PROVE RingsInv /\ TheConsole!Init
    OBVIOUS
<1>1. RingsInv
    <2>1. 0 \in Places /\ wrap(0) = 0 /\ 0 + 0 = 0
        BY WrapFacts, RingsAssumption DEF Places
    <2>2. /\ rxbuf \in [Places -> Values] /\ txbuf \in [Places -> Values]
        BY DEF RingsInit, Values
    <2>3. QED
        BY <2>1, <2>2, RingsAssumption DEF RingsInit, RingsInv
<1>2. TheConsole!Init
    BY LiveEmpty DEF RingsInit, TheConsole!Init
<1>3. QED
    BY <1>1, <1>2

-----------------------------------------------------------------------------
(* The theorems *)

\* Between them the pointers and the counters of each ring delimit the same
\* characters, which fit.
THEOREM RingsInvariance == RingsSpec => []RingsInv
<1>1. RingsInv /\ [RingsNext]_ringVars => RingsInv'
    BY RingsStep
<1>2. QED
    BY StartRings, <1>1, PTL DEF RingsSpec

\* For any size of the buffers: the two rings of serial.c are the three
\* sequences of Console.  No character is lost, overwritten, repeated or moved
\* before another by a pointer that wraps, an echo that does not fit or a line
\* that is edited while earlier ones wait to be read.
THEOREM RingsAreAConsole == RingsSpec => ImplementsConsole
<1>1. RingsInv /\ [RingsNext]_ringVars => [TheConsole!Next]_TheConsole!vars
    BY RingsStep
<1>2. QED
    BY StartRings, <1>1, RingsInvariance, PTL DEF RingsSpec, ImplementsConsole, TheConsole!Spec

-----------------------------------------------------------------------------
(***************************************************************************)
(* Theorems of Prandom: prandom() gives each caller a number of its own,   *)
(* and Schrage's method computes it without overflow, for every modulus    *)
(* and multiplier with R < Q, and any number of callers.                   *)
(***************************************************************************)

(* Arithmetic *)

\* A product with a natural number preserves order.
LEMMA TimesMonotone ==
    ASSUME NEW a \in Nat, NEW x \in Int, NEW y \in Int, x <= y
    PROVE  a * x <= a * y
<1>1. a * y - a * x = a * (y - x)
    BY SMT
<1>2. a * (y - x) >= 0
    BY SMT
<1> QED
    BY <1>1, <1>2, SMT

\* Quotient and remainder.
LEMMA Division ==
    ASSUME NEW d \in Int, NEW m \in Nat \ {0}
    PROVE  /\ d \div m \in Int /\ d % m \in 0 .. m - 1
           /\ d = m * (d \div m) + (d % m)
    BY SMT

\* There is only one remainder.
LEMMA RemainderUnique ==
    ASSUME NEW m \in Nat \ {0}, NEW q \in Int, NEW y \in 0 .. m - 1,
           NEW d \in Int, d = m * q + y
    PROVE  d % m = y
<1> DEFINE product == d \div m
           z == d % m
<1>1. product \in Int /\ z \in 0 .. m - 1 /\ d = m * product + z
    BY Division
<1> HIDE DEF product, z
<1>2. CASE product = q
    BY <1>1, <1>2, SMT DEF z
<1>3. CASE product < q
    <2>1. m * (product + 1) <= m * q
        BY <1>1, <1>3, TimesMonotone, SMT
    <2>2. m * (product + 1) = m * product + m
        BY <1>1, SMT
    <2> QED
        BY <1>1, <2>1, <2>2, SMT
<1>4. CASE q < product
    <2>1. m * (q + 1) <= m * product
        BY <1>1, <1>4, TimesMonotone, SMT
    <2>2. m * (q + 1) = m * q + m
        BY SMT
    <2> QED
        BY <1>1, <2>1, <2>2, SMT
<1> QED
    BY <1>1, <1>2, <1>3, <1>4, SMT

\* The quotient and the remainder of M by A.
LEMMA Parts ==
    /\ M \in Nat /\ A \in Nat \ {0}
    /\ Q \in Nat \ {0} /\ R \in 0 .. A - 1 /\ R < Q
    /\ M = A * Q + R
<1>1. M \in Nat /\ A \in Nat \ {0} /\ R < Q
    BY PrandomAssumption, SMT
<1>2. Q \in Int /\ R \in 0 .. A - 1 /\ M = A * Q + R
    BY <1>1, Division DEF Q, R
<1> QED
    BY <1>1, <1>2, SMT

\* Schrage's method: no step leaves the range of an int, and the result is that
\* of Lehmer's generator.
LEMMA Schrage ==
    ASSUME NEW x \in 1 .. M - 1
    PROVE  /\ A * (x - Q * (x \div Q)) \in 0 .. M
           /\ R * (x \div Q) \in 0 .. M
           /\ Difference(x) \in -M .. M
           /\ Multiply(x) = Lehmer(x)
<1> DEFINE k == x \div Q
           r == x - Q * k
<1>1. /\ M \in Nat /\ A \in Nat \ {0}
      /\ Q \in Nat \ {0} /\ R \in Nat /\ R < Q
      /\ M = A * Q + R
    BY Parts, SMT
<1>2. k \in Int /\ r \in 0 .. Q - 1 /\ x = Q * k + r
    <2>1. x \div Q \in Int /\ x % Q \in 0 .. Q - 1 /\ x = Q * (x \div Q) + (x % Q)
        BY <1>1, Division, SMT
    <2> HIDE DEF Q
    <2> QED
        BY <1>1, <2>1, SMT
<1>3. Difference(x) = A * r - R * k
    BY DEF Difference
<1>4. Multiply(x) = IF Difference(x) < 0 THEN Difference(x) + M ELSE Difference(x)
    BY DEF Multiply
<1>5. x \in Int /\ 0 < x /\ x < M
    BY <1>1, SMT
<1> HIDE DEF k, r, Q, R
<1>6. k \in Nat
    <2>1. CASE k < 0
        <3>1. Q * k <= Q * (-1)
            BY <1>1, <1>2, <2>1, TimesMonotone, SMT
        <3> QED
            BY <1>1, <1>2, <1>5, <3>1, SMT
    <2> QED
        BY <1>2, <2>1, SMT
<1>7. A * r \in Int /\ 0 <= A * r /\ A * r <= M - A
    <2>1. A * 0 <= A * r /\ A * r <= A * (Q - 1)
        BY <1>1, <1>2, TimesMonotone, SMT
    <2>2. A * (Q - 1) = A * Q - A /\ A * 0 = 0 /\ A * r \in Int /\ A * Q \in Int
        BY <1>1, <1>2, SMT
    <2> QED
        BY <1>1, <2>1, <2>2, SMT
<1>8. R * k \in Int /\ 0 <= R * k /\ R * k < M
    <2>1. k * 0 <= k * R /\ k * R <= k * Q
        BY <1>1, <1>6, TimesMonotone, SMT
    <2>2. k * 0 = 0 /\ k * R = R * k /\ k * Q = Q * k /\ R * k \in Int /\ Q * k \in Int
        BY <1>1, <1>6, SMT
    <2> QED
        BY <1>1, <1>2, <1>5, <2>1, <2>2, SMT
<1>9. Difference(x) \in Int /\ -M < Difference(x) /\ Difference(x) < M
    BY <1>1, <1>3, <1>7, <1>8, SMT
<1>10. A * x = M * k + Difference(x)
    <2>1. A * x = A * (Q * k) + A * r
        BY <1>1, <1>2, <1>6, SMT
    <2>2. M * k = A * (Q * k) + R * k
        BY <1>1, <1>6, SMT
    <2> QED
        BY <1>1, <1>2, <1>3, <1>6, <1>7, <1>8, <2>1, <2>2, SMT
<1>11. \A d \in Int, q \in Int, y \in 0 .. M - 1 : d = M * q + y => d % M = y
    <2> SUFFICES ASSUME NEW d \in Int, NEW q \in Int, NEW y \in 0 .. M - 1,
                        d = M * q + y
                 PROVE  d % M = y
        OBVIOUS
    <2>1. M \in Nat \ {0}
        BY <1>1, <1>5, SMT
    <2> QED
        BY <2>1, RemainderUnique, Zenon
<1>12. A * x \in Int
    BY <1>1, <1>5, SMT
<1>13. Multiply(x) = Lehmer(x)
    <2>1. CASE Difference(x) < 0
        <3>1. M * (k - 1) = M * k - M
            BY <1>1, <1>6, SMT
        <3>2. A * x = M * (k - 1) + Multiply(x) /\ Multiply(x) \in 0 .. M - 1
            BY <1>1, <1>4, <1>6, <1>9, <1>10, <2>1, <3>1, SMT
        <3> QED
            BY <1>6, <1>11, <1>12, <3>2, SMT DEF Lehmer
    <2>2. CASE ~(Difference(x) < 0)
        <3>1. A * x = M * k + Multiply(x) /\ Multiply(x) \in 0 .. M - 1
            BY <1>1, <1>4, <1>6, <1>9, <1>10, <2>2, SMT
        <3> QED
            BY <1>6, <1>11, <1>12, <3>1, SMT DEF Lehmer
    <2> QED
        BY <2>1, <2>2
<1> QED
    BY <1>1, <1>7, <1>8, <1>9, <1>13, SMT DEF k, r

\* The generator stays in its range, M being prime.
LEMMA LehmerInRange ==
    ASSUME NEW x \in 1 .. M - 1
    PROVE  Lehmer(x) \in 1 .. M - 1
<1>1. M \in Nat \ {0} /\ A * x \in Int
    BY Parts, SMT
<1>2. (A * x) % M \in 0 .. M - 1 /\ (A * x) % M # 0
    BY <1>1, Division, PrandomAssumption
<1> QED
    BY <1>1, <1>2, SMT DEF Lehmer

-----------------------------------------------------------------------------
(* The callers *)

\* A process inside the call has disabled interrupts, and so is alone in it;
\* what it has loaded is still the seed.
RInv ==
    /\ seed \in 1 .. M - 1
    /\ where \in [Players -> {"idle", "masked", "loaded", "stored"}]
    /\ DOMAIN val = Players /\ DOMAIN drew = Players
    /\ \A c \in Players : where[c] # "idle" => masked = c
    /\ \A c \in Players : where[c] = "loaded" => val[c] = seed
    /\ DrawsOwnNumber

\* The seed is valid at the start and nobody is in the call.
LEMMA RInvInit == RandomInit => RInv
<1> SUFFICES ASSUME RandomInit PROVE RInv
    OBVIOUS
<1>1. \A c \in Players : where[c] = "idle" /\ val[c] = drew[c]
    BY DEF RandomInit
<1> QED
    BY <1>1 DEF RandomInit, RInv, DrawsOwnNumber

\* No step of a call disturbs another, since it is alone.
LEMMA RInvStep == RInv /\ [RandomNext]_randomVars => RInv'
<1> SUFFICES ASSUME RInv, [RandomNext]_randomVars PROVE RInv'
    OBVIOUS
<1>1. ASSUME NEW c \in Players, intr_disable(c) \/ intr_enable(c)
      PROVE  RInv'
    <2>1. \A d \in Players : where[d] # "idle" => d # c /\ masked = d
        BY <1>1 DEF RInv, intr_disable, intr_enable
    <2>2. \A d \in Players : where[d] = "idle"
        BY <1>1, <2>1, PrandomAssumption DEF intr_disable, intr_enable
    <2> QED
        BY <1>1, <2>2 DEF RInv, DrawsOwnNumber, intr_disable, intr_enable
<1>2. ASSUME NEW c \in Players, where[c] # "idle"
      PROVE  \A d \in Players : where[d] # "idle" => d = c
    BY <1>2 DEF RInv
<1>3. ASSUME NEW c \in Players, Mask(c)
      PROVE  RInv'
    <2>1. \A d \in Players : where[d] # "idle" => d = c
        BY <1>3, PrandomAssumption DEF RInv, Mask, Runs
    <2> QED
        BY <1>3, <2>1 DEF RInv, DrawsOwnNumber, Mask
<1>4. ASSUME NEW c \in Players, Load(c)
      PROVE  RInv'
    BY <1>4 DEF RInv, DrawsOwnNumber, Load
<1>5. ASSUME NEW c \in Players, StoreSeed(c)
      PROVE  RInv'
    <2>1. val[c] = seed /\ true_seed = seed
        BY <1>5 DEF RInv, DrawsOwnNumber, StoreSeed
    <2>2. Multiply(val[c]) = Lehmer(true_seed) /\ Lehmer(true_seed) \in 1 .. M - 1
        BY <2>1, Schrage, LehmerInRange DEF RInv
    <2>3. \A d \in Players : where[d] # "idle" => d = c
        BY <1>2, <1>5 DEF StoreSeed
    <2>4. DrawsOwnNumber'
        BY <1>5, <2>2 DEF RInv, DrawsOwnNumber, StoreSeed
    <2> QED
        BY <1>5, <2>2, <2>3, <2>4 DEF RInv, StoreSeed
<1>6. ASSUME NEW c \in Players, Unmask(c)
      PROVE  RInv'
    <2>1. \A d \in Players : where[d] # "idle" => d = c
        BY <1>2, <1>6 DEF Unmask
    <2> QED
        BY <1>6, <2>1 DEF RInv, DrawsOwnNumber, Unmask
<1>7. ASSUME UNCHANGED randomVars
      PROVE  RInv'
    BY <1>7 DEF RInv, DrawsOwnNumber, randomVars
<1> QED
    BY <1>1, <1>3, <1>4, <1>5, <1>6, <1>7 DEF RandomNext

\* The property from the invariant: what a caller has loaded is the seed, for
\* which Schrage's method is right.
LEMMA RInvCorrect == RInv => RandomCorrect
<1> SUFFICES ASSUME RInv PROVE RandomCorrect
    OBVIOUS
<1>1. NoOverflow
    <2> SUFFICES ASSUME NEW c \in Players, where[c] = "loaded"
                 PROVE  /\ A * (val[c] - Q * (val[c] \div Q)) \in 0 .. M
                        /\ R * (val[c] \div Q) \in 0 .. M
                        /\ Difference(val[c]) \in -M .. M
        BY DEF NoOverflow
    <2>1. val[c] \in 1 .. M - 1
        BY DEF RInv
    <2> QED
        BY <2>1, Schrage
<1> QED
    BY <1>1 DEF RandomCorrect, RInv

\* Whatever M, A and the callers are, each call of prandom() gives a number of
\* its own, in the range [1 .. M), and overflows nowhere.
THEOREM RandomCorrectAlways == RandomSpec => []RandomCorrect
<1>1. RandomSpec => []RInv
    BY RInvInit, RInvStep, PTL DEF RandomSpec
<1> QED
    BY <1>1, RInvCorrect, PTL

-----------------------------------------------------------------------------
(***************************************************************************)
(* Theorem of Numbers: itoa(), utoa() and xtoa() fit their text into the   *)
(* buffer, and atoi() and xtou() read it back as the number it was made    *)
(* from, for every width of a word.                                        *)
(*                                                                         *)
(* The inductive invariant says that the digits stored so far and what is  *)
(* left of the number make up the number, and that the digits read so far  *)
(* are worth what the loop has computed. What the texts of a number are    *)
(* worth, digit by digit, is a function of the number of digits.           *)
(***************************************************************************)

LEMMA TenToFacts ==
    /\ TenTo \in [Nat -> Nat] /\ TenTo[0] = 1
    /\ \A k \in Nat : TenTo[k + 1] = 10 * TenTo[k]
<1> DEFINE F == [k \in Nat |-> [v \in Nat |-> 10 * v]]
<1>1. F \in [Nat -> [Nat -> Nat]] /\ 1 \in Nat
    OBVIOUS
<1>2. PICK f : Follows(f, Nat, 1, F)
    <2> HIDE DEF F
    <2> QED BY <1>1, Recursion
<1>3. /\ f \in [Nat -> Nat] /\ f[0] = 1
      /\ \A k \in Nat : f[k + 1] = 10 * f[k]
    BY <1>2 DEF Follows
<1>4. ASSUME NEW k \in Nat
      PROVE  f[k] = IF k = 0 THEN 1 ELSE 10 * f[k - 1]
    <2>1. CASE k = 0
        BY <1>3, <2>1
    <2>2. CASE k # 0
        <3>1. k - 1 \in Nat /\ (k - 1) + 1 = k
            BY <2>2
        <3>2. QED
            BY <1>3, <2>2, <3>1
    <2>3. QED
        BY <2>1, <2>2
<1>5. f = [k \in Nat |-> IF k = 0 THEN 1 ELSE 10 * f[k - 1]]
    BY <1>3, <1>4
<1>6. TenTo = [k \in Nat |-> IF k = 0 THEN 1 ELSE 10 * TenTo[k - 1]]
    BY <1>5, Zenon DEF TenTo
<1>7. \A k \in Nat : TenTo[k] = IF k = 0 THEN 1 ELSE 10 * TenTo[k - 1]
    BY <1>6
<1>8. TenTo[0] = 1
    BY <1>7
<1>9. ASSUME NEW k \in Nat
      PROVE  TenTo[k + 1] = 10 * TenTo[k]
    <2>1. TenTo[k + 1] = 10 * TenTo[(k + 1) - 1]
        BY <1>7
    <2>2. (k + 1) - 1 = k
        OBVIOUS
    <2>3. QED
        BY <2>1, <2>2
<1>10. \A k \in Nat : TenTo[k] \in Nat
    <2> DEFINE Typed == {k \in Nat : TenTo[k] \in Nat}
    <2>1. 0 \in Typed
        BY <1>8
    <2>2. ASSUME NEW k \in Nat, k \in Typed
          PROVE  k + 1 \in Typed
        BY <1>9, <2>2
    <2>3. Nat \subseteq Typed
        <3> HIDE DEF Typed
        <3> QED BY <2>1, <2>2, Induction
    <2>4. QED
        BY <2>3
<1>11. QED
    BY <1>6, <1>8, <1>9, <1>10

\* The word that is printed is below the number of words, and reading it back
\* as an int with its sign gives the number.
LEMMA WordFacts ==
    /\ WORD \in Nat /\ WORD > 1 /\ WORD \div 2 \in Nat /\ WORD = 2 * (WORD \div 2)
    /\ \A x \in 0 .. WORD - 1 : AsWord(x) = x
    /\ \A x \in 1 .. WORD - 1 : AsWord(-x) = WORD - x
<1>1. /\ WORD \in Nat /\ WORD > 1 /\ WORD \div 2 \in Nat /\ WORD = 2 * (WORD \div 2)
    BY NumbersAssumption
<1>2. ASSUME NEW x \in 0 .. WORD - 1
      PROVE  AsWord(x) = x
    <2>1. WORD \in Nat \ {0} /\ x \in Int /\ 0 \in Int /\ x = WORD * 0 + x
        BY <1>1
    <2>2. x % WORD = x
        BY <2>1, RemainderUnique
    <2>3. QED
        BY <2>2 DEF AsWord
<1>3. ASSUME NEW x \in 1 .. WORD - 1
      PROVE  AsWord(-x) = WORD - x
    <2>1. /\ WORD \in Nat \ {0} /\ -x \in Int /\ -1 \in Int
          /\ WORD - x \in 0 .. WORD - 1 /\ -x = WORD * (-1) + (WORD - x)
        BY <1>1
    <2>2. (-x) % WORD = WORD - x
        <3> DEFINE d == -x
                   y == WORD - x
        <3>1. d \in Int /\ y \in 0 .. WORD - 1 /\ d = WORD * (-1) + y
            BY <2>1
        <3> HIDE DEF d, y
        <3>2. d % WORD = y
            BY <2>1, <3>1, RemainderUnique
        <3>3. QED
            BY <3>2 DEF d, y
    <2>3. QED
        BY <2>2 DEF AsWord
<1>4. QED
    BY <1>1, <1>2, <1>3

Numbers == IF base = SIGNED THEN Ints ELSE 0 .. WORD - 1

LEMMA MagnitudeFacts ==
    ASSUME NEW v, v \in Ints \/ v \in 0 .. WORD - 1
    PROVE  /\ Magnitude(v) \in 0 .. WORD - 1
           /\ v >= 0 => Magnitude(v) = v
           /\ v < 0 => Magnitude(v) = -v /\ -v \in 1 .. WORD \div 2
<1>1. CASE v \in Int /\ v < 0
    <2>1. v \in Ints
        BY <1>1
    <2>2. -v \in 1 .. WORD \div 2 /\ WORD \div 2 < WORD /\ WORD \div 2 \in Nat
        BY <1>1, <2>1, WordFacts DEF Ints
    <2>3. AsWord(-v) = -v
        BY <2>2, WordFacts
    <2>4. QED
        BY <1>1, <2>2, <2>3, WordFacts DEF Magnitude
<1>2. CASE v \in Nat
    <2>1. v \in 0 .. WORD - 1
        BY <1>2, WordFacts DEF Ints
    <2>2. QED
        BY <1>2, <2>1 DEF Magnitude
<1>3. QED
    BY <1>1, <1>2, WordFacts DEF Ints

\* A step of utoa() and one of the loops that read are inverse.
LEMMA OneDigit ==
    ASSUME NEW x \in Nat
    PROVE  /\ x % Radix \in 0 .. Radix - 1 /\ Radix \in 10 .. 16
           /\ x \div Radix \in 0 .. x
           /\ Radix * (x \div Radix) + (x % Radix) = x
           /\ x \div Radix = 0 => x % Radix = x
           /\ \A t \in Nat : x < 10 * t => x \div Radix < t
<1>1. CASE Radix = 16
    <2>1. /\ x % 16 \in 0 .. 15 /\ x \div 16 \in 0 .. x
          /\ 16 * (x \div 16) + (x % 16) = x
          /\ x \div 16 = 0 => x % 16 = x
        OBVIOUS
    <2>2. \A t \in Nat : x < 10 * t => x \div 16 < t
        OBVIOUS
    <2>3. QED
        BY <1>1, <2>1, <2>2
<1>2. CASE Radix = 10
    <2>1. /\ x % 10 \in 0 .. 9 /\ x \div 10 \in 0 .. x
          /\ 10 * (x \div 10) + (x % 10) = x
          /\ x \div 10 = 0 => x % 10 = x
        OBVIOUS
    <2>2. \A t \in Nat : x < 10 * t => x \div 10 < t
        OBVIOUS
    <2>3. QED
        BY <1>2, <2>1, <2>2
<1>3. QED
    BY <1>1, <1>2 DEF Radix

\* Where the digits begin.
First == IF number < 0 /\ conversion \notin {"digits", "sign"} THEN p + 1 ELSE p

\* A place for the sign, if there will be one.
SignPlace == IF number < 0 THEN 1 ELSE 0

Characters == 0 .. 15 \cup {MINUS, END}

NumberTypes ==
    /\ base \in {SIGNED, 10, 16}
    /\ number \in Numbers
    /\ conversion \in {"digits", "sign", "printed", "reading", "read"}
    /\ p \in 0 .. NMAX - 1
    /\ nbuf \in [0 .. NMAX - 1 -> Characters] /\ nbuf[NMAX - 1] = END

\* h[i] is the number whose digits stand before place i, which was left to be
\* printed when these were not there yet.
PrefixValues(h) ==
    /\ h \in [0 .. NMAX - 1 -> 0 .. WORD - 1]
    /\ h[NMAX - 1] = Magnitude(number)
    /\ First \in 0 .. NMAX - 1 /\ h[First] = rest
    /\ \A i \in First .. NMAX - 2 :
          nbuf[i] = h[i + 1] % Radix /\ h[i] = h[i + 1] \div Radix
    /\ \A i \in First + 1 .. NMAX - 2 : h[i] # 0
    /\ conversion = "reading" => here \in First .. NMAX - 1 /\ value = h[here]

\* There is room for what is left, and for the sign.
RoomLeft ==
    IF conversion = "digits"
    THEN /\ p - SignPlace >= 1 /\ rest < TenTo[p - SignPlace]
         /\ p < NMAX - 1 => rest # 0
    ELSE /\ rest = 0 /\ First < NMAX - 1
         /\ conversion = "sign" => p >= SignPlace

SignThere ==
    /\ number < 0 /\ conversion \notin {"digits", "sign"} => nbuf[p] = MINUS
    /\ conversion = "reading" => minus = (number < 0)

NumbersInv ==
    /\ NumberTypes /\ RoomLeft /\ SignThere /\ ReadsBack
    /\ \E h : PrefixValues(h)

LEMMA NumbersStart == NumbersInit => NumbersInv
<1>1. SUFFICES ASSUME NEW v, NEW b, Starts(v, b),
                      \/ v \in Ints /\ b = SIGNED
                      \/ v \in 0 .. WORD - 1 /\ b \in {10, 16}
               PROVE  NumbersInv
    BY DEF NumbersInit
<1>2. /\ number = v /\ base = b /\ rest = Magnitude(v) /\ p = NMAX - 1
      /\ conversion = "digits" /\ NMAX \in Nat
      /\ nbuf = [i \in 0 .. NMAX - 1 |-> IF i = NMAX - 1 THEN END ELSE 0]
    BY <1>1, NumbersAssumption DEF Starts
<1>3. NMAX - 2 \in Nat /\ NMAX - 1 \in Nat /\ TenTo[NMAX - 2] \in Nat
      /\ TenTo[NMAX - 1] = 10 * TenTo[NMAX - 2] /\ WORD \div 2 < TenTo[NMAX - 2]
    <2>1. NMAX - 2 \in Nat /\ WORD \div 2 < TenTo[NMAX - 2] /\ (NMAX - 2) + 1 = NMAX - 1
        BY NumbersAssumption
    <2>2. TenTo[NMAX - 2] \in Nat /\ TenTo[(NMAX - 2) + 1] = 10 * TenTo[NMAX - 2]
        BY <2>1, TenToFacts
    <2>3. QED
        BY <2>1, <2>2
<1>4. /\ v \in Int /\ Magnitude(v) \in 0 .. WORD - 1
      /\ v < 0 => Magnitude(v) \in 1 .. WORD \div 2
    BY <1>1, WordFacts, MagnitudeFacts DEF Ints
<1>5. NumberTypes
    <2>1. number \in Numbers /\ base \in {SIGNED, 10, 16}
        BY <1>1, <1>2 DEF Numbers, SIGNED
    <2>2. nbuf \in [0 .. NMAX - 1 -> Characters] /\ nbuf[NMAX - 1] = END
        BY <1>2, <1>3 DEF Characters
    <2>3. QED
        BY <1>2, <1>3, <2>1, <2>2 DEF NumberTypes
<1>6. RoomLeft
    <2>1. CASE v < 0
        <3>1. NMAX # 2
            BY <1>3, <2>1, <1>4, TenToFacts, WordFacts
        <3>2. NMAX - 1 - 1 = NMAX - 2
            BY <1>2
        <3>3. QED
            BY <1>2, <1>3, <1>4, <2>1, <3>1, <3>2, WordFacts DEF RoomLeft, SignPlace
    <2>2. CASE ~(v < 0)
        <3>1. NMAX - 1 - 0 = NMAX - 1
            BY <1>2
        <3>2. QED
            BY <1>2, <1>3, <1>4, <2>2, <3>1, WordFacts DEF RoomLeft, SignPlace
    <2>3. QED
        BY <2>1, <2>2
<1>7. PrefixValues([i \in 0 .. NMAX - 1 |-> Magnitude(number)])
    <2>1. First = NMAX - 1
        BY <1>2 DEF First
    <2>2. QED
        BY <1>2, <1>3, <1>4, <2>1 DEF PrefixValues
<1>8. SignThere /\ ReadsBack
    BY <1>2 DEF SignThere, ReadsBack
<1>9. QED
    BY <1>5, <1>6, <1>7, <1>8 DEF NumbersInv

\* What a step that leaves the number alone keeps.
LEMMA NumberSame ==
    ASSUME UNCHANGED <<number, base>>
    PROVE  Radix' = Radix /\ Numbers' = Numbers /\ SignPlace' = SignPlace
    BY DEF Radix, Numbers, SignPlace

LEMMA DigitKeeps == ASSUME NumbersInv, Digit PROVE NumbersInv'
<1>1. PICK h : PrefixValues(h)
    BY DEF NumbersInv
<1>2. /\ conversion = "digits" /\ p' = p - 1
      /\ nbuf' = [nbuf EXCEPT ![p - 1] = rest % Radix] /\ rest' = rest \div Radix
      /\ conversion' = IF rest' # 0 THEN "digits" ELSE "sign"
      /\ UNCHANGED <<number, base, value, minus, here>>
    BY DEF Digit
<1>3. First = p /\ First' = p - 1
    BY <1>2 DEF First
<1>4. /\ NMAX \in Nat /\ p \in 1 .. NMAX - 1 /\ SignPlace \in {0, 1}
      /\ p - SignPlace >= 1 /\ rest < TenTo[p - SignPlace] /\ rest \in 0 .. WORD - 1
      /\ p < NMAX - 1 => rest # 0
    BY <1>1, <1>2, <1>3, NumbersAssumption DEF NumbersInv, NumberTypes, RoomLeft, PrefixValues,
       SignPlace
<1>5. /\ rest % Radix \in 0 .. Radix - 1 /\ Radix \in 10 .. 16
      /\ rest \div Radix \in 0 .. rest
      /\ \A t \in Nat : rest < 10 * t => rest \div Radix < t
    BY <1>4, OneDigit, WordFacts
<1>6. NumberTypes'
    <2>1. p' \in 0 .. NMAX - 1 /\ p - 1 # NMAX - 1
        BY <1>2, <1>4
    <2>2. /\ nbuf' \in [0 .. NMAX - 1 -> Characters] /\ nbuf'[NMAX - 1] = END
        <3>1. rest % Radix \in Characters
            BY <1>5 DEF Characters
        <3>2. QED
            BY <1>2, <1>4, <2>1, <3>1 DEF NumbersInv, NumberTypes
    <2>3. conversion' \in {"digits", "sign"}
        BY <1>2
    <2>4. QED
        BY <1>2, <2>1, <2>2, <2>3, NumberSame DEF NumbersInv, NumberTypes
<1>7. RoomLeft'
    <2> DEFINE k == p - 1 - SignPlace
    <2>1. k \in Nat /\ k + 1 = p - SignPlace
        BY <1>4
    <2>2. TenTo[k] \in Nat /\ TenTo[k + 1] = 10 * TenTo[k] /\ TenTo[0] = 1
        <3> HIDE DEF k
        <3> QED BY <2>1, TenToFacts
    <2>3. rest' < TenTo[k]
        BY <1>2, <1>4, <1>5, <2>1, <2>2
    <2>4. p' - SignPlace' = k
        BY <1>2, <1>4, NumberSame
    <2>5. CASE rest' # 0
        <3>1. k >= 1
            BY <1>2, <1>4, <1>5, <2>1, <2>2, <2>3, <2>5
        <3>2. QED
            BY <1>2, <2>3, <2>4, <2>5, <3>1 DEF RoomLeft
    <2>6. CASE rest' = 0
        <3>1. First' < NMAX - 1 /\ p' >= SignPlace' /\ conversion' = "sign"
            BY <1>2, <1>3, <1>4, <2>1, <2>4, <2>6, NumberSame
        <3>2. QED
            BY <2>6, <3>1 DEF RoomLeft
    <2>7. QED
        BY <2>5, <2>6
<1>8. SignThere' /\ ReadsBack'
    BY <1>2 DEF SignThere, ReadsBack
<1>9. PICK g : g = [h EXCEPT ![p - 1] = rest \div Radix]
    OBVIOUS
<1>10. PrefixValues(g)'
    <2>1. /\ h \in [0 .. NMAX - 1 -> 0 .. WORD - 1] /\ h[NMAX - 1] = Magnitude(number)
          /\ h[p] = rest
          /\ \A i \in p .. NMAX - 2 : nbuf[i] = h[i + 1] % Radix /\ h[i] = h[i + 1] \div Radix
          /\ \A i \in p + 1 .. NMAX - 2 : h[i] # 0
        BY <1>1, <1>3 DEF PrefixValues
    <2>2. rest \div Radix \in 0 .. WORD - 1 /\ p - 1 \in 0 .. NMAX - 1
        BY <1>4, <1>5, WordFacts
    <2>3. /\ g \in [0 .. NMAX - 1 -> 0 .. WORD - 1] /\ g[p - 1] = rest \div Radix
          /\ \A i \in p .. NMAX - 1 : g[i] = h[i]
        BY <1>4, <1>9, <2>1, <2>2
    <2>4. /\ nbuf'[p - 1] = rest % Radix /\ \A i \in p .. NMAX - 1 : nbuf'[i] = nbuf[i]
        BY <1>2, <1>4 DEF NumbersInv, NumberTypes
    <2>5. ASSUME NEW i \in p - 1 .. NMAX - 2
          PROVE  nbuf'[i] = g[i + 1] % Radix /\ g[i] = g[i + 1] \div Radix
        <3>1. CASE i = p - 1
            BY <1>4, <2>1, <2>3, <2>4, <3>1
        <3>2. CASE i # p - 1
            BY <1>4, <2>1, <2>3, <2>4, <3>2
        <3>3. QED
            BY <3>1, <3>2
    <2>6. \A i \in p .. NMAX - 2 : g[i] # 0
        BY <1>4, <2>1, <2>3
    <2>7. g[NMAX - 1] = Magnitude(number)
        BY <1>4, <2>1, <2>3
    <2>8. (p - 1) + 1 = p /\ p - 1 \in 0 .. NMAX - 1 /\ conversion' # "reading"
        BY <1>2, <1>4
    <2>9. QED
        BY <1>2, <1>3, <2>3, <2>5, <2>6, <2>7, <2>8, NumberSame DEF PrefixValues
<1>11. QED
    BY <1>6, <1>7, <1>8, <1>10 DEF NumbersInv

LEMMA SignKeeps == ASSUME NumbersInv, Sign PROVE NumbersInv'
<1>1. PICK h : PrefixValues(h)
    BY DEF NumbersInv
<1>2. /\ conversion = "sign" /\ conversion' = "printed"
      /\ UNCHANGED <<number, base, rest, value, minus, here>>
    BY DEF Sign
<1>3. /\ NMAX \in Nat /\ p \in 0 .. NMAX - 1 /\ SignPlace \in {0, 1} /\ p >= SignPlace
      /\ First = p /\ p < NMAX - 1 /\ rest = 0 /\ number \in Int
    BY <1>2, NumbersAssumption, WordFacts
       DEF NumbersInv, NumberTypes, RoomLeft, SignPlace, First, Numbers, Ints
<1>4. First' = p /\ p' \in 0 .. NMAX - 1 /\ (number < 0 => p' = p - 1)
    BY <1>2, <1>3 DEF Sign, First, SignPlace
<1>5. /\ nbuf' \in [0 .. NMAX - 1 -> Characters]
      /\ \A i \in p .. NMAX - 1 : nbuf'[i] = nbuf[i]
      /\ number < 0 => nbuf'[p'] = MINUS
    <2>1. nbuf \in [0 .. NMAX - 1 -> Characters] /\ MINUS \in Characters
        BY DEF NumbersInv, NumberTypes, Characters
    <2>2. CASE number < 0
        <3>1. p - 1 \in 0 .. NMAX - 1 /\ nbuf' = [nbuf EXCEPT ![p - 1] = MINUS] /\ p' = p - 1
            BY <1>3, <2>2 DEF Sign, SignPlace
        <3>2. QED
            BY <1>3, <2>1, <3>1
    <2>3. CASE ~(number < 0)
        BY <2>1, <2>3 DEF Sign
    <2>4. QED
        BY <2>2, <2>3
<1>6. NumberTypes'
    BY <1>2, <1>3, <1>4, <1>5, NumberSame DEF NumbersInv, NumberTypes
<1>7. RoomLeft' /\ SignThere' /\ ReadsBack'
    BY <1>2, <1>3, <1>4, <1>5 DEF RoomLeft, SignThere, ReadsBack
<1>8. PrefixValues(h)'
    BY <1>1, <1>2, <1>3, <1>4, <1>5, NumberSame DEF PrefixValues
<1>9. QED
    BY <1>6, <1>7, <1>8 DEF NumbersInv

\* The place where the digits begin holds one.
LEMMA FirstDigit ==
    ASSUME NumbersInv, NEW h, PrefixValues(h), NEW i \in First .. NMAX - 2
    PROVE  /\ nbuf[i] \in 0 .. Radix - 1 /\ Radix \in 10 .. 16
           /\ Radix * h[i] + nbuf[i] = h[i + 1]
           /\ nbuf[i] # MINUS /\ nbuf[i] # END
<1>1. NMAX \in Nat /\ i + 1 \in 0 .. NMAX - 1 /\ h[i + 1] \in Nat
    BY NumbersAssumption, WordFacts DEF PrefixValues
<1>2. nbuf[i] = h[i + 1] % Radix /\ h[i] = h[i + 1] \div Radix
    BY DEF PrefixValues
<1>3. nbuf[i] \in 0 .. Radix - 1 /\ Radix \in 10 .. 16
    BY <1>1, <1>2, OneDigit
<1>4. Radix * h[i] + nbuf[i] = h[i + 1]
    BY <1>1, <1>2, OneDigit, Zenon
<1>5. QED
    BY <1>3, <1>4 DEF MINUS, END

LEMMA StartReadingKeeps == ASSUME NumbersInv, StartReading PROVE NumbersInv'
<1>1. PICK h : PrefixValues(h)
    BY DEF NumbersInv
<1>2. /\ conversion = "printed" /\ conversion' = "reading" /\ value' = 0
      /\ minus' = (base # 16 /\ nbuf[p] = MINUS)
      /\ here' = IF minus' THEN p + 1 ELSE p
      /\ UNCHANGED <<number, base, rest, nbuf, p>>
    BY DEF StartReading
<1>3. /\ NMAX \in Nat /\ First \in 0 .. NMAX - 1 /\ First < NMAX - 1 /\ rest = 0
      /\ h[First] = 0 /\ number \in Int /\ p \in Nat
    BY <1>1, <1>2, NumbersAssumption, WordFacts
       DEF NumbersInv, NumberTypes, RoomLeft, PrefixValues, Numbers, Ints
<1>4. minus' = (number < 0) /\ here' = First
    <2>1. CASE number < 0
        <3>1. base = SIGNED /\ nbuf[p] = MINUS /\ First = p + 1
            BY <1>2, <2>1 DEF NumbersInv, NumberTypes, Numbers, SignThere, First
        <3>2. base # 16
            BY <3>1 DEF SIGNED
        <3>3. minus' = TRUE /\ (number < 0) = TRUE
            <4>1. base # 16 /\ nbuf[p] = MINUS
                BY <3>1, <3>2
            <4>2. minus' = TRUE
                BY <1>2, <4>1, Zenon
            <4>3. QED
                BY <2>1, <4>2
        <3>4. QED
            BY <1>2, <3>1, <3>3
    <2>2. CASE ~(number < 0)
        <3>1. First = p /\ p \in First .. NMAX - 2
            BY <1>3, <2>2 DEF First
        <3>2. nbuf[p] # MINUS
            BY <1>1, <3>1, FirstDigit
        <3>3. minus' = FALSE /\ (number < 0) = FALSE
            <4>1. minus' = FALSE
                BY <1>2, <3>2, Zenon
            <4>2. QED
                BY <2>2, <4>1
        <3>4. QED
            BY <1>2, <3>1, <3>3
    <2>3. QED
        BY <2>1, <2>2
<1>5. First' = First
    BY <1>2 DEF First
<1>6. NumberTypes' /\ RoomLeft' /\ SignThere' /\ ReadsBack'
    <2>1. NumberTypes'
        BY <1>2, NumberSame DEF NumbersInv, NumberTypes
    <2>2. RoomLeft'
        BY <1>2, <1>3, <1>5 DEF RoomLeft
    <2>3. SignThere' /\ ReadsBack'
        BY <1>2, <1>4 DEF NumbersInv, SignThere, ReadsBack
    <2>4. QED
        BY <2>1, <2>2, <2>3
<1>7. PrefixValues(h)'
    <2>1. here' \in First .. NMAX - 1 /\ value' = h[here']
        BY <1>2, <1>3, <1>4
    <2>2. QED
        BY <1>1, <1>2, <1>5, <2>1, NumberSame DEF PrefixValues
<1>8. QED
    BY <1>6, <1>7 DEF NumbersInv

LEMMA ReadDigitKeeps == ASSUME NumbersInv, ReadDigit PROVE NumbersInv'
<1>1. PICK h : PrefixValues(h)
    BY DEF NumbersInv
<1>2. /\ conversion = "reading" /\ nbuf[here] \in 0 .. Radix - 1
      /\ value' = AsWord(Radix * value + nbuf[here]) /\ here' = here + 1
      /\ UNCHANGED <<number, base, rest, nbuf, p, conversion, minus>>
    BY DEF ReadDigit, IsDigit
<1>3. /\ NMAX \in Nat /\ First \in 0 .. NMAX - 1 /\ here \in First .. NMAX - 1 /\ value = h[here]
    BY <1>1, <1>2, NumbersAssumption DEF PrefixValues
<1>4. here # NMAX - 1
    BY <1>2 DEF NumbersInv, NumberTypes, Radix, END
<1>5. here \in First .. NMAX - 2 /\ here + 1 \in First .. NMAX - 1 /\ here + 1 \in 0 .. NMAX - 1
    BY <1>3, <1>4
<1>6. Radix * h[here] + nbuf[here] = h[here + 1]
    BY <1>1, <1>5, FirstDigit
<1>7. h[here + 1] \in 0 .. WORD - 1
    BY <1>1, <1>5 DEF PrefixValues
<1>8. value' = h[here']
    BY <1>2, <1>3, <1>6, <1>7, WordFacts
<1>9. First' = First
    BY <1>2 DEF First
<1>10. PrefixValues(h)'
    BY <1>1, <1>2, <1>5, <1>8, <1>9, NumberSame DEF PrefixValues
<1>11. NumberTypes' /\ RoomLeft' /\ SignThere' /\ ReadsBack'
    <2>1. NumberTypes'
        BY <1>2, NumberSame DEF NumbersInv, NumberTypes
    <2>2. RoomLeft'
        BY <1>2, <1>9 DEF NumbersInv, RoomLeft
    <2>3. SignThere' /\ ReadsBack'
        BY <1>2 DEF NumbersInv, SignThere, ReadsBack
    <2>4. QED
        BY <2>1, <2>2, <2>3
<1>12. QED
    BY <1>10, <1>11 DEF NumbersInv

\* The int or word with the right value is the number.
LEMMA NumberBack ==
    ASSUME number \in Numbers, base \in {SIGNED, 10, 16}
    PROVE  (IF base = 16 THEN Magnitude(number)
            ELSE AsInt(IF number < 0 THEN AsWord(-Magnitude(number)) ELSE Magnitude(number)))
               = IF base = 10 THEN AsInt(number) ELSE number
<1>1. number \in Ints \/ number \in 0 .. WORD - 1
    BY DEF Numbers
<1>2. /\ Magnitude(number) \in 0 .. WORD - 1
      /\ number >= 0 => Magnitude(number) = number
      /\ number < 0 => Magnitude(number) = -number /\ -number \in 1 .. WORD \div 2
    BY <1>1, MagnitudeFacts
<1>3. CASE base # SIGNED
    <2>1. number \in 0 .. WORD - 1
        BY <1>3 DEF Numbers
    <2>2. QED
        BY <1>2, <2>1, <1>3 DEF SIGNED
<1>4. CASE base = SIGNED
    <2>1. number \in Ints /\ base # 16 /\ base # 10
        BY <1>4 DEF Numbers, SIGNED
    <2>2. CASE number < 0
        <3>1. -number \in 1 .. WORD - 1 /\ number \in Int
            BY <1>2, <2>1, <2>2, WordFacts DEF Ints
        <3>2. AsWord(-Magnitude(number)) = WORD - (-number)
            BY <1>2, <2>2, <3>1, WordFacts
        <3>3. AsInt(WORD - (-number)) = number
            BY <1>2, <2>2, <3>1, WordFacts DEF AsInt
        <3>4. QED
            BY <2>1, <2>2, <3>2, <3>3
    <2>3. CASE ~(number < 0)
        <3>1. AsInt(number) = number /\ Magnitude(number) = number
            BY <1>2, <2>1, <2>3, WordFacts DEF AsInt, Ints
        <3>2. QED
            BY <2>1, <2>3, <3>1
    <2>4. QED
        BY <2>2, <2>3
<1>5. QED
    BY <1>3, <1>4

LEMMA EndReadingKeeps == ASSUME NumbersInv, EndReading PROVE NumbersInv'
<1>1. PICK h : PrefixValues(h)
    BY DEF NumbersInv
<1>2. /\ conversion = "reading" /\ conversion' = "read" /\ nbuf[here] \notin 0 .. Radix - 1
      /\ value' = IF base = 16 THEN value
                  ELSE AsInt(IF minus THEN AsWord(-value) ELSE value)
      /\ UNCHANGED <<number, base, rest, nbuf, p, minus, here>>
    BY DEF EndReading, IsDigit
<1>3. /\ NMAX \in Nat /\ First \in 0 .. NMAX - 1 /\ here \in First .. NMAX - 1 /\ value = h[here]
      /\ minus = (number < 0)
    BY <1>1, <1>2, NumbersAssumption DEF PrefixValues, NumbersInv, SignThere
<1>4. here = NMAX - 1
    <2>1. SUFFICES ASSUME here # NMAX - 1 PROVE FALSE
        OBVIOUS
    <2>2. here \in First .. NMAX - 2
        BY <1>3, <2>1
    <2>3. QED
        BY <1>1, <1>2, <2>2, FirstDigit
<1>5. value = Magnitude(number)
    BY <1>1, <1>3, <1>4 DEF PrefixValues
<1>6. value' = IF base = 10 THEN AsInt(number) ELSE number
    BY <1>2, <1>3, <1>5, NumberBack DEF NumbersInv, NumberTypes
<1>7. First' = First
    BY <1>2 DEF First
<1>8. PrefixValues(h)'
    BY <1>1, <1>2, <1>7, NumberSame DEF PrefixValues
<1>9. NumberTypes' /\ RoomLeft' /\ SignThere' /\ ReadsBack'
    <2>1. NumberTypes'
        BY <1>2, NumberSame DEF NumbersInv, NumberTypes
    <2>2. RoomLeft'
        BY <1>2, <1>7 DEF NumbersInv, RoomLeft
    <2>3. SignThere' /\ ReadsBack'
        BY <1>2, <1>6 DEF NumbersInv, SignThere, ReadsBack
    <2>4. QED
        BY <2>1, <2>2, <2>3
<1>10. QED
    BY <1>8, <1>9 DEF NumbersInv

LEMMA NumbersStep == NumbersInv /\ [NumbersNext]_numberVars => NumbersInv'
<1>1. SUFFICES ASSUME NumbersInv, [NumbersNext]_numberVars PROVE NumbersInv'
    OBVIOUS
<1>2. CASE UNCHANGED numberVars
    <2>1. /\ UNCHANGED <<number, base>>
          /\ UNCHANGED <<rest, nbuf, p, conversion, value, minus, here>>
        BY <1>2 DEF numberVars
    <2>2. First' = First
        BY <2>1 DEF First
    <2>3. NumberTypes' /\ RoomLeft' /\ SignThere' /\ ReadsBack'
        BY <1>1, <2>1, <2>2, NumberSame
           DEF NumbersInv, NumberTypes, RoomLeft, SignThere, ReadsBack
    <2>4. ASSUME NEW h, PrefixValues(h)
          PROVE  PrefixValues(h)'
        BY <2>1, <2>2, <2>4, NumberSame DEF PrefixValues
    <2>5. QED
        BY <1>1, <2>3, <2>4 DEF NumbersInv
<1>3. QED
    BY <1>1, <1>2, DigitKeeps, SignKeeps, StartReadingKeeps, ReadDigitKeeps, EndReadingKeeps
       DEF NumbersNext

LEMMA NumbersFit == NumbersInv => Fits
<1>1. SUFFICES ASSUME NumbersInv, conversion \notin {"digits", "sign"}
               PROVE  nbuf[First] # END /\ (nbuf[First] = 0 => number = 0)
    <2>1. First = IF conversion \notin {"digits", "sign"} /\ number < 0 THEN p + 1 ELSE p
        BY DEF First
    <2>2. QED
        BY <2>1 DEF Fits, NumbersInv, NumberTypes
<1>2. PICK h : PrefixValues(h)
    BY <1>1 DEF NumbersInv
<1>3. /\ NMAX \in Nat /\ First \in 0 .. NMAX - 1 /\ First < NMAX - 1 /\ h[First] = 0
      /\ number \in Int
    BY <1>1, <1>2, NumbersAssumption, WordFacts
       DEF NumbersInv, NumberTypes, RoomLeft, PrefixValues, Numbers, Ints
<1>4. First \in First .. NMAX - 2 /\ First + 1 \in 0 .. NMAX - 1
    BY <1>3
<1>5. nbuf[First] # END /\ Radix \in 10 .. 16 /\ Radix * h[First] + nbuf[First] = h[First + 1]
      /\ nbuf[First] \in 0 .. Radix - 1
    BY <1>1, <1>2, <1>4, FirstDigit
<1>6. ASSUME nbuf[First] = 0
      PROVE  number = 0
    <2>1. h[First + 1] = 0
        BY <1>3, <1>5, <1>6
    <2>2. First + 1 = NMAX - 1
        <3>1. \A i \in First + 1 .. NMAX - 2 : h[i] # 0
            BY <1>2 DEF PrefixValues
        <3>2. QED
            BY <1>3, <2>1, <3>1
    <2>3. Magnitude(number) = 0
        BY <1>2, <2>1, <2>2 DEF PrefixValues
    <2>4. number \in Ints \/ number \in 0 .. WORD - 1
        BY <1>1 DEF NumbersInv, NumberTypes, Numbers
    <2>5. QED
        BY <1>3, <2>3, <2>4, MagnitudeFacts, WordFacts
<1>7. QED
    BY <1>5, <1>6

\* Every number that is printed fits its buffer and reads back as the same, for
\* any size of words and a buffer with room for the digits of an int.
THEOREM ConversionsAreInverse == NumbersSpec => []ConversionsCorrect
<1>1. NumbersInv => ConversionsCorrect
    BY NumbersFit DEF NumbersInv, ConversionsCorrect
<1>2. QED
    BY <1>1, NumbersStart, NumbersStep, PTL DEF NumbersSpec

-----------------------------------------------------------------------------
(***************************************************************************)
(* Theorem of Printf: each text is printed as it is meant, in chunks of    *)
(* the promised size, for any processes that print, any formats and every  *)
(* size of the buffer.                                                     *)
(*                                                                         *)
(* The inductive invariant is that some pieces are left of each format:    *)
(* they are what fmt and va still hold, and what they print is what is     *)
(* still missing of the text. A format has so many pieces that the proof   *)
(* needs to know of a text only what happens when a piece is taken from    *)
(* its front or a chunk added at its end.                                  *)
(***************************************************************************)

\* f[k] is the first k texts, one after the other.
Joins(f, s, S) ==
    /\ f \in [0 .. Len(s) -> Seq(S)] /\ f[0] = <<>>
    /\ \A k \in 0 .. Len(s) - 1 : f[k + 1] = f[k] \o s[k + 1]

\* Joined() is the last value of such a function.
LEMMA JoinedIs ==
    ASSUME NEW S, NEW s \in Seq(Seq(S))
    PROVE  \E f : Joins(f, s, S) /\ Joined(s) = f[Len(s)]
<1> DEFINE N == Len(s)
           F == [k \in Nat |-> [v \in Seq(S) |-> IF k + 1 \in 1 .. N THEN v \o s[k + 1] ELSE v]]
<1>1. N \in Nat /\ <<>> \in Seq(S) /\ \A k \in 1 .. N : s[k] \in Seq(S)
    OBVIOUS
<1>2. F \in [Nat -> [Seq(S) -> Seq(S)]]
    <2>1. ASSUME NEW k \in Nat, NEW v \in Seq(S)
          PROVE  (IF k + 1 \in 1 .. N THEN v \o s[k + 1] ELSE v) \in Seq(S)
        <3> HIDE DEF N
        <3>1. CASE k + 1 \in 1 .. N
            BY <1>1, <3>1, ConcatProperties
        <3>2. QED
            BY <3>1
    <2>2. QED
        BY <2>1
<1>3. PICK g : Follows(g, Seq(S), <<>>, F)
    <2> HIDE DEF F
    <2> QED BY <1>1, <1>2, Recursion
<1> HIDE DEF N
<1>4. /\ g \in [Nat -> Seq(S)] /\ g[0] = <<>>
      /\ \A k \in 0 .. N - 1 : g[k + 1] = g[k] \o s[k + 1]
    <2>1. g \in [Nat -> Seq(S)] /\ g[0] = <<>>
        BY <1>3 DEF Follows
    <2>2. ASSUME NEW k \in 0 .. N - 1
          PROVE  g[k + 1] = g[k] \o s[k + 1]
        <3>1. k \in Nat /\ k + 1 \in 1 .. N /\ g[k] \in Seq(S)
            BY <1>1, <2>1
        <3>2. g[k + 1] = F[k][g[k]]
            BY <1>3, <3>1 DEF Follows
        <3>3. QED
            BY <3>1, <3>2
    <2>3. \A k \in 0 .. N - 1 : g[k + 1] = g[k] \o s[k + 1]
        <3> HIDE DEF F
        <3> QED BY <2>2
    <2>4. QED
        BY <2>1, <2>3
<1> DEFINE Next_(u) == [k \in 0 .. N |-> IF k = 0 THEN <<>> ELSE u[k - 1] \o s[k]]
           f == [k \in 0 .. N |-> g[k]]
           U == CHOOSE u : u = Next_(u)
<1>5. f \in [0 .. N -> Seq(S)] /\ f[0] = <<>> /\ \A k \in 0 .. N - 1 : f[k + 1] = f[k] \o s[k + 1]
    <2>1. \A k \in 0 .. N - 1 : k \in 0 .. N /\ k + 1 \in 0 .. N
        BY <1>1
    <2>2. f \in [0 .. N -> Seq(S)] /\ \A k \in 0 .. N : f[k] = g[k]
        BY <1>1, <1>4
    <2> HIDE DEF f, F, Next_, U
    <2>3. ASSUME NEW k \in 0 .. N - 1
          PROVE  f[k + 1] = f[k] \o s[k + 1]
        <3>1. f[k] = g[k] /\ f[k + 1] = g[k + 1]
            BY <2>1, <2>2
        <3>2. QED
            BY <1>4, <3>1
    <2>4. f[0] = <<>>
        BY <1>1, <1>4, <2>2
    <2>5. QED
        BY <2>2, <2>3, <2>4
<1>6. f = Next_(f)
    <2>1. ASSUME NEW k \in 0 .. N
          PROVE  f[k] = IF k = 0 THEN <<>> ELSE f[k - 1] \o s[k]
        <3> HIDE DEF f
        <3>1. CASE k = 0
            BY <1>5, <3>1
        <3>2. CASE k # 0
            <4>1. k - 1 \in 0 .. N - 1 /\ (k - 1) + 1 = k
                BY <1>1, <3>2
            <4>2. QED
                BY <1>5, <3>2, <4>1
        <3>3. QED
            BY <3>1, <3>2
    <2>2. QED
        BY <2>1
<1>7. U = Next_(U)
    <2> HIDE DEF Next_
    <2> QED BY <1>6, Zenon
<1>8. Joined(s) = U[N]
    BY Zenon DEF Joined, N
<1>9. \A k \in 0 .. N : U[k] = IF k = 0 THEN <<>> ELSE U[k - 1] \o s[k]
    <2> HIDE DEF U
    <2> QED BY <1>7
<1> HIDE DEF U, f
<1>10. \A k \in Nat : k <= N => U[k] = f[k]
    <2> DEFINE Same == {k \in Nat : k <= N => U[k] = f[k]}
    <2>1. 0 \in Same
        BY <1>1, <1>5, <1>9
    <2>2. ASSUME NEW k \in Nat, k \in Same
          PROVE  k + 1 \in Same
        <3>1. SUFFICES ASSUME k + 1 <= N PROVE U[k + 1] = f[k + 1]
            OBVIOUS
        <3>2. k \in 0 .. N - 1 /\ k + 1 \in 0 .. N /\ (k + 1) - 1 = k /\ U[k] = f[k]
            BY <1>1, <2>2, <3>1
        <3>3. k + 1 # 0
            OBVIOUS
        <3>4. U[k + 1] = U[(k + 1) - 1] \o s[k + 1]
            BY <1>9, <3>2, <3>3, Zenon
        <3>5. QED
            BY <1>5, <3>2, <3>4
    <2>3. Nat \subseteq Same
        <3> HIDE DEF Same
        <3> QED BY <2>1, <2>2, Induction
    <2>4. QED
        BY <2>3
<1>11. Joined(s) = f[N]
    BY <1>1, <1>8, <1>10
<1>12. Joins(f, s, S)
    BY <1>5 DEF Joins, N
<1>13. QED
    BY <1>11, <1>12 DEF N

\* What the values of such a function are does not depend on texts after them.
Begins(s, t) == Len(s) <= Len(t) /\ \A k \in 1 .. Len(s) : s[k] = t[k]

LEMMA JoinsSame ==
    ASSUME NEW S, NEW s \in Seq(Seq(S)), NEW t \in Seq(Seq(S)), Begins(s, t),
           NEW f, Joins(f, s, S), NEW g, Joins(g, t, S)
    PROVE  \A k \in 0 .. Len(s) : f[k] = g[k]
<1> DEFINE Same == {k \in Nat : k <= Len(s) => f[k] = g[k]}
<1>0. Len(s) \in Nat /\ Len(t) \in Nat
    OBVIOUS
<1>1. 0 \in Same
    BY DEF Joins
<1>2. ASSUME NEW k \in Nat, k \in Same
      PROVE  k + 1 \in Same
    <2>1. SUFFICES ASSUME k + 1 <= Len(s) PROVE f[k + 1] = g[k + 1]
        OBVIOUS
    <2>2. /\ k \in 0 .. Len(s) - 1 /\ k \in 0 .. Len(t) - 1 /\ k + 1 \in 1 .. Len(s)
          /\ f[k] = g[k]
        BY <1>0, <1>2, <2>1 DEF Begins
    <2>3. f[k + 1] = f[k] \o s[k + 1] /\ g[k + 1] = g[k] \o t[k + 1]
        BY <2>2 DEF Joins
    <2>4. s[k + 1] = t[k + 1]
        BY <2>2 DEF Begins
    <2>5. QED
        BY <2>2, <2>3, <2>4
<1>3. Nat \subseteq Same
    <2> HIDE DEF Same
    <2> QED BY <1>1, <1>2, Induction
<1>4. QED
    BY <1>0, <1>3

LEMMA JoinedTyped ==
    ASSUME NEW S, NEW s \in Seq(Seq(S))
    PROVE  Joined(s) \in Seq(S) /\ (Len(s) = 0 => Joined(s) = <<>>)
<1>1. PICK f : Joins(f, s, S) /\ Joined(s) = f[Len(s)]
    BY JoinedIs
<1>2. Len(s) \in 0 .. Len(s)
    OBVIOUS
<1>3. QED
    BY <1>1, <1>2 DEF Joins

LEMMA JoinedAppend ==
    ASSUME NEW S, NEW s \in Seq(Seq(S)), NEW x \in Seq(S)
    PROVE  Joined(Append(s, x)) = Joined(s) \o x
<1> DEFINE t == Append(s, x)
<1>1. t \in Seq(Seq(S)) /\ Len(t) = Len(s) + 1 /\ Len(s) \in Nat
    OBVIOUS
<1>2. t[Len(s) + 1] = x /\ \A k \in 1 .. Len(s) : s[k] = t[k]
    OBVIOUS
<1> HIDE DEF t
<1>3. PICK f : Joins(f, s, S) /\ Joined(s) = f[Len(s)]
    BY JoinedIs
<1>4. PICK g : Joins(g, t, S) /\ Joined(t) = g[Len(t)]
    BY <1>1, JoinedIs
<1>5. g[Len(s)] = f[Len(s)]
    <2>1. Begins(s, t)
        BY <1>1, <1>2 DEF Begins
    <2>2. \A k \in 0 .. Len(s) : f[k] = g[k]
        BY <1>1, <1>2, <1>3, <1>4, <2>1, JoinsSame
    <2>3. QED
        BY <1>1, <2>2
<1>6. Len(s) \in 0 .. Len(t) - 1
    BY <1>1
<1>7. g[Len(t)] = g[Len(s)] \o t[Len(s) + 1]
    BY <1>1, <1>4, <1>6 DEF Joins
<1>8. QED
    BY <1>2, <1>3, <1>4, <1>5, <1>7 DEF t

Associates(u, v, w) == (u \o v) \o w = u \o (v \o w)

LEMMA ConcatAssociates ==
    ASSUME NEW S, NEW u \in Seq(S), NEW v \in Seq(S), NEW w \in Seq(S)
    PROVE  Associates(u, v, w)
    BY ConcatAssociative DEF Associates

LEMMA JoinedHead ==
    ASSUME NEW S, NEW s \in Seq(Seq(S)), NEW t \in Seq(Seq(S)), Len(t) = Len(s) + 1,
           \A k \in 1 .. Len(s) : t[k + 1] = s[k]
    PROVE  Joined(t) = t[1] \o Joined(s)
<1>1. Len(s) \in Nat /\ 1 \in 1 .. Len(t) /\ t[1] \in Seq(S)
    OBVIOUS
<1>2. PICK f : Joins(f, s, S) /\ Joined(s) = f[Len(s)]
    BY JoinedIs
<1>3. PICK g : Joins(g, t, S) /\ Joined(t) = g[Len(t)]
    BY JoinedIs
<1> DEFINE Same == {k \in Nat : k <= Len(s) => g[k + 1] = t[1] \o f[k]}
<1>4. 0 \in Same
    <2>1. 0 \in 0 .. Len(t) - 1
        BY <1>1
    <2>2. g[0 + 1] = g[0] \o t[0 + 1] /\ g[0] = <<>> /\ f[0] = <<>>
        BY <1>2, <1>3, <2>1 DEF Joins
    <2>3. <<>> \o t[1] = t[1] /\ t[1] \o <<>> = t[1]
        BY <1>1, ConcatEmptySeq
    <2>4. g[0 + 1] = t[1] \o f[0]
        BY <2>2, <2>3
    <2>5. QED
        BY <2>4
<1>5. ASSUME NEW k \in Nat, k \in Same
      PROVE  k + 1 \in Same
    <2>0. k + 1 \in Nat
        OBVIOUS
    <2>1. SUFFICES ASSUME k + 1 <= Len(s)
                   PROVE  g[(k + 1) + 1] = t[1] \o f[k + 1]
        BY <2>0, Zenon
    <2>2. /\ k \in 0 .. Len(s) - 1 /\ k + 1 \in 0 .. Len(t) - 1 /\ k + 1 \in 1 .. Len(s)
          /\ k \in 0 .. Len(s) /\ g[k + 1] = t[1] \o f[k]
        <3>1. Len(s) \in Nat /\ Len(t) = Len(s) + 1
            BY <1>1
        <3>2. /\ k \in 0 .. Len(s) - 1 /\ k + 1 \in 0 .. Len(t) - 1
              /\ k + 1 \in 1 .. Len(s) /\ k \in 0 .. Len(s) /\ k <= Len(s)
            BY <2>1, <3>1
        <3>3. g[k + 1] = t[1] \o f[k]
            BY <1>5, <3>2, Zenon
        <3>4. QED
            BY <3>2, <3>3
    <2>3. /\ g[(k + 1) + 1] = g[k + 1] \o t[(k + 1) + 1]
          /\ f[k + 1] = f[k] \o s[k + 1]
          /\ f[k] \in Seq(S)
        BY <1>2, <1>3, <2>2 DEF Joins
    <2>4. t[(k + 1) + 1] = s[k + 1] /\ s[k + 1] \in Seq(S)
        BY <2>2, ElementOfSeq, Zenon
    <2>5. (t[1] \o f[k]) \o s[k + 1] = t[1] \o (f[k] \o s[k + 1])
        <3>1. Associates(t[1], f[k], s[k + 1])
            BY <1>1, <2>3, <2>4, ConcatAssociates
        <3>2. QED
            BY <3>1, Zenon DEF Associates
    <2>6. QED
        BY <2>2, <2>3, <2>4, <2>5
<1>6. Nat \subseteq Same
    <2> HIDE DEF Same
    <2> QED BY <1>4, <1>5, Induction
<1>7. g[Len(s) + 1] = t[1] \o f[Len(s)]
    BY <1>1, <1>6
<1>8. QED
    BY <1>2, <1>3, <1>7

-----------------------------------------------------------------------------
(* Formats and pieces *)

TextChars == Letters \cup {NUL}

LEMMA PieceFacts ==
    ASSUME NEW x \in Pieces
    PROVE  /\ x.spelling \in Seq(TextChars) /\ x.prints \in Seq(TextChars)
           /\ x.arguments \in Seq(Seq(TextChars))
           /\ \E c \in TextChars :
                 \/ x.spelling = <<c>> /\ x.arguments = <<>> /\ x.prints = <<c>>
                 \/ /\ x.spelling = <<"%", c>> /\ c \notin HasArgument
                    /\ x.arguments = <<>> /\ x.prints = <<c>>
                 \/ /\ x.spelling = <<"%", c>> /\ c \in HasArgument
                    /\ x.arguments = <<x.arguments[1]>>
                    /\ x.prints = Formatted(c, x.arguments[1])
<1>1. IsPiece(x)
    BY PrintfAssumption
<1>2. Letters \subseteq TextChars
    BY DEF TextChars
<1>3. \A s \in Seq(Letters) : s \in Seq(TextChars)
    BY <1>2
<1>4. PICK c \in Letters :
          \/ x.spelling = <<c>> /\ x.arguments = <<>> /\ x.prints = <<c>>
          \/ /\ x.spelling = <<"%", c>> /\ c \notin HasArgument
             /\ x.arguments = <<>> /\ x.prints = <<c>>
          \/ /\ x.spelling = <<"%", c>> /\ c \in HasArgument
             /\ x.arguments[1] \in Seq(Letters) /\ x.arguments = <<x.arguments[1]>>
             /\ x.prints = Formatted(c, x.arguments[1])
    BY <1>1, Zenon DEF IsPiece
<1>5. x.arguments \in Seq(Seq(TextChars))
    <2>1. CASE x.arguments = <<>>
        BY <2>1
    <2>2. CASE x.arguments[1] \in Seq(Letters) /\ x.arguments = <<x.arguments[1]>>
        <3>1. PICK a : a = x.arguments[1]
            OBVIOUS
        <3>2. a \in Seq(TextChars) /\ x.arguments = <<a>>
            BY <1>3, <2>2, <3>1
        <3>3. <<a>> \in Seq(Seq(TextChars))
            BY <3>2
        <3>4. QED
            BY <3>2, <3>3
    <2>3. QED
        BY <1>4, <2>1, <2>2, Zenon
<1>6. x.spelling \in Seq(TextChars) /\ x.prints \in Seq(TextChars)
    BY <1>1, <1>3 DEF IsPiece
<1>7. QED
    BY <1>2, <1>4, <1>5, <1>6

\* What is left of formats to be printed.
Spelling(left) == Joined(Field(left, "spelling"))
Arguments(left) == Joined(Field(left, "arguments"))
Prints(left) == Joined(Field(left, "prints"))

LEMMA FieldFacts ==
    ASSUME NEW left \in Seq(Pieces)
    PROVE  /\ Field(left, "spelling") \in Seq(Seq(TextChars))
           /\ Field(left, "arguments") \in Seq(Seq(Seq(TextChars)))
           /\ Field(left, "prints") \in Seq(Seq(TextChars))
           /\ \A field : Len(Field(left, field)) = Len(left)
           /\ \A field : \A i \in 1 .. Len(left) : Field(left, field)[i] = left[i][field]
<1>1. Len(left) \in Nat /\ \A i \in 1 .. Len(left) : left[i] \in Pieces
    OBVIOUS
<1>2. ASSUME NEW V, NEW field, \A x \in Pieces : x[field] \in V
      PROVE  Field(left, field) \in Seq(V)
    BY <1>1, <1>2 DEF Field
<1>3. \A x \in Pieces : x["spelling"] \in Seq(TextChars) /\ x["prints"] \in Seq(TextChars)
                        /\ x["arguments"] \in Seq(Seq(TextChars))
    BY PieceFacts
<1>4. \A field : Len(Field(left, field)) = Len(left)
                 /\ \A i \in 1 .. Len(left) : Field(left, field)[i] = left[i][field]
    BY <1>1 DEF Field
<1>5. QED
    BY <1>2, <1>3, <1>4

LEMMA LeftTyped ==
    ASSUME NEW left \in Seq(Pieces)
    PROVE  /\ Spelling(left) \in Seq(TextChars) /\ Prints(left) \in Seq(TextChars)
           /\ Arguments(left) \in Seq(Seq(TextChars))
           /\ left = <<>> => Spelling(left) = <<>> /\ Prints(left) = <<>> /\ Arguments(left) = <<>>
<1>1. left = <<>> => Len(left) = 0
    OBVIOUS
<1>2. QED
    BY <1>1, FieldFacts, JoinedTyped DEF Spelling, Prints, Arguments

LEMMA LeftHead ==
    ASSUME NEW left \in Seq(Pieces), left # <<>>
    PROVE  /\ left[1] \in Pieces /\ Tail(left) \in Seq(Pieces)
           /\ Spelling(left) = left[1].spelling \o Spelling(Tail(left))
           /\ Arguments(left) = left[1].arguments \o Arguments(Tail(left))
           /\ Prints(left) = left[1].prints \o Prints(Tail(left))
<1>1. /\ left[1] \in Pieces /\ Tail(left) \in Seq(Pieces) /\ 1 \in 1 .. Len(left)
      /\ Len(left) = Len(Tail(left)) + 1
      /\ \A k \in 1 .. Len(Tail(left)) : k + 1 \in 1 .. Len(left) /\ left[k + 1] = Tail(left)[k]
    OBVIOUS
<1>2. ASSUME NEW field
      PROVE  /\ Len(Field(left, field)) = Len(Field(Tail(left), field)) + 1
             /\ \A k \in 1 .. Len(Field(Tail(left), field)) :
                   Field(left, field)[k + 1] = Field(Tail(left), field)[k]
             /\ Field(left, field)[1] = left[1][field]
    <2>1. Len(Field(left, field)) = Len(left) /\ Len(Field(Tail(left), field)) = Len(Tail(left))
        BY <1>1, FieldFacts
    <2>2. ASSUME NEW k \in 1 .. Len(Tail(left))
          PROVE  Field(left, field)[k + 1] = Field(Tail(left), field)[k]
        <3>1. /\ Field(left, field)[k + 1] = left[k + 1][field]
              /\ Field(Tail(left), field)[k] = Tail(left)[k][field]
            BY <1>1, FieldFacts
        <3>2. QED
            BY <1>1, <3>1
    <2>3. Field(left, field)[1] = left[1][field]
        BY <1>1, FieldFacts
    <2>4. QED
        BY <1>1, <2>1, <2>2, <2>3
<1>3. Spelling(left) = left[1]["spelling"] \o Spelling(Tail(left))
    <2>1. /\ Field(left, "spelling") \in Seq(Seq(TextChars))
          /\ Field(Tail(left), "spelling") \in Seq(Seq(TextChars))
        BY <1>1, FieldFacts
    <2>2. QED
        BY <1>2, <2>1, JoinedHead DEF Spelling
<1>4. Arguments(left) = left[1]["arguments"] \o Arguments(Tail(left))
    <2>1. /\ Field(left, "arguments") \in Seq(Seq(Seq(TextChars)))
          /\ Field(Tail(left), "arguments") \in Seq(Seq(Seq(TextChars)))
        BY <1>1, FieldFacts
    <2>2. QED
        BY <1>2, <2>1, JoinedHead DEF Arguments
<1>5. Prints(left) = left[1]["prints"] \o Prints(Tail(left))
    <2>1. /\ Field(left, "prints") \in Seq(Seq(TextChars))
          /\ Field(Tail(left), "prints") \in Seq(Seq(TextChars))
        BY <1>1, FieldFacts
    <2>2. QED
        BY <1>2, <2>1, JoinedHead DEF Prints
<1>6. QED
    BY <1>1, <1>3, <1>4, <1>5

-----------------------------------------------------------------------------
(* The invariant *)

PrintfTypes ==
    /\ call \in [Writers -> Functions] /\ done \in [Writers -> BOOLEAN]
    /\ fmt \in [Writers -> Seq(TextChars)] /\ va \in [Writers -> Seq(Seq(TextChars))]
    /\ str \in [Writers -> Seq(TextChars)] /\ buf \in [Writers -> Seq(TextChars)]
    /\ meant \in [Writers -> Seq(TextChars)]
    /\ printed \in Seq([by : Writers, chars : Seq(TextChars)])

\* What the buffers hold.
Buffers ==
    \A w \in Writers :
        /\ call[w] = "printf" => Len(buf[w]) <= PRINT_NBUF
        /\ call[w] = "do_print" => buf[w] = <<>>

Sofar(w) == Text(w) \o buf[w]

\* What is left of w's format when some pieces are left to be printed.
Left(w, left) ==
    /\ left \in Seq(Pieces) /\ Proper(left)
    /\ fmt[w] = Spelling(left) /\ va[w] = Arguments(left)
    /\ meant[w] = Sofar(w) \o (str[w] \o Prints(left))

Over(w) ==
    /\ fmt[w] = <<>> /\ va[w] = <<>> /\ str[w] = <<>>
    /\ Sofar(w) = IF call[w] = "sprintf" THEN Append(meant[w], NUL) ELSE meant[w]

Good(w) == IF done[w] THEN Over(w) ELSE \E left : Left(w, left)

PrintfInv == PrintfTypes /\ Buffers /\ FullChunks /\ \A w \in Writers : Good(w)

Texts(w) ==
    [i \in 1 .. Len(printed) |-> IF printed[i].by = w THEN printed[i].chars ELSE <<>>]

LEMMA TextTyped ==
    ASSUME PrintfTypes, NEW w \in Writers
    PROVE  Texts(w) \in Seq(Seq(TextChars)) /\ Text(w) = Joined(Texts(w)) /\ Text(w) \in Seq(TextChars)
<1>1. Texts(w) \in Seq(Seq(TextChars))
    <2>1. <<>> \in Seq(TextChars)
        OBVIOUS
    <2>2. \A i \in 1 .. Len(printed) :
             (IF printed[i].by = w THEN printed[i].chars ELSE <<>>) \in Seq(TextChars)
        <3>1. ASSUME NEW i \in 1 .. Len(printed)
              PROVE  (IF printed[i].by = w THEN printed[i].chars ELSE <<>>) \in Seq(TextChars)
            <4>1. PICK x : x = printed[i]
                OBVIOUS
            <4>2. x \in [by : Writers, chars : Seq(TextChars)]
                BY <4>1, ElementOfSeq DEF PrintfTypes
            <4>3. x.chars \in Seq(TextChars)
                BY <4>2
            <4>4. QED
                BY <2>1, <4>1, <4>3, Zenon
        <3>2. QED
            BY <3>1
    <2>3. Len(printed) \in Nat
        BY DEF PrintfTypes
    <2>4. QED
        BY <2>2, <2>3 DEF Texts
<1>2. Text(w) = Joined(Texts(w))
    BY DEF Text, Texts
<1>3. QED
    BY <1>1, <1>2, JoinedTyped

\* A chunk is added to the text of its writer.
LEMMA GiveAdds ==
    ASSUME PrintfTypes, NEW w \in Writers, NEW chars \in Seq(TextChars), Give(w, chars)
    PROVE  /\ printed' \in Seq([by : Writers, chars : Seq(TextChars)])
           /\ \A v \in Writers : Text(v)' = IF v = w THEN Text(v) \o chars ELSE Text(v)
<1>1. /\ printed \in Seq([by : Writers, chars : Seq(TextChars)])
      /\ printed' = Append(printed, [by |-> w, chars |-> chars])
    BY DEF PrintfTypes, Give
<1>2. [by |-> w, chars |-> chars] \in [by : Writers, chars : Seq(TextChars)]
    OBVIOUS
<1>3. /\ Len(printed') = Len(printed) + 1 /\ Len(printed) \in Nat
      /\ printed'[Len(printed) + 1] = [by |-> w, chars |-> chars]
      /\ \A i \in 1 .. Len(printed) : printed'[i] = printed[i]
    BY <1>1, <1>2
<1>4. ASSUME NEW v \in Writers
      PROVE  Text(v)' = IF v = w THEN Text(v) \o chars ELSE Text(v)
    <2>1. PICK x : x = IF v = w THEN chars ELSE <<>>
        OBVIOUS
    <2>2. x \in Seq(TextChars)
        BY <2>1
    <2>3. PICK s, t : s = Texts(v) /\ t = Texts(v)'
        OBVIOUS
    <2>4. s \in Seq(Seq(TextChars)) /\ Text(v) = Joined(s) /\ Text(v) \in Seq(TextChars)
        BY <2>3, TextTyped
    <2>5. t = Append(s, x)
        <3>1. /\ s = [i \in 1 .. Len(printed) |->
                        IF printed[i].by = v THEN printed[i].chars ELSE <<>>]
              /\ t = [i \in 1 .. Len(printed) + 1 |->
                        IF printed'[i].by = v THEN printed'[i].chars ELSE <<>>]
            BY <1>3, <2>3 DEF Texts
        <3>2. Len(s) = Len(printed)
            BY <1>3, <3>1
        <3>3. t[Len(printed) + 1] = x
            BY <1>3, <2>1, <3>1
        <3>4. \A i \in 1 .. Len(printed) : t[i] = s[i]
            BY <1>3, <3>1
        <3>5. /\ Append(s, x) \in Seq(Seq(TextChars)) /\ Len(Append(s, x)) = Len(s) + 1
              /\ \A i \in 1 .. Len(s) : Append(s, x)[i] = s[i]
              /\ Append(s, x)[Len(s) + 1] = x
            BY <2>2, <2>4, AppendProperties
        <3>6. t \in Seq(Seq(TextChars)) /\ Len(t) = Len(printed) + 1
            <4>1. \A i \in 1 .. Len(printed) : t[i] \in Seq(TextChars)
                BY <2>4, <3>2, <3>4, ElementOfSeq
            <4>2. \A i \in 1 .. Len(printed) + 1 :
                     i \in 1 .. Len(printed) \/ i = Len(printed) + 1
                BY <1>3
            <4>3. \A i \in 1 .. Len(printed) + 1 : t[i] \in Seq(TextChars)
                BY <2>2, <3>3, <4>1, <4>2
            <4>4. QED
                BY <1>3, <3>1, <4>3
        <3>7. \A i \in 1 .. Len(t) : t[i] = Append(s, x)[i]
            <4>1. \A i \in 1 .. Len(t) : i \in 1 .. Len(printed) \/ i = Len(printed) + 1
                BY <1>3, <3>6
            <4>2. \A i \in 1 .. Len(printed) : t[i] = Append(s, x)[i]
                BY <3>2, <3>4, <3>5, Zenon
            <4>3. t[Len(printed) + 1] = Append(s, x)[Len(printed) + 1]
                BY <3>2, <3>3, <3>5, Zenon
            <4>4. QED
                BY <4>1, <4>2, <4>3, Zenon
        <3>8. QED
            BY <3>2, <3>5, <3>6, <3>7, SeqEqual
    <2>6. Text(v)' = Joined(t)
        BY <2>3 DEF Text, Texts
    <2>7. Joined(t) = Joined(s) \o x
        BY <2>2, <2>4, <2>5, JoinedAppend
    <2>8. Text(v) \o <<>> = Text(v)
        BY <2>4, ConcatEmptySeq
    <2>9. QED
        BY <2>1, <2>4, <2>6, <2>7, <2>8, Zenon
<1>5. QED
    BY <1>1, <1>2, <1>4


-----------------------------------------------------------------------------
(* putc *)

\* A chunk of printf's is not empty, and it is the last of its call when short.
Chunk(i) ==
    call[printed[i].by] = "printf" =>
        /\ Len(printed[i].chars) \in 1 .. PRINT_NBUF
        /\ Len(printed[i].chars) < PRINT_NBUF =>
              /\ done[printed[i].by]
              /\ \A j \in i + 1 .. Len(printed) : printed[j].by # printed[i].by

LEMMA PrintedBy ==
    ASSUME PrintfTypes, NEW i \in 1 .. Len(printed)
    PROVE  printed[i].by \in Writers
<1>1. PICK x : x = printed[i]
    OBVIOUS
<1>2. x \in [by : Writers, chars : Seq(TextChars)]
    BY <1>1, ElementOfSeq DEF PrintfTypes
<1>3. x.by \in Writers
    BY <1>2
<1>4. QED
    BY <1>1, <1>3, Zenon

LEMMA GiveKeepsChunks ==
    ASSUME PrintfTypes, FullChunks, NEW w \in Writers, ~done[w],
           NEW chars \in Seq(TextChars), Give(w, chars), call' = call,
           \A v \in Writers : done[v] => done'[v],
           call[w] = "printf" =>
               /\ Len(chars) \in 1 .. PRINT_NBUF
               /\ Len(chars) < PRINT_NBUF => done'[w]
    PROVE  FullChunks'
<1>1. \A i \in 1 .. Len(printed) : Chunk(i)
    BY DEF FullChunks, Chunk
<1>2. /\ printed \in Seq([by : Writers, chars : Seq(TextChars)]) /\ Len(printed) \in Nat
      /\ printed' = Append(printed, [by |-> w, chars |-> chars])
    BY DEF PrintfTypes, Give
<1>3. [by |-> w, chars |-> chars] \in [by : Writers, chars : Seq(TextChars)]
    OBVIOUS
<1>4. /\ Len(printed') = Len(printed) + 1
      /\ printed'[Len(printed) + 1] = [by |-> w, chars |-> chars]
      /\ \A i \in 1 .. Len(printed) : printed'[i] = printed[i]
    BY <1>2, <1>3, AppendProperties
<1>5. \A i \in 1 .. Len(printed) : printed[i].by \in Writers
    BY PrintedBy
<1>6. ASSUME NEW i \in 1 .. Len(printed)
      PROVE  Chunk(i)'
    <2>1. SUFFICES ASSUME call[printed[i].by] = "printf"
                   PROVE  /\ Len(printed[i].chars) \in 1 .. PRINT_NBUF
                          /\ Len(printed[i].chars) < PRINT_NBUF =>
                                /\ done'[printed[i].by]
                                /\ \A j \in i + 1 .. Len(printed') :
                                      printed'[j].by # printed[i].by
        <3>1. printed'[i] = printed[i]
            BY <1>4
        <3>2. QED
            BY <3>1, Zenon DEF Chunk
    <2>2. /\ Len(printed[i].chars) \in 1 .. PRINT_NBUF
          /\ Len(printed[i].chars) < PRINT_NBUF =>
                /\ done[printed[i].by]
                /\ \A j \in i + 1 .. Len(printed) : printed[j].by # printed[i].by
        BY <1>1, <2>1 DEF Chunk
    <2>3. ASSUME Len(printed[i].chars) < PRINT_NBUF,
                 NEW j \in i + 1 .. Len(printed')
          PROVE  printed'[j].by # printed[i].by
        <3>1. CASE j \in i + 1 .. Len(printed)
            <4>1. j \in 1 .. Len(printed)
                BY <1>2, <3>1
            <4>2. QED
                BY <1>4, <2>2, <2>3, <3>1, <4>1
        <3>2. CASE j = Len(printed) + 1
            <4>1. printed'[j].by = w
                BY <1>4, <3>2
            <4>2. printed[i].by # w
                BY <2>2, <2>3
            <4>3. QED
                BY <4>1, <4>2
        <3>3. QED
            <4>1. j \in i + 1 .. Len(printed) + 1 /\ Len(printed) \in Nat /\ i \in Nat
                BY <1>2, <1>4
            <4>2. j \in i + 1 .. Len(printed) \/ j = Len(printed) + 1
                BY <4>1
            <4>3. QED
                BY <3>1, <3>2, <4>2
    <2>4. QED
        BY <1>5, <2>2, <2>3
<1>7. PICK last : last = Len(printed) + 1
    OBVIOUS
<1>8. Chunk(last)'
    <2>1. last \in Nat /\ Len(printed') = last /\ printed'[last].by = w /\ printed'[last].chars = chars
        BY <1>2, <1>4, <1>7
    <2>2. \A j \in last + 1 .. Len(printed') : FALSE
        BY <2>1
    <2>3. QED
        BY <2>1, <2>2, Zenon DEF Chunk
<1>9. \A i \in 1 .. Len(printed') : Chunk(i)'
    <2>1. \A i \in 1 .. Len(printed') : i \in 1 .. Len(printed) \/ i = last
        BY <1>2, <1>4, <1>7
    <2>2. QED
        BY <1>6, <1>8, <2>1
<1>10. QED
    BY <1>9, Zenon DEF FullChunks, Chunk

LEMMA SilenceKeepsChunks ==
    ASSUME PrintfTypes, FullChunks, UNCHANGED <<call, printed>>,
           \A v \in Writers : done[v] => done'[v]
    PROVE  FullChunks' /\ \A v : Text(v)' = Text(v)
<1>1. \A i \in 1 .. Len(printed) : Chunk(i)
    BY DEF FullChunks, Chunk
<1>2. \A i \in 1 .. Len(printed) : printed[i].by \in Writers
    BY PrintedBy
<1>3. \A i \in 1 .. Len(printed) : Chunk(i)'
    BY <1>1, <1>2, Zenon DEF Chunk
<1>4. \A i \in 1 .. Len(printed') : Chunk(i)'
    BY <1>3
<1>5. FullChunks'
    BY <1>4, Zenon DEF FullChunks, Chunk
<1>6. QED
    BY <1>5 DEF Text

\* A character handed over is printed or waits in the buffer, after all others.
LEMMA PutcAdds ==
    ASSUME PrintfTypes, Buffers, FullChunks, NEW w \in Writers, NEW c \in TextChars,
           ~done[w], putc(w, c), UNCHANGED <<call, done>>
    PROVE  /\ printed' \in Seq([by : Writers, chars : Seq(TextChars)])
           /\ buf' \in [Writers -> Seq(TextChars)]
           /\ Buffers' /\ FullChunks'
           /\ \A v \in Writers : Sofar(v)' = IF v = w THEN Sofar(v) \o <<c>> ELSE Sofar(v)
<1>1. /\ buf \in [Writers -> Seq(TextChars)] /\ call[w] \in Functions
      /\ printed \in Seq([by : Writers, chars : Seq(TextChars)])
    BY DEF PrintfTypes
<1>2. <<c>> \in Seq(TextChars) /\ <<>> \in Seq(TextChars) /\ Len(<<c>>) = 1
    OBVIOUS
<1>3. PRINT_NBUF \in Nat \ {0}
    BY PrintfAssumption
<1>4. \A v \in Writers : Text(v) \in Seq(TextChars) /\ buf[v] \in Seq(TextChars)
    BY <1>1, TextTyped
<1>5. ASSUME buf' = [buf EXCEPT ![w] = Append(@, c)], UNCHANGED printed,
             call[w] = "sprintf" \/ (call[w] = "printf" /\ Len(buf[w]) < PRINT_NBUF)
      PROVE  /\ buf' \in [Writers -> Seq(TextChars)] /\ Buffers' /\ FullChunks'
             /\ \A v \in Writers : Sofar(v)' = IF v = w THEN Sofar(v) \o <<c>> ELSE Sofar(v)
    <2>1. /\ Append(buf[w], c) \in Seq(TextChars) /\ Append(buf[w], c) = buf[w] \o <<c>>
          /\ Len(Append(buf[w], c)) = Len(buf[w]) + 1
        BY <1>4, AppendProperties, AppendIsConcat
    <2>2. buf' \in [Writers -> Seq(TextChars)]
        BY <1>1, <1>5, <2>1
    <2>3. \A v \in Writers : buf'[v] = IF v = w THEN Append(buf[w], c) ELSE buf[v]
        BY <1>1, <1>5
    <2>4. Buffers'
        <3>1. ASSUME NEW v \in Writers
              PROVE  /\ call[v] = "printf" => Len(buf'[v]) <= PRINT_NBUF
                     /\ call[v] = "do_print" => buf'[v] = <<>>
            <4>1. CASE v = w
                <5>1. Len(buf[w]) \in Nat
                    BY <1>4
                <5>2. call[w] # "do_print"
                    BY <1>5
                <5>3. call[w] = "printf" => Len(buf[w]) + 1 <= PRINT_NBUF
                    BY <1>3, <1>5, <5>1
                <5>4. QED
                    BY <2>1, <2>3, <4>1, <5>2, <5>3
            <4>2. CASE v # w
                BY <2>3, <4>2 DEF Buffers
            <4>3. QED
                BY <4>1, <4>2
        <3>2. QED
            BY <3>1 DEF Buffers
    <2>5. FullChunks' /\ \A v : Text(v)' = Text(v)
        BY <1>5, SilenceKeepsChunks
    <2>6. ASSUME NEW v \in Writers
          PROVE  Sofar(v)' = IF v = w THEN Sofar(v) \o <<c>> ELSE Sofar(v)
        <3>1. Sofar(v)' = Text(v) \o buf'[v]
            BY <2>5, Zenon DEF Sofar
        <3>2. CASE v = w
            <4>1. Associates(Text(w), buf[w], <<c>>)
                BY <1>2, <1>4, ConcatAssociates
            <4>2. buf'[w] = buf[w] \o <<c>>
                BY <2>1, <2>3
            <4>3. QED
                BY <3>1, <3>2, <4>1, <4>2, Zenon DEF Associates, Sofar
        <3>3. CASE v # w
            <4>1. buf'[v] = buf[v]
                BY <2>3, <3>3
            <4>2. QED
                BY <3>1, <3>3, <4>1, Zenon DEF Sofar
        <3>4. QED
            BY <3>2, <3>3
    <2>7. QED
        BY <2>2, <2>4, <2>5, <2>6
<1>6. ASSUME NEW chars \in Seq(TextChars), NEW kept \in Seq(TextChars),
             Give(w, chars), buf' = [buf EXCEPT ![w] = kept],
             chars \o kept = buf[w] \o <<c>>,
             call[w] = "printf" => Len(chars) = PRINT_NBUF /\ Len(kept) <= PRINT_NBUF,
             call[w] = "do_print" => kept = <<>>
      PROVE  /\ printed' \in Seq([by : Writers, chars : Seq(TextChars)])
             /\ buf' \in [Writers -> Seq(TextChars)] /\ Buffers' /\ FullChunks'
             /\ \A v \in Writers : Sofar(v)' = IF v = w THEN Sofar(v) \o <<c>> ELSE Sofar(v)
    <2>1. /\ buf' \in [Writers -> Seq(TextChars)]
          /\ \A v \in Writers : buf'[v] = IF v = w THEN kept ELSE buf[v]
        BY <1>1, <1>6
    <2>2. Buffers'
        BY <1>6, <2>1 DEF Buffers
    <2>3. FullChunks'
        BY <1>3, <1>6, GiveKeepsChunks
    <2>4. /\ printed' \in Seq([by : Writers, chars : Seq(TextChars)])
          /\ \A v \in Writers : Text(v)' = IF v = w THEN Text(v) \o chars ELSE Text(v)
        BY <1>6, GiveAdds
    <2>5. ASSUME NEW v \in Writers
          PROVE  Sofar(v)' = IF v = w THEN Sofar(v) \o <<c>> ELSE Sofar(v)
        <3>1. Sofar(v)' = Text(v)' \o buf'[v]
            BY Zenon DEF Sofar
        <3>2. CASE v = w
            <4>1. Text(v)' = Text(w) \o chars /\ buf'[v] = kept
                BY <2>1, <2>4, <3>2
            <4>2. Associates(Text(w), chars, kept) /\ Associates(Text(w), buf[w], <<c>>)
                BY <1>2, <1>4, <1>6, ConcatAssociates
            <4>3. Sofar(v)' = Text(w) \o (buf[w] \o <<c>>)
                BY <1>6, <3>1, <4>1, <4>2, Zenon DEF Associates
            <4>4. QED
                BY <3>2, <4>2, <4>3, Zenon DEF Associates, Sofar
        <3>3. CASE v # w
            <4>1. Text(v)' = Text(v) /\ buf'[v] = buf[v]
                BY <2>1, <2>4, <3>3
            <4>2. QED
                BY <3>1, <3>3, <4>1, Zenon DEF Sofar
        <3>4. QED
            BY <3>2, <3>3
    <2>6. QED
        BY <2>1, <2>2, <2>3, <2>4, <2>5
<1>7. CASE call[w] = "printf"
    <2>1. f_bufferc(w, c)
        BY <1>7 DEF putc
    <2>2. Len(buf[w]) \in Nat /\ Len(buf[w]) <= PRINT_NBUF
        BY <1>4, <1>7 DEF Buffers
    <2>3. CASE Len(buf[w]) = PRINT_NBUF
        <3>1. Give(w, buf[w]) /\ buf' = [buf EXCEPT ![w] = <<c>>]
            BY <2>1, <2>3 DEF f_bufferc
        <3>2. Len(<<c>>) <= PRINT_NBUF
            BY <1>2, <1>3
        <3>3. QED
            BY <1>2, <1>4, <1>6, <1>7, <2>3, <3>1, <3>2
    <2>4. CASE Len(buf[w]) # PRINT_NBUF
        <3>1. buf' = [buf EXCEPT ![w] = Append(@, c)] /\ UNCHANGED printed
            BY <2>1, <2>4 DEF f_bufferc
        <3>2. Len(buf[w]) < PRINT_NBUF
            BY <1>3, <2>2, <2>4
        <3>3. QED
            BY <1>1, <1>5, <1>7, <3>1, <3>2
    <2>5. QED
        BY <2>3, <2>4
<1>8. CASE call[w] = "sprintf"
    <2>1. f_storec(w, c)
        BY <1>8 DEF putc
    <2>2. QED
        BY <1>1, <1>5, <1>8, <2>1 DEF f_storec
<1>9. CASE call[w] = "do_print"
    <2>1. Give(w, <<c>>) /\ UNCHANGED buf
        BY <1>9 DEF putc, f_printc
    <2>2. buf[w] = <<>> /\ buf' = [buf EXCEPT ![w] = <<>>]
        BY <1>1, <1>9, <2>1 DEF Buffers
    <2>3. <<c>> \o <<>> = <<c>> /\ <<>> \o <<c>> = <<c>>
        BY <1>2, ConcatEmptySeq
    <2>4. QED
        BY <1>2, <1>6, <1>9, <2>1, <2>2, <2>3
<1>10. QED
    BY <1>1, <1>7, <1>8, <1>9 DEF Functions

-----------------------------------------------------------------------------
(* Concatenations *)

LEMMA StartsWithOne ==
    ASSUME NEW S, NEW a \in S, NEW s \in Seq(S)
    PROVE  /\ Len(<<a>> \o s) = Len(s) + 1 /\ (<<a>> \o s)[1] = a
           /\ Tail(<<a>> \o s) = s /\ <<a>> \o s # <<>>
    OBVIOUS

LEMMA StartsWithTwo ==
    ASSUME NEW S, NEW a \in S, NEW b \in S, NEW s \in Seq(S)
    PROVE  /\ Len(<<a, b>> \o s) = Len(s) + 2
           /\ (<<a, b>> \o s)[1] = a /\ (<<a, b>> \o s)[2] = b
           /\ SubSeq(<<a, b>> \o s, 3, Len(<<a, b>> \o s)) = s
<1>1. /\ <<a, b>> \in Seq(S) /\ Len(<<a, b>>) = 2 /\ <<a, b>>[1] = a /\ <<a, b>>[2] = b
      /\ Len(s) \in Nat
    OBVIOUS
<1>2. PICK t : t = <<a, b>> \o s
    OBVIOUS
<1>3. /\ t \in Seq(S) /\ Len(t) = Len(s) + 2
      /\ \A i \in 1 .. Len(s) + 2 : t[i] = IF i <= 2 THEN <<a, b>>[i] ELSE s[i - 2]
    BY <1>1, <1>2, ConcatProperties
<1>4. t[1] = a /\ t[2] = b
    BY <1>1, <1>3
<1>5. \A i \in 3 .. Len(t) : t[i] \in S
    BY <1>1, <1>3, ElementOfSeq
<1>6. /\ SubSeq(t, 3, Len(t)) \in Seq(S) /\ Len(SubSeq(t, 3, Len(t))) = Len(s)
      /\ \A i \in 1 .. Len(s) : SubSeq(t, 3, Len(t))[i] = s[i]
    <2>1. /\ SubSeq(t, 3, Len(t)) \in Seq(S)
          /\ Len(SubSeq(t, 3, Len(t))) = IF 3 <= Len(t) THEN Len(t) - 3 + 1 ELSE 0
          /\ \A i \in 1 .. Len(t) - 3 + 1 : SubSeq(t, 3, Len(t))[i] = t[3 + i - 1]
        <3>1. 3 \in Int /\ Len(t) \in Int
            BY <1>1, <1>3
        <3>2. QED
            BY <1>5, <3>1, SubSeqProperties
    <2>2. \A i \in 1 .. Len(s) : t[3 + i - 1] = s[i]
        BY <1>1, <1>3
    <2>3. QED
        BY <1>1, <1>3, <2>1, <2>2
<1>7. SubSeq(t, 3, Len(t)) = s
    <2>1. PICK r : r = SubSeq(t, 3, Len(t))
        OBVIOUS
    <2>2. r \in Seq(S) /\ Len(r) = Len(s) /\ \A i \in 1 .. Len(r) : r[i] = s[i]
        BY <1>6, <2>1, Zenon
    <2>3. r = s
        BY <2>2, SeqEqual
    <2>4. QED
        BY <2>1, <2>3
<1>8. QED
    BY <1>2, <1>3, <1>4, <1>7

Moved(u, c, v, more) == u \o ((c \o v) \o more) = (u \o c) \o (v \o more)

LEMMA Moves ==
    ASSUME NEW S, NEW u \in Seq(S), NEW c \in Seq(S), NEW v \in Seq(S), NEW more \in Seq(S)
    PROVE  Moved(u, c, v, more)
<1>1. (c \o v) \o more = c \o (v \o more)
    <2>1. Associates(c, v, more)
        BY ConcatAssociates
    <2>2. QED
        BY <2>1, Zenon DEF Associates
<1>2. v \o more \in Seq(S)
    BY ConcatProperties
<1>3. PICK q : q = v \o more
    OBVIOUS
<1>4. (u \o c) \o q = u \o (c \o q)
    <2>1. Associates(u, c, q)
        BY <1>2, <1>3, ConcatAssociates
    <2>2. QED
        BY <2>1, Zenon DEF Associates
<1>5. QED
    BY <1>1, <1>3, <1>4, Zenon DEF Moved

-----------------------------------------------------------------------------
(* Formats that are left *)

LEMMA SofarTyped ==
    ASSUME PrintfTypes, NEW w \in Writers
    PROVE  Sofar(w) \in Seq(TextChars) /\ Text(w) \in Seq(TextChars) /\ buf[w] \in Seq(TextChars)
<1>1. Text(w) \in Seq(TextChars) /\ buf[w] \in Seq(TextChars)
    BY TextTyped DEF PrintfTypes
<1>2. Text(w) \o buf[w] \in Seq(TextChars)
    BY <1>1, ConcatProperties
<1>3. QED
    BY <1>1, <1>2, Zenon DEF Sofar

LEMMA ProperTail ==
    ASSUME NEW left \in Seq(Pieces), left # <<>>, Proper(left)
    PROVE  /\ Proper(Tail(left))
           /\ left[1].spelling = <<"%">> => Tail(left) = <<>>
<1>1. /\ Len(left) \in Nat \ {0} /\ Tail(left) \in Seq(Pieces) /\ Len(Tail(left)) = Len(left) - 1
      /\ \A i \in 1 .. Len(left) - 1 : Tail(left)[i] = left[i + 1]
      /\ DOMAIN left = 1 .. Len(left) /\ DOMAIN Tail(left) = 1 .. Len(left) - 1
    OBVIOUS
<1>2. \A i \in 1 .. Len(left) : left[i].spelling = <<"%">> => i = Len(left)
    BY <1>1, Zenon DEF Proper
<1>3. ASSUME NEW i \in 1 .. Len(left) - 1, Tail(left)[i].spelling = <<"%">>
      PROVE  i = Len(Tail(left))
    <2>1. i + 1 \in 1 .. Len(left) /\ left[i + 1].spelling = <<"%">>
        BY <1>1, <1>3
    <2>2. i + 1 = Len(left)
        BY <1>2, <2>1
    <2>3. Len(left) \in Nat /\ Len(Tail(left)) = Len(left) - 1 /\ i \in Nat
        BY <1>1
    <2>4. QED
        BY <2>2, <2>3
<1>4. Proper(Tail(left))
    BY <1>1, <1>3, Zenon DEF Proper
<1>5. ASSUME left[1].spelling = <<"%">>
      PROVE  Tail(left) = <<>>
    <2>1. 1 \in 1 .. Len(left)
        BY <1>1
    <2>2. Len(left) = 1
        BY <1>2, <1>5, <2>1
    <2>3. Len(Tail(left)) = 0
        BY <1>1, <2>2
    <2>4. QED
        BY <1>1, <2>3, EmptySeq
<1>6. QED
    BY <1>4, <1>5

\* How a format with a piece left begins.
LEMMA NextPiece ==
    ASSUME NEW left \in Seq(Pieces), left # <<>>, Proper(left)
    PROVE  LET after == Tail(left)
           IN /\ after \in Seq(Pieces) /\ Proper(after)
              /\ Spelling(left) # <<>>
              /\ \E c \in TextChars :
                    \/ /\ Spelling(left) = <<c>> \o Spelling(after)
                       /\ Arguments(left) = Arguments(after)
                       /\ Prints(left) = <<c>> \o Prints(after)
                       /\ c = "%" => Spelling(after) = <<>>
                    \/ /\ Spelling(left) = <<"%", c>> \o Spelling(after)
                       /\ c \notin HasArgument
                       /\ Arguments(left) = Arguments(after)
                       /\ Prints(left) = <<c>> \o Prints(after)
                    \/ /\ Spelling(left) = <<"%", c>> \o Spelling(after)
                       /\ c \in HasArgument
                       /\ \E a \in Seq(TextChars) :
                             /\ Arguments(left) = <<a>> \o Arguments(after)
                             /\ Formatted(c, a) \in Seq(TextChars)
                             /\ Prints(left) = Formatted(c, a) \o Prints(after)
<1> DEFINE x == left[1]
           after == Tail(left)
<1>1. /\ x \in Pieces /\ after \in Seq(Pieces)
      /\ Spelling(left) = x.spelling \o Spelling(after)
      /\ Arguments(left) = x.arguments \o Arguments(after)
      /\ Prints(left) = x.prints \o Prints(after)
    BY LeftHead
<1>2. Proper(after) /\ (x.spelling = <<"%">> => after = <<>>)
    BY ProperTail
<1>3. /\ Spelling(after) \in Seq(TextChars) /\ Prints(after) \in Seq(TextChars)
      /\ Arguments(after) \in Seq(Seq(TextChars))
      /\ after = <<>> => Spelling(after) = <<>>
    BY <1>1, LeftTyped
<1>4. x.prints \in Seq(TextChars) /\ x.arguments \in Seq(Seq(TextChars))
    BY <1>1, PieceFacts
<1>5. PICK c \in TextChars :
         \/ x.spelling = <<c>> /\ x.arguments = <<>> /\ x.prints = <<c>>
         \/ /\ x.spelling = <<"%", c>> /\ c \notin HasArgument
            /\ x.arguments = <<>> /\ x.prints = <<c>>
         \/ /\ x.spelling = <<"%", c>> /\ c \in HasArgument
            /\ x.arguments = <<x.arguments[1]>>
            /\ x.prints = Formatted(c, x.arguments[1])
    BY <1>1, PieceFacts
<1>6. "%" \in TextChars
    BY DEF TextChars, Letters
<1>7. <<>> \o Arguments(after) = Arguments(after)
    BY <1>3, ConcatEmptySeq
<1> HIDE DEF x, after
<1>8. Spelling(left) # <<>>
    <2>1. x.spelling = <<c>> \/ x.spelling = <<"%", c>>
        BY <1>5, Zenon
    <2>2. CASE x.spelling = <<c>>
        BY <1>1, <1>3, <2>2, StartsWithOne
    <2>3. CASE x.spelling = <<"%", c>>
        <3>1. Len(<<"%", c>> \o Spelling(after)) = Len(Spelling(after)) + 2
            BY <1>3, <1>6, StartsWithTwo
        <3>2. QED
            BY <1>1, <1>3, <2>3, <3>1
    <2>4. QED
        BY <2>1, <2>2, <2>3
<1>9. CASE x.spelling = <<c>> /\ x.arguments = <<>> /\ x.prints = <<c>>
    <2>1. /\ Spelling(left) = <<c>> \o Spelling(after)
          /\ Arguments(left) = Arguments(after)
          /\ Prints(left) = <<c>> \o Prints(after)
        BY <1>1, <1>7, <1>9, Zenon
    <2>2. c = "%" => Spelling(after) = <<>>
        BY <1>2, <1>3, <1>9, Zenon
    <2>3. QED
        BY <1>1, <1>2, <1>8, <2>1, <2>2, Zenon DEF after
<1>10. CASE /\ x.spelling = <<"%", c>> /\ c \notin HasArgument
            /\ x.arguments = <<>> /\ x.prints = <<c>>
    <2>1. /\ Spelling(left) = <<"%", c>> \o Spelling(after)
          /\ Arguments(left) = Arguments(after)
          /\ Prints(left) = <<c>> \o Prints(after)
        BY <1>1, <1>7, <1>10, Zenon
    <2>2. QED
        BY <1>1, <1>2, <1>8, <1>10, <2>1, Zenon DEF after
<1>11. CASE /\ x.spelling = <<"%", c>> /\ c \in HasArgument
            /\ x.arguments = <<x.arguments[1]>>
            /\ x.prints = Formatted(c, x.arguments[1])
    <2>1. PICK a : a = x.arguments[1]
        OBVIOUS
    <2>2. x.arguments = <<a>> /\ x.prints = Formatted(c, a)
        BY <1>11, <2>1, Zenon
    <2>3. a \in Seq(TextChars)
        <3>1. <<a>> \in Seq(Seq(TextChars)) /\ <<a>>[1] = a /\ 1 \in 1 .. Len(<<a>>)
            BY <1>4, <2>2
        <3>2. QED
            BY <3>1, ElementOfSeq
    <2>4. /\ Spelling(left) = <<"%", c>> \o Spelling(after)
          /\ Arguments(left) = <<a>> \o Arguments(after)
          /\ Formatted(c, a) \in Seq(TextChars)
          /\ Prints(left) = Formatted(c, a) \o Prints(after)
        BY <1>1, <1>4, <1>11, <2>2, Zenon
    <2>5. QED
        BY <1>1, <1>2, <1>8, <1>11, <2>3, <2>4, Zenon DEF after
<1>12. QED
    BY <1>5, <1>9, <1>10, <1>11, Zenon

-----------------------------------------------------------------------------
(* The invariant is kept *)

\* What w does is nothing to another writer.
LEMMA OthersKept ==
    ASSUME NEW v, Good(v), fmt'[v] = fmt[v], va'[v] = va[v], str'[v] = str[v],
           done'[v] = done[v], call' = call, meant' = meant, Sofar(v)' = Sofar(v)
    PROVE  Good(v)'
<1>1. CASE done[v]
    <2>1. Over(v)'
        BY <1>1, Zenon DEF Good, Over
    <2>2. QED
        BY <1>1, <2>1, Zenon DEF Good
<1>2. CASE ~done[v]
    <2>1. PICK left : Left(v, left)
        BY <1>2, Zenon DEF Good
    <2>2. Left(v, left)'
        BY <2>1, Zenon DEF Left
    <2>3. QED
        BY <1>2, <2>2, Zenon DEF Good
<1>3. QED
    BY <1>1, <1>2

LEMMA do_stringKeeps ==
    ASSUME PrintfInv, NEW w \in Writers, do_string(w)
    PROVE  PrintfInv'
<1>1. PrintfTypes /\ Buffers /\ FullChunks /\ \A v \in Writers : Good(v)
    BY DEF PrintfInv
<1>2. /\ str[w] # <<>> /\ putc(w, Head(str[w])) /\ str' = [str EXCEPT ![w] = Tail(@)]
      /\ UNCHANGED <<call, fmt, va, done, meant>>
    BY DEF do_string
<1>3. ~done[w]
    BY <1>1, <1>2, Zenon DEF Good, Over
<1>4. PICK left : Left(w, left)
    BY <1>1, <1>3, Zenon DEF Good
<1>5. str \in [Writers -> Seq(TextChars)] /\ str[w] \in Seq(TextChars)
    BY <1>1 DEF PrintfTypes
<1>6. PICK c, s : c = Head(str[w]) /\ s = Tail(str[w])
    OBVIOUS
<1>7. c \in TextChars /\ s \in Seq(TextChars) /\ str[w] = <<c>> \o s /\ <<c>> \in Seq(TextChars)
    BY <1>2, <1>5, <1>6
<1>8. /\ str' \in [Writers -> Seq(TextChars)] /\ str'[w] = s
      /\ \A v \in Writers : v # w => str'[v] = str[v]
    BY <1>2, <1>5, <1>6, <1>7
<1>9. /\ printed' \in Seq([by : Writers, chars : Seq(TextChars)])
      /\ buf' \in [Writers -> Seq(TextChars)] /\ Buffers' /\ FullChunks'
      /\ \A v \in Writers : Sofar(v)' = IF v = w THEN Sofar(v) \o <<c>> ELSE Sofar(v)
    BY <1>1, <1>2, <1>3, <1>6, <1>7, PutcAdds
<1>10. PrintfTypes'
    BY <1>1, <1>2, <1>8, <1>9 DEF PrintfTypes
<1>11. Good(w)'
    <2>1. Sofar(w) \in Seq(TextChars) /\ Prints(left) \in Seq(TextChars)
        BY <1>1, <1>4, SofarTyped, LeftTyped DEF Left
    <2>2. Sofar(w) \o ((<<c>> \o s) \o Prints(left))
              = (Sofar(w) \o <<c>>) \o (s \o Prints(left))
        <3>1. Moved(Sofar(w), <<c>>, s, Prints(left))
            BY <1>7, <2>1, Moves
        <3>2. QED
            BY <3>1, Zenon DEF Moved
    <2>3. meant'[w] = Sofar(w)' \o (str'[w] \o Prints(left))
        BY <1>2, <1>4, <1>7, <1>8, <1>9, <2>2, Zenon DEF Left
    <2>4. Left(w, left)'
        BY <1>2, <1>4, <2>3, Zenon DEF Left
    <2>5. QED
        BY <1>2, <1>3, <2>4, Zenon DEF Good
<1>12. ASSUME NEW v \in Writers, v # w
       PROVE  Good(v)'
    BY <1>1, <1>2, <1>8, <1>9, <1>12, OthersKept
<1>13. QED
    BY <1>9, <1>10, <1>11, <1>12 DEF PrintfInv

LEMMA ConversionKeeps ==
    ASSUME PrintfInv, NEW w \in Writers, Conversion(w)
    PROVE  PrintfInv'
<1>1. PrintfTypes /\ Buffers /\ FullChunks /\ \A v \in Writers : Good(v)
    BY DEF PrintfInv
<1>2. /\ ~done[w] /\ str[w] = <<>> /\ fmt[w] # <<>> /\ IsConversion(w)
      /\ fmt' = [fmt EXCEPT ![w] = SubSeq(@, 3, Len(@))]
      /\ IF fmt[w][2] \in HasArgument
         THEN /\ va' = [va EXCEPT ![w] = Tail(@)]
              /\ str' = [str EXCEPT ![w] = Formatted(fmt[w][2], va[w][1])]
         ELSE str' = [str EXCEPT ![w] = <<fmt[w][2]>>] /\ UNCHANGED va
      /\ UNCHANGED <<call, buf, done, printed, meant>>
    BY DEF Conversion
<1>3. PICK left : Left(w, left)
    BY <1>1, <1>2, Zenon DEF Good
<1>4. /\ left \in Seq(Pieces) /\ Proper(left) /\ left # <<>>
      /\ fmt[w] = Spelling(left) /\ va[w] = Arguments(left)
      /\ meant[w] = Sofar(w) \o (str[w] \o Prints(left))
    BY <1>2, <1>3, LeftTyped DEF Left
<1>5. PICK after : after = Tail(left)
    OBVIOUS
<1>6. /\ after \in Seq(Pieces) /\ Proper(after)
      /\ \E c \in TextChars :
            \/ /\ Spelling(left) = <<c>> \o Spelling(after)
               /\ Arguments(left) = Arguments(after)
               /\ Prints(left) = <<c>> \o Prints(after)
               /\ c = "%" => Spelling(after) = <<>>
            \/ /\ Spelling(left) = <<"%", c>> \o Spelling(after)
               /\ c \notin HasArgument
               /\ Arguments(left) = Arguments(after)
               /\ Prints(left) = <<c>> \o Prints(after)
            \/ /\ Spelling(left) = <<"%", c>> \o Spelling(after)
               /\ c \in HasArgument
               /\ \E a \in Seq(TextChars) :
                     /\ Arguments(left) = <<a>> \o Arguments(after)
                     /\ Formatted(c, a) \in Seq(TextChars)
                     /\ Prints(left) = Formatted(c, a) \o Prints(after)
    BY <1>4, <1>5, NextPiece
<1>7. /\ Spelling(after) \in Seq(TextChars) /\ Prints(after) \in Seq(TextChars)
      /\ Arguments(after) \in Seq(Seq(TextChars))
    BY <1>6, LeftTyped
<1>8. "%" \in TextChars
    BY DEF TextChars, Letters
<1>9. PICK c \in TextChars :
         /\ Spelling(left) = <<"%", c>> \o Spelling(after)
         /\ \/ /\ c \notin HasArgument
               /\ Arguments(left) = Arguments(after)
               /\ Prints(left) = <<c>> \o Prints(after)
            \/ /\ c \in HasArgument
               /\ \E a \in Seq(TextChars) :
                     /\ Arguments(left) = <<a>> \o Arguments(after)
                     /\ Formatted(c, a) \in Seq(TextChars)
                     /\ Prints(left) = Formatted(c, a) \o Prints(after)
    <2>1. ASSUME NEW c \in TextChars, Spelling(left) = <<c>> \o Spelling(after),
                 c = "%" => Spelling(after) = <<>>
          PROVE  FALSE
        <3>1. Len(fmt[w]) = Len(Spelling(after)) + 1 /\ fmt[w][1] = c
            BY <1>4, <1>7, <2>1, StartsWithOne
        <3>2. c = "%" /\ Len(fmt[w]) > 1
            BY <1>2, <3>1, Zenon DEF IsConversion
        <3>3. Len(Spelling(after)) = 0
            BY <2>1, <3>2
        <3>4. QED
            BY <3>1, <3>2, <3>3
    <2>2. QED
        BY <1>6, <2>1, Zenon
<1>10. fmt[w][2] = c /\ SubSeq(fmt[w], 3, Len(fmt[w])) = Spelling(after)
    BY <1>4, <1>7, <1>8, <1>9, StartsWithTwo
<1>11. /\ fmt \in [Writers -> Seq(TextChars)] /\ va \in [Writers -> Seq(Seq(TextChars))]
       /\ str \in [Writers -> Seq(TextChars)]
    BY <1>1 DEF PrintfTypes
<1>12. /\ fmt' \in [Writers -> Seq(TextChars)] /\ fmt'[w] = Spelling(after)
       /\ \A v \in Writers : v # w => fmt'[v] = fmt[v]
    BY <1>2, <1>7, <1>10, <1>11
<1>13. PICK t \in Seq(TextChars) : str' = [str EXCEPT ![w] = t] /\ Prints(left) = t \o Prints(after)
                              /\ va' = [va EXCEPT ![w] = Arguments(after)]
    <2>1. CASE c \notin HasArgument
        <3>1. /\ Arguments(left) = Arguments(after) /\ Prints(left) = <<c>> \o Prints(after)
              /\ str' = [str EXCEPT ![w] = <<c>>] /\ va' = va
            BY <1>2, <1>9, <1>10, <2>1
        <3>2. va' = [va EXCEPT ![w] = Arguments(after)]
            BY <1>4, <1>11, <3>1
        <3>3. <<c>> \in Seq(TextChars)
            OBVIOUS
        <3>4. QED
            BY <3>1, <3>2, <3>3, Zenon
    <2>2. CASE c \in HasArgument
        <3>1. PICK a \in Seq(TextChars) :
                 /\ Arguments(left) = <<a>> \o Arguments(after)
                 /\ Formatted(c, a) \in Seq(TextChars)
                 /\ Prints(left) = Formatted(c, a) \o Prints(after)
            BY <1>9, <2>2
        <3>2. va[w][1] = a /\ Tail(va[w]) = Arguments(after)
            <4>1. PICK r : r = Arguments(after)
                OBVIOUS
            <4>2. r \in Seq(Seq(TextChars)) /\ va[w] = <<a>> \o r
                BY <1>4, <1>7, <3>1, <4>1
            <4>3. (<<a>> \o r)[1] = a /\ Tail(<<a>> \o r) = r
                BY <4>2, StartsWithOne
            <4>4. QED
                BY <4>1, <4>2, <4>3, Zenon
        <3>3. /\ va' = [va EXCEPT ![w] = Tail(@)]
              /\ str' = [str EXCEPT ![w] = Formatted(c, va[w][1])]
            BY <1>2, <1>10, <2>2
        <3>4. /\ va' = [va EXCEPT ![w] = Arguments(after)]
              /\ str' = [str EXCEPT ![w] = Formatted(c, a)]
            BY <3>2, <3>3
        <3>5. QED
            BY <3>1, <3>4, Zenon
    <2>3. QED
        BY <2>1, <2>2
<1>14. /\ va' \in [Writers -> Seq(Seq(TextChars))] /\ va'[w] = Arguments(after)
       /\ str' \in [Writers -> Seq(TextChars)] /\ str'[w] = t
       /\ \A v \in Writers : v # w => va'[v] = va[v] /\ str'[v] = str[v]
    BY <1>7, <1>11, <1>13
<1>15. FullChunks' /\ \A v : Text(v)' = Text(v)
    BY <1>1, <1>2, SilenceKeepsChunks
<1>16. \A v \in Writers : Sofar(v)' = Sofar(v)
    BY <1>2, <1>15, Zenon DEF Sofar
<1>17. PrintfTypes' /\ Buffers'
    BY <1>1, <1>2, <1>12, <1>14 DEF PrintfTypes, Buffers
<1>18. Good(w)'
    <2>1. <<>> \o (t \o Prints(after)) = t \o Prints(after)
        <3>1. t \o Prints(after) \in Seq(TextChars)
            BY <1>7, <1>13, ConcatProperties
        <3>2. QED
            BY <3>1, ConcatEmptySeq
    <2>2. meant'[w] = Sofar(w)' \o (str'[w] \o Prints(after))
        BY <1>2, <1>4, <1>13, <1>14, <1>16, <2>1, Zenon
    <2>3. Left(w, after)'
        BY <1>6, <1>12, <1>14, <2>2, Zenon DEF Left
    <2>4. QED
        BY <1>2, <2>3, Zenon DEF Good
<1>19. ASSUME NEW v \in Writers, v # w
       PROVE  Good(v)'
    BY <1>1, <1>2, <1>12, <1>14, <1>16, <1>19, OthersKept
<1>20. QED
    BY <1>15, <1>17, <1>18, <1>19 DEF PrintfInv

LEMMA PlainKeeps ==
    ASSUME PrintfInv, NEW w \in Writers, Plain(w)
    PROVE  PrintfInv'
<1>1. PrintfTypes /\ Buffers /\ FullChunks /\ \A v \in Writers : Good(v)
    BY DEF PrintfInv
<1>2. /\ ~done[w] /\ str[w] = <<>> /\ fmt[w] # <<>> /\ ~IsConversion(w)
      /\ putc(w, fmt[w][1]) /\ fmt' = [fmt EXCEPT ![w] = Tail(@)]
      /\ UNCHANGED <<call, va, str, done, meant>>
    BY DEF Plain
<1>3. PICK left : Left(w, left)
    BY <1>1, <1>2, Zenon DEF Good
<1>4. /\ left \in Seq(Pieces) /\ Proper(left) /\ left # <<>>
      /\ fmt[w] = Spelling(left) /\ va[w] = Arguments(left)
      /\ meant[w] = Sofar(w) \o (str[w] \o Prints(left))
    BY <1>2, <1>3, LeftTyped DEF Left
<1>5. PICK after : after = Tail(left)
    OBVIOUS
<1>6. /\ after \in Seq(Pieces) /\ Proper(after)
      /\ \E c \in TextChars :
            \/ /\ Spelling(left) = <<c>> \o Spelling(after)
               /\ Arguments(left) = Arguments(after)
               /\ Prints(left) = <<c>> \o Prints(after)
            \/ Spelling(left) = <<"%", c>> \o Spelling(after)
    <2>1. /\ Tail(left) \in Seq(Pieces) /\ Proper(Tail(left))
          /\ \E c \in TextChars :
                \/ /\ Spelling(left) = <<c>> \o Spelling(Tail(left))
                   /\ Arguments(left) = Arguments(Tail(left))
                   /\ Prints(left) = <<c>> \o Prints(Tail(left))
                \/ Spelling(left) = <<"%", c>> \o Spelling(Tail(left))
        BY <1>4, NextPiece
    <2>2. QED
        BY <1>5, <2>1, Zenon
<1>7. /\ Spelling(after) \in Seq(TextChars) /\ Prints(after) \in Seq(TextChars)
      /\ Arguments(after) \in Seq(Seq(TextChars))
    BY <1>6, LeftTyped
<1>8. "%" \in TextChars
    BY DEF TextChars, Letters
<1>9. PICK c \in TextChars : /\ Spelling(left) = <<c>> \o Spelling(after)
                        /\ Arguments(left) = Arguments(after)
                        /\ Prints(left) = <<c>> \o Prints(after)
    <2>1. ASSUME NEW c \in TextChars, Spelling(left) = <<"%", c>> \o Spelling(after)
          PROVE  FALSE
        <3>1. Len(fmt[w]) = Len(Spelling(after)) + 2 /\ fmt[w][1] = "%"
            BY <1>4, <1>7, <1>8, <2>1, StartsWithTwo
        <3>2. Len(Spelling(after)) \in Nat
            BY <1>7
        <3>3. Len(fmt[w]) > 1
            BY <3>1, <3>2
        <3>4. QED
            BY <1>2, <3>1, <3>3, Zenon DEF IsConversion
    <2>2. QED
        BY <1>6, <2>1, Zenon
<1>10. fmt[w][1] = c /\ Tail(fmt[w]) = Spelling(after)
    <2>1. PICK s : s = Spelling(after)
        OBVIOUS
    <2>2. s \in Seq(TextChars) /\ fmt[w] = <<c>> \o s
        BY <1>4, <1>7, <1>9, <2>1
    <2>3. (<<c>> \o s)[1] = c /\ Tail(<<c>> \o s) = s
        BY <2>2, StartsWithOne
    <2>4. QED
        BY <2>1, <2>2, <2>3, Zenon
<1>11. fmt \in [Writers -> Seq(TextChars)]
    BY <1>1 DEF PrintfTypes
<1>12. /\ fmt' \in [Writers -> Seq(TextChars)] /\ fmt'[w] = Spelling(after)
       /\ \A v \in Writers : v # w => fmt'[v] = fmt[v]
    BY <1>2, <1>7, <1>10, <1>11
<1>13. /\ printed' \in Seq([by : Writers, chars : Seq(TextChars)])
       /\ buf' \in [Writers -> Seq(TextChars)] /\ Buffers' /\ FullChunks'
       /\ \A v \in Writers : Sofar(v)' = IF v = w THEN Sofar(v) \o <<c>> ELSE Sofar(v)
    BY <1>1, <1>2, <1>9, <1>10, PutcAdds
<1>14. PrintfTypes'
    BY <1>1, <1>2, <1>12, <1>13 DEF PrintfTypes
<1>15. Good(w)'
    <2>1. <<>> \o Prints(left) = Prints(left) /\ <<>> \o Prints(after) = Prints(after)
        BY <1>4, <1>7, LeftTyped, ConcatEmptySeq
    <2>2. Associates(Sofar(w), <<c>>, Prints(after))
        <3>1. Sofar(w) \in Seq(TextChars) /\ <<c>> \in Seq(TextChars)
            BY <1>1, SofarTyped
        <3>2. QED
            BY <1>7, <3>1, ConcatAssociates
    <2>3. meant'[w] = Sofar(w)' \o (str'[w] \o Prints(after))
        <3>1. meant'[w] = Sofar(w) \o (<<c>> \o Prints(after))
            BY <1>2, <1>4, <1>9, <2>1, Zenon
        <3>2. str'[w] = <<>> /\ Sofar(w)' = Sofar(w) \o <<c>>
            BY <1>2, <1>13
        <3>3. QED
            BY <2>1, <2>2, <3>1, <3>2, Zenon DEF Associates
    <2>4. va'[w] = Arguments(after)
        BY <1>2, <1>4, <1>9
    <2>5. Left(w, after)'
        BY <1>6, <1>12, <2>3, <2>4, Zenon DEF Left
    <2>6. QED
        BY <1>2, <2>5, Zenon DEF Good
<1>16. ASSUME NEW v \in Writers, v # w
       PROVE  Good(v)'
    BY <1>1, <1>2, <1>12, <1>13, <1>16, OthersKept
<1>17. QED
    BY <1>13, <1>14, <1>15, <1>16 DEF PrintfInv

LEMMA PrintReturnsKeeps ==
    ASSUME PrintfInv, NEW w \in Writers, PrintReturns(w)
    PROVE  PrintfInv'
<1>1. PrintfTypes /\ Buffers /\ FullChunks /\ \A v \in Writers : Good(v)
    BY DEF PrintfInv
<1>2. /\ ~done[w] /\ str[w] = <<>> /\ fmt[w] = <<>>
      /\ done' = [done EXCEPT ![w] = TRUE]
      /\ CASE call[w] = "printf" ->
                IF buf[w] # <<>>
                THEN Give(w, buf[w]) /\ buf' = [buf EXCEPT ![w] = <<>>]
                ELSE UNCHANGED <<buf, printed>>
           [] call[w] = "sprintf"  -> f_storec(w, NUL)
           [] call[w] = "do_print" -> UNCHANGED <<buf, printed>>
      /\ UNCHANGED <<call, fmt, va, str, meant>>
    BY DEF PrintReturns
<1>3. PICK left : Left(w, left)
    BY <1>1, <1>2, Zenon DEF Good
<1>4. va[w] = <<>> /\ meant[w] = Sofar(w)
    <2>1. left \in Seq(Pieces) /\ left = <<>>
        BY <1>2, <1>3, NextPiece DEF Left
    <2>2. Spelling(left) = <<>> /\ Prints(left) = <<>> /\ Arguments(left) = <<>>
        BY <2>1, LeftTyped
    <2>3. Sofar(w) \o <<>> = Sofar(w) /\ <<>> \in Seq(TextChars) /\ <<>> \o <<>> = <<>>
        BY <1>1, SofarTyped, ConcatEmptySeq
    <2>4. meant[w] = Sofar(w) \o (str[w] \o Prints(left)) /\ va[w] = Arguments(left)
        BY <1>3 DEF Left
    <2>5. QED
        BY <1>2, <2>2, <2>3, <2>4, Zenon
<1>5. /\ done \in [Writers -> BOOLEAN] /\ buf \in [Writers -> Seq(TextChars)]
      /\ call[w] \in Functions /\ printed \in Seq([by : Writers, chars : Seq(TextChars)])
    BY <1>1 DEF PrintfTypes
<1>6. /\ done' \in [Writers -> BOOLEAN] /\ done'[w]
      /\ \A v \in Writers : v # w => done'[v] = done[v]
      /\ \A v \in Writers : done[v] => done'[v]
    BY <1>2, <1>5
<1>7. Text(w) \in Seq(TextChars) /\ buf[w] \in Seq(TextChars) /\ NUL \in TextChars
    BY <1>1, SofarTyped DEF TextChars
<1>8. PRINT_NBUF \in Nat \ {0}
    BY PrintfAssumption
<1>9. /\ printed' \in Seq([by : Writers, chars : Seq(TextChars)])
      /\ buf' \in [Writers -> Seq(TextChars)] /\ Buffers' /\ FullChunks'
      /\ \A v \in Writers : v # w => Sofar(v)' = Sofar(v)
      /\ Sofar(w)' = IF call[w] = "sprintf" THEN Append(Sofar(w), NUL) ELSE Sofar(w)
    <2>1. CASE UNCHANGED <<buf, printed>> /\ call[w] # "sprintf"
        <3>1. FullChunks' /\ \A v : Text(v)' = Text(v)
            BY <1>1, <1>2, <1>6, <2>1, SilenceKeepsChunks
        <3>2. \A v \in Writers : Sofar(v)' = Sofar(v)
            BY <2>1, <3>1, Zenon DEF Sofar
        <3>3. Buffers'
            BY <1>1, <1>2, <2>1 DEF Buffers
        <3>4. QED
            BY <1>5, <2>1, <3>1, <3>2, <3>3
    <2>2. CASE call[w] = "printf" /\ buf[w] # <<>>
        <3>1. Give(w, buf[w]) /\ buf' = [buf EXCEPT ![w] = <<>>]
            BY <1>2, <2>2
        <3>2. Len(buf[w]) \in 1 .. PRINT_NBUF
            BY <1>1, <1>7, <1>8, <2>2 DEF Buffers
        <3>3. FullChunks'
            BY <1>1, <1>2, <1>6, <1>7, <3>1, <3>2, GiveKeepsChunks
        <3>4. /\ printed' \in Seq([by : Writers, chars : Seq(TextChars)])
              /\ \A v \in Writers : Text(v)' = IF v = w THEN Text(v) \o buf[w] ELSE Text(v)
            BY <1>1, <1>7, <3>1, GiveAdds
        <3>5. /\ buf' \in [Writers -> Seq(TextChars)]
              /\ \A v \in Writers : buf'[v] = IF v = w THEN <<>> ELSE buf[v]
            BY <1>5, <3>1
        <3>6. Len(<<>>) <= PRINT_NBUF
            BY <1>8
        <3>7. Buffers'
            BY <1>1, <1>2, <3>5, <3>6 DEF Buffers
        <3>8. Sofar(w) \o <<>> = Sofar(w)
            BY <1>1, SofarTyped, ConcatEmptySeq
        <3>9. Sofar(w)' = Sofar(w)
            <4>1. Text(w)' = Text(w) \o buf[w] /\ buf'[w] = <<>>
                BY <3>4, <3>5
            <4>2. QED
                BY <3>8, <4>1, Zenon DEF Sofar
        <3>10. ASSUME NEW v \in Writers, v # w
               PROVE  Sofar(v)' = Sofar(v)
            <4>1. Text(v)' = Text(v) /\ buf'[v] = buf[v]
                BY <3>4, <3>5, <3>10
            <4>2. QED
                BY <4>1, Zenon DEF Sofar
        <3>11. QED
            BY <2>2, <3>3, <3>4, <3>5, <3>7, <3>9, <3>10
    <2>3. CASE call[w] = "sprintf"
        <3>1. buf' = [buf EXCEPT ![w] = Append(@, NUL)] /\ UNCHANGED printed
            BY <1>2, <2>3 DEF f_storec
        <3>2. FullChunks' /\ \A v : Text(v)' = Text(v)
            BY <1>1, <1>2, <1>6, <3>1, SilenceKeepsChunks
        <3>3. /\ Append(buf[w], NUL) \in Seq(TextChars)
              /\ Append(buf[w], NUL) = buf[w] \o <<NUL>>
              /\ Append(Sofar(w), NUL) = Sofar(w) \o <<NUL>>
            BY <1>1, <1>7, SofarTyped, AppendProperties, AppendIsConcat
        <3>4. /\ buf' \in [Writers -> Seq(TextChars)]
              /\ \A v \in Writers : buf'[v] = IF v = w THEN Append(buf[w], NUL) ELSE buf[v]
            BY <1>5, <3>1, <3>3
        <3>5. Buffers'
            BY <1>1, <1>2, <2>3, <3>4 DEF Buffers
        <3>6. Sofar(w)' = Append(Sofar(w), NUL)
            <4>1. Associates(Text(w), buf[w], <<NUL>>)
                <5>1. <<NUL>> \in Seq(TextChars)
                    BY <1>7
                <5>2. QED
                    BY <1>7, <5>1, ConcatAssociates
            <4>2. Text(w)' = Text(w) /\ buf'[w] = buf[w] \o <<NUL>>
                BY <3>2, <3>3, <3>4
            <4>3. QED
                BY <3>3, <4>1, <4>2, Zenon DEF Sofar, Associates
        <3>7. ASSUME NEW v \in Writers, v # w
              PROVE  Sofar(v)' = Sofar(v)
            <4>1. Text(v)' = Text(v) /\ buf'[v] = buf[v]
                BY <3>2, <3>4, <3>7
            <4>2. QED
                BY <4>1, Zenon DEF Sofar
        <3>8. QED
            BY <1>5, <2>3, <3>1, <3>2, <3>4, <3>5, <3>6, <3>7
    <2>4. QED
        BY <1>2, <1>5, <2>1, <2>2, <2>3 DEF Functions
<1>10. PrintfTypes'
    BY <1>1, <1>2, <1>6, <1>9 DEF PrintfTypes
<1>11. Good(w)'
    <2>1. Sofar(w)' = IF call'[w] = "sprintf" THEN Append(meant'[w], NUL) ELSE meant'[w]
        BY <1>2, <1>4, <1>9
    <2>2. fmt'[w] = <<>> /\ va'[w] = <<>> /\ str'[w] = <<>>
        BY <1>2, <1>4
    <2>3. QED
        BY <1>6, <2>1, <2>2, Zenon DEF Good, Over
<1>12. ASSUME NEW v \in Writers, v # w
       PROVE  Good(v)'
    BY <1>1, <1>2, <1>6, <1>9, <1>12, OthersKept
<1>13. QED
    BY <1>9, <1>10, <1>11, <1>12 DEF PrintfInv

LEMMA PrintfStarts == PrintfInit => PrintfInv
<1>1. SUFFICES ASSUME NEW pieces \in [Writers -> {x \in SeqOf(Pieces, NPIECES) : Proper(x)}],
                      PrintsPieces(pieces)
               PROVE  PrintfInv
    BY Zenon DEF PrintfInit
<1>2. ASSUME NEW w \in Writers
      PROVE  pieces[w] \in Seq(Pieces) /\ Proper(pieces[w])
    <2>1. PICK x : x = pieces[w]
        OBVIOUS
    <2>2. x \in SeqOf(Pieces, NPIECES) /\ Proper(x)
        BY <2>1
    <2>3. PICK m \in 0 .. NPIECES : x \in [1 .. m -> Pieces]
        BY <2>2 DEF SeqOf
    <2>4. m \in Nat
        BY PrintfAssumption
    <2>5. x \in Seq(Pieces)
        BY <2>3, <2>4
    <2>6. QED
        BY <2>1, <2>2, <2>5
<1>3. /\ call \in [Writers -> Functions] /\ printed = <<>>
      /\ \A w \in Writers : /\ fmt[w] = Spelling(pieces[w]) /\ va[w] = Arguments(pieces[w])
                            /\ meant[w] = Prints(pieces[w])
      /\ fmt = [w \in Writers |-> Spelling(pieces[w])]
      /\ va = [w \in Writers |-> Arguments(pieces[w])]
      /\ meant = [w \in Writers |-> Prints(pieces[w])]
    BY <1>1 DEF PrintsPieces, Spelling, Arguments, Prints
<1>4. /\ str = [w \in Writers |-> <<>>] /\ buf = [w \in Writers |-> <<>>]
      /\ done = [w \in Writers |-> FALSE]
    BY <1>1 DEF PrintsPieces
<1>5. <<>> \in Seq(TextChars) /\ Len(<<>>) = 0 /\ <<>> \in Seq([by : Writers, chars : Seq(TextChars)])
    OBVIOUS
<1>6. ASSUME NEW w \in Writers
      PROVE  /\ Spelling(pieces[w]) \in Seq(TextChars) /\ Prints(pieces[w]) \in Seq(TextChars)
             /\ Arguments(pieces[w]) \in Seq(Seq(TextChars))
    BY <1>2, LeftTyped
<1>7. PrintfTypes
    <2>1. /\ [w \in Writers |-> Spelling(pieces[w])] \in [Writers -> Seq(TextChars)]
          /\ [w \in Writers |-> Arguments(pieces[w])] \in [Writers -> Seq(Seq(TextChars))]
          /\ [w \in Writers |-> Prints(pieces[w])] \in [Writers -> Seq(TextChars)]
        BY <1>6
    <2>2. QED
        BY <1>3, <1>4, <1>5, <2>1 DEF PrintfTypes
<1>8. Buffers /\ FullChunks
    BY <1>3, <1>4, <1>5, PrintfAssumption DEF Buffers, FullChunks
<1>9. ASSUME NEW w \in Writers
      PROVE  Good(w)
    <2>1. Text(w) = <<>>
        <3>1. Texts(w) \in Seq(Seq(TextChars)) /\ Text(w) = Joined(Texts(w))
            BY <1>7, TextTyped
        <3>2. Len(Texts(w)) = 0
            BY <1>3, <1>5 DEF Texts
        <3>3. QED
            BY <3>1, <3>2, JoinedTyped
    <2>2. buf[w] = <<>> /\ str[w] = <<>> /\ ~done[w]
        BY <1>4
    <2>3. PICK more : more = Prints(pieces[w])
        OBVIOUS
    <2>4. more \in Seq(TextChars)
        BY <1>6, <2>3
    <2>5. <<>> \o <<>> = <<>> /\ <<>> \o more = more
        BY <1>5, <2>4, ConcatEmptySeq
    <2>6. meant[w] = Sofar(w) \o (str[w] \o more)
        <3>1. meant[w] = more
            BY <1>3, <2>3
        <3>2. QED
            BY <2>1, <2>2, <2>5, <3>1, Zenon DEF Sofar
    <2>7. Left(w, pieces[w])
        BY <1>2, <1>3, <2>3, <2>6, Zenon DEF Left
    <2>8. QED
        BY <2>2, <2>7, Zenon DEF Good
<1>10. QED
    BY <1>7, <1>8, <1>9 DEF PrintfInv

LEMMA PrefixOfConcat ==
    ASSUME NEW S, NEW u \in Seq(S), NEW v \in Seq(S)
    PROVE  IsPrefix(u, u \o v)
<1>1. Len(u) \in Nat /\ Len(v) \in Nat /\ Len(u \o v) = Len(u) + Len(v)
    BY ConcatProperties
<1>2. SubSeq(u, 1, Len(u)) = SubSeq(u \o v, 1, Len(u))
    <2>1. CASE Len(u) = 0
        <3>1. 0 < 1 /\ 0 \in Int /\ 1 \in Int
            OBVIOUS
        <3>2. SubSeq(u, 1, 0) = <<>> /\ SubSeq(u \o v, 1, 0) = <<>>
            BY <3>1, SubSeqEmpty
        <3>3. QED
            BY <2>1, <3>2, Zenon
    <2>2. CASE Len(u) # 0
        <3>1. 1 \in 1 .. Len(u) /\ Len(u) \in 1 .. Len(u)
            BY <1>1, <2>2
        <3>2. QED
            BY <3>1, SubSeqOfConcat1
    <2>3. QED
        BY <2>1, <2>2
<1>3. Len(u) <= Len(u \o v)
    BY <1>1
<1>4. QED
    BY <1>2, <1>3, Zenon DEF IsPrefix

LEMMA TextsAreMeant ==
    ASSUME PrintfInv
    PROVE  PrintingCorrect
<1>1. PrintfTypes /\ FullChunks /\ \A v \in Writers : Good(v)
    BY DEF PrintfInv
<1>2. ASSUME NEW w \in Writers, done[w]
      PROVE  /\ Sofar(w) = IF call[w] = "sprintf" THEN Append(meant[w], NUL) ELSE meant[w]
             /\ va[w] = <<>>
    BY <1>1, <1>2, Zenon DEF Good, Over
<1>3. ASSUME NEW w \in Writers, ~done[w]
      PROVE  IsPrefix(Sofar(w), meant[w])
    <2>1. PICK left : Left(w, left)
        BY <1>1, <1>3, Zenon DEF Good
    <2>2. PICK more : more = str[w] \o Prints(left)
        OBVIOUS
    <2>3. str[w] \in Seq(TextChars) /\ Prints(left) \in Seq(TextChars)
        BY <1>1, <2>1, LeftTyped DEF Left, PrintfTypes
    <2>4. more \in Seq(TextChars)
        BY <2>2, <2>3, ConcatProperties
    <2>5. Sofar(w) \in Seq(TextChars)
        BY <1>1, SofarTyped
    <2>6. IsPrefix(Sofar(w), Sofar(w) \o more)
        BY <2>4, <2>5, PrefixOfConcat
    <2>7. meant[w] = Sofar(w) \o more
        BY <2>1, <2>2, Zenon DEF Left
    <2>8. QED
        BY <2>6, <2>7, Zenon
<1>4. PrintsItsText
    BY <1>2, <1>3, Zenon DEF PrintsItsText, Sofar
<1>5. QED
    BY <1>1, <1>4, Zenon DEF PrintingCorrect

\* Whatever formats and arguments processes print, and however the printing of
\* one is broken by that of others, each text comes out as it is meant: in
\* order, complete when the call returns, no argument left over, and with
\* printf in chunks that are full but for the last (lib.c:102-222).
THEOREM TextsArriveAsMeant == PrintfSpec => []PrintingCorrect
<1>1. ASSUME PrintfInv, [PrintfNext]_printfVars
      PROVE  PrintfInv'
    <2>1. CASE PrintfNext
        <3>1. PICK w \in Writers :
                 do_string(w) \/ Conversion(w) \/ Plain(w) \/ PrintReturns(w)
            BY <2>1, Zenon DEF PrintfNext
        <3>2. QED
            BY <1>1, <3>1, do_stringKeeps, ConversionKeeps, PlainKeeps, PrintReturnsKeeps
    <2>2. CASE UNCHANGED printfVars
        <3>1. /\ call' = call /\ fmt' = fmt /\ va' = va /\ str' = str /\ buf' = buf
              /\ done' = done /\ printed' = printed /\ meant' = meant
            BY <2>2 DEF printfVars
        <3>2. PrintfTypes /\ Buffers /\ FullChunks /\ \A v \in Writers : Good(v)
            BY <1>1 DEF PrintfInv
        <3>3. FullChunks' /\ \A v : Text(v)' = Text(v)
            BY <3>1, <3>2, SilenceKeepsChunks
        <3>4. \A v \in Writers : Sofar(v)' = Sofar(v)
            BY <3>1, <3>3, Zenon DEF Sofar
        <3>5. \A v \in Writers : Good(v)'
            BY <3>1, <3>2, <3>4, OthersKept
        <3>6. PrintfTypes' /\ Buffers'
            BY <3>1, <3>2, Zenon DEF PrintfTypes, Buffers
        <3>7. QED
            BY <3>3, <3>5, <3>6 DEF PrintfInv
    <2>3. QED
        BY <1>1, <2>1, <2>2
<1>2. QED
    BY <1>1, PrintfStarts, TextsAreMeant, PTL DEF PrintfSpec
=============================================================================
