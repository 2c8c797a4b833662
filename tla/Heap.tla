--------------------------------- MODULE Heap ----------------------------------
(***************************************************************************)
(* Storage for processes: sbrk() and new_proc(), create_proc() and start() *)
(* with the frame it fakes, and the use of the stacks at run time: calls   *)
(* of functions, frames saved at system calls and context switches, the    *)
(* check for stack overflow and the scan of microbian_dump().  Addresses   *)
(* are in bytes, from the end of the static data, 0, up to the limit of    *)
(* the main stack; memory is used in words of 4 bytes.                     *)
(***************************************************************************)
EXTENDS Integers, Sequences

CONSTANTS
    STATIC_END,     \* __end, a multiple of 4; the static data is below
    STACK_LIMIT,    \* __stack_limit
    DESC,           \* sizeof(struct _proc)
    PTABLE_SIZE,    \* Size of the process table
    FRAME_WORDS,    \* Words of an interrupt frame (17 in the code)
    Sizes,          \* The stack sizes programs ask for
    IDLE_STACK,
    MAXUSE          \* Bound on the words of locals of a function

ASSUME HeapAssumption ==
    /\ STATIC_END \in Nat /\ STATIC_END % 4 = 0
    /\ STACK_LIMIT \in Nat /\ STACK_LIMIT % 4 = 0
    /\ STATIC_END <= STACK_LIMIT
    /\ DESC \in Nat \ {0} /\ DESC % 4 = 0
    /\ PTABLE_SIZE \in Nat \ {0} /\ FRAME_WORDS \in Nat \ {0} /\ MAXUSE \in Nat
    /\ Sizes \subseteq Nat \ {0} /\ IDLE_STACK \in Nat \ {0} /\ IDLE_STACK % 8 = 0

ROUNDUP(n) == 8 * ((n + 7) \div 8)

VARIABLES
    hbot, htop,     \* The free space
    ptable,         \* The processes: [desc, stack, stksize]
    contents,       \* The words of the heap and below: their contents
    sp,             \* sp[p]: its stack pointer
    current,        \* The process that runs, 0 before the scheduler starts
    kernel,         \* "boot", "init", "running", "panic"
    (* Ghosts *)
    overran,        \* The processes that have written below their stacks
    spent,          \* Those that have written the last word of their stacks
    skipped         \* Those that called a function which left that word alone

marks == <<overran, spent, skipped>>
heapVars == <<hbot, htop, ptable, contents, sp, current, kernel, marks>>

Words == {4 * i : i \in 0 .. STACK_LIMIT \div 4 - 1}
Pids == DOMAIN ptable

\* The contents of a word: what start() fills a stack with, other data, the
\* descriptor of process p, or p where p has written on its stack.  What a
\* process writes is taken to differ from BLANK, a value chosen for that.
BLANK == -1
OTHER_DATA == 0
DescriptorOf(p) == -1 - p

\* The words from a up to b, all written with the same contents.
Filled(m, a, b, v) == [w \in Words |-> IF a <= w /\ w < b THEN v ELSE m[w]]

HeapInit ==
    /\ hbot = STATIC_END /\ htop = STACK_LIMIT
    /\ ptable = <<>> /\ sp = <<>> /\ current = 0
    /\ contents = [w \in Words |-> OTHER_DATA]
    /\ kernel = "boot"
    /\ overran = {} /\ spent = {} /\ skipped = {}

-----------------------------------------------------------------------------
\* sbrk(): the start of the space for inc bytes, which is rounded up after
\* hbot is; new_proc() has taken its descriptor from the top before.
Bottom == ROUNDUP(hbot)

\* Seeded fault: the top is that of before new_proc().
RoomOfBefore(size, top) == ROUNDUP(size) <= htop - Bottom

Room(size, top) == ROUNDUP(size) <= top - Bottom

Descriptor == htop - DESC

SpaceForDescriptor == htop - hbot >= DESC

\* create_proc().  The frame is the one start() fakes; IDLE has none.  What was
\* allocated before a panic is not recorded.
Created(size) ==
    Append(ptable, [desc |-> Descriptor, stack |-> Bottom, stksize |-> size])

create_proc(size, frame) ==
    IF Len(ptable) < PTABLE_SIZE /\ SpaceForDescriptor /\ Room(size, Descriptor)
    THEN LET p == Len(ptable) + 1
             top == Bottom + size
         IN  /\ hbot' = Bottom + ROUNDUP(size)
             /\ htop' = Descriptor
             /\ ptable' = Created(size)
             /\ sp' = Append(sp, top - frame)
             /\ LET described == Filled(contents, Descriptor, Descriptor + DESC,
                                        DescriptorOf(p))
                    blank == Filled(described, Bottom, top, BLANK)
                IN  contents' = Filled(blank, top - frame, top, p)
             /\ kernel' = "init"
             /\ overran' = IF frame > size THEN overran \cup {p} ELSE overran
             /\ spent' = IF frame >= size THEN spent \cup {p} ELSE spent
             /\ UNCHANGED skipped
    ELSE kernel' = "panic" /\ UNCHANGED <<hbot, htop, ptable, contents, sp, marks>>

CreateIdle ==
    /\ kernel = "boot"
    /\ create_proc(IDLE_STACK, 0)
    /\ UNCHANGED current

FrameSize == 4 * FRAME_WORDS

\* The stack size is rounded up by start() already.
start(size) ==
    /\ kernel = "init"
    /\ create_proc(ROUNDUP(size), FrameSize)
    /\ UNCHANGED current

\* init() returns, and the main program becomes the idle process.
__run ==
    /\ kernel = "init"
    /\ kernel' = "running" /\ current' = 1
    /\ UNCHANGED <<hbot, htop, ptable, contents, sp, marks>>

-----------------------------------------------------------------------------
(* The processes at run time.                                              *)

IsRunning(p) == kernel = "running" /\ current = p

Bottommost(p) == ptable[p].stack
Topmost(p) == ptable[p].stack + ptable[p].stksize

\* The k words below the stack pointer of p, which are in memory as a bound.
Below(p, k) == {w \in Words : sp[p] - 4 * k <= w /\ w < sp[p]}
InMemory(p, k) == sp[p] - 4 * k >= 0

\* p writes these words.
Writes(p, touched) ==
    /\ contents' = [w \in Words |-> IF w \in touched THEN p ELSE contents[w]]
    /\ overran' = IF \E w \in touched : w < Bottommost(p) THEN overran \cup {p} ELSE overran
    /\ spent' = IF Bottommost(p) \in touched THEN spent \cup {p} ELSE spent

\* The process calls a function with k words of locals, of which it may write
\* any; as a bound, none is called from below the stack.
Enter(p, k) ==
    /\ IsRunning(p) /\ sp[p] >= Bottommost(p) /\ InMemory(p, k)
    /\ \E touched \in SUBSET Below(p, k) :
          /\ Writes(p, touched)
          /\ skipped' = IF Bottommost(p) \in Below(p, k) \ touched THEN skipped \cup {p}
                        ELSE skipped
    /\ sp' = [sp EXCEPT ![p] = @ - 4 * k]
    /\ UNCHANGED <<hbot, htop, ptable, current, kernel>>

Leave(p) ==
    /\ IsRunning(p) /\ sp[p] < Topmost(p)
    /\ sp' = [sp EXCEPT ![p] = Topmost(p)]
    /\ UNCHANGED <<hbot, htop, ptable, contents, current, kernel, marks>>

\* Seeded fault: the check is on the stack pointer, not on the last word.
OverflowPointer(p, m) == sp[p] - 4 * FRAME_WORDS < Bottommost(p)

\* "Check for stack overflow".
Overflow(p, m) == m[Bottommost(p)] # BLANK

\* p's frame is saved, without gaps, and that of the next process, its own or
\* another, is restored.
SaveFrame(p) ==
    /\ InMemory(p, FRAME_WORDS)
    /\ Writes(p, Below(p, FRAME_WORDS))
    /\ UNCHANGED skipped

Resume(p, q) ==
    /\ current' = q
    /\ sp' = IF p = q THEN sp
             ELSE [sp EXCEPT ![p] = @ - 4 * FRAME_WORDS,
                             ![q] = @ + 4 * FRAME_WORDS]

system_call(p, q) ==
    /\ IsRunning(p)
    /\ SaveFrame(p)
    /\ IF Overflow(p, contents') THEN kernel' = "panic" /\ UNCHANGED <<sp, current>>
       ELSE Resume(p, q) /\ UNCHANGED kernel
    /\ UNCHANGED <<hbot, htop, ptable>>

\* An interrupt preempts p, and nothing is checked.
cxt_switch(p, q) ==
    /\ IsRunning(p) /\ p # q
    /\ SaveFrame(p) /\ Resume(p, q)
    /\ UNCHANGED <<hbot, htop, ptable, kernel>>

HeapNext ==
    \/ CreateIdle \/ __run \/ \E size \in Sizes : start(size)
    \/ \E p \in Pids :
          \/ Leave(p)
          \/ \E k \in 1 .. MAXUSE : Enter(p, k)
          \/ \E q \in Pids : system_call(p, q) \/ cxt_switch(p, q)

HeapSpec == HeapInit /\ [][HeapNext]_heapVars

-----------------------------------------------------------------------------
Separate(a, b, c, d) == b <= c \/ d <= a

\* The free space is never negative (new_proc() compares it as unsigned), and
\* stacks and descriptors lie outside it and apart from each other.
Disjoint ==
    /\ hbot <= htop
    /\ \A p \in Pids :
          /\ STATIC_END <= ptable[p].stack /\ Topmost(p) <= hbot
          /\ htop <= ptable[p].desc /\ ptable[p].desc + DESC <= STACK_LIMIT
          /\ ptable[p].stack % 8 = 0
          /\ \A q \in Pids \ {p} :
                /\ Separate(ptable[p].stack, Topmost(p), ptable[q].stack, Topmost(q))
                /\ Separate(ptable[p].desc, ptable[p].desc + DESC,
                         ptable[q].desc, ptable[q].desc + DESC)

\* A process that does not run finds its own frame when it is resumed, unless
\* some process has overrun its stack (or was started with a stack smaller than
\* a frame).
FrameAt(p) ==
    \A w \in Words : sp[p] <= w /\ w < sp[p] + 4 * FRAME_WORDS =>
        contents[w] = p

ResumesOwnFrame ==
    kernel = "running" /\ overran = {} =>
        \A q \in Pids \ {current} : FrameAt(q)

\* "To help detect overflow": a process that has written the last word of its
\* stack, in a call from which it has returned since or in a frame that was
\* saved without a check, gets no further than its next system call, for nobody
\* makes that word blank again.
OverflowDetected ==
    [][\A p \in spent', q \in Pids : system_call(p, q) => kernel' = "panic"]_heapVars

\* An overrun goes unnoticed only by stepping over the last word: a function
\* was called that had it among its locals and left it alone.
OverrunAccounted == overran \subseteq spent \cup skipped

\* Overrunning a stack does not reach "its own descriptor or that of its
\* neighbour": stacks grow down, away from the descriptors.
DescriptorsSafe ==
    \A p \in Pids : \A w \in Words :
        ptable[p].desc <= w /\ w < ptable[p].desc + DESC => contents[w] = DescriptorOf(p)

\* The scan of microbian_dump() for the first word in use ends within the stack,
\* and no higher than what the process has in use.
ScanEnds ==
    kernel = "running" /\ overran = {} =>
        \A p \in Pids \ {current} :
            LET used == {w \in Words : Bottommost(p) <= w /\ w < Topmost(p)
                                        /\ contents[w] # BLANK}
            IN \E w \in used : w <= sp[p]

\* A stack is safe from all but its neighbour's overrun, which stays away from
\* the descriptors and is detected if it left its mark, and the dump can find
\* the end of a stack.
StacksSafe ==
    /\ [](ResumesOwnFrame /\ DescriptorsSafe /\ ScanEnds /\ OverrunAccounted)
    /\ OverflowDetected
=============================================================================
