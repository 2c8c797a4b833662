-------------------------------- MODULE Context --------------------------------
(***************************************************************************)
(* Saving and restoring a process's registers at a system call or a        *)
(* context switch: isave and irestore of mpx-m0.s and mpx-m4.s with what   *)
(* the processor does, the frame that start() fakes, and the arguments     *)
(* system_call() reads.  A value is a triple, so that any two can be told  *)
(* apart; a pointer is the number of a word of a frame.                    *)
(***************************************************************************)
EXTENDS Integers, Sequences

CONSTANT Tasks      \* The processes

ChipNames == {"m0", "m4"}

\* Registers: r0 .. r12, lr, pc and the status register.
LR == 14
PC == 15
PSR == 16
Registers == 0 .. 12 \cup {LR, PC, PSR}

\* The words of a frame, as system_call() and start() number them, and as the
\* processor saves r0 - r3, r12, lr, pc and the status.
ERV_SAVE == 0
R0_SAVE == 9
LR_SAVE == 14
PC_SAVE == 15
PSR_SAVE == 16
FrameWords == 0 .. 16

HardwareSaved == <<0, 1, 2, 3, 12, LR, PC, PSR>>
CallerSaved == {0, 1, 2, 3, 12}

VARIABLES
    chip,           \* The processor
    regs,           \* The registers
    frame,          \* frame[p]: the 17 words below p's stack pointer
    runs,           \* The process whose context the registers hold or held last
    at,             \* What is done next; "process" when the process itself runs
    called,         \* Whether this is a system call, not a context switch
    (* Ghosts *)
    own,            \* own[p]: p's registers when it ran last
    sysargs         \* The arguments system_call() has read

contextVars == <<chip, regs, frame, runs, at, called, own, sysargs>>

Zero == <<"zero", 0, 0>>
Junk == <<"junk", 0, 0>>
MAGIC == <<"magic", 0, 0>>
Pointer(word) == <<"pointer", 0, word>>
Constant(c) == <<c, 0, 0>>
Value(p, r, v) == <<p, r, v>>

ARGUMENT_SAVE == R0_SAVE

\* The frame faked by start().
NewFrame(p) ==
    [w \in FrameWords |->
        CASE w = PSR_SAVE      -> Constant("INIT_PSR")
          [] w = PC_SAVE       -> Constant("body")
          [] w = LR_SAVE       -> Constant("exit")
          [] w = ARGUMENT_SAVE -> Value(p, 0, 0)
          [] w = ERV_SAVE      -> MAGIC
          [] OTHER             -> Zero]

\* What a process finds in its registers when it starts: it is called with its
\* argument in r0 and returns to exit().
NewRegisters(p) ==
    [r \in Registers |->
        CASE r = PSR -> Constant("INIT_PSR")
          [] r = PC  -> Constant("body")
          [] r = LR  -> Constant("exit")
          [] r = 0   -> Value(p, 0, 0)
          [] OTHER   -> Zero]

\* The first process to run is already running.
ContextInit ==
    /\ chip \in ChipNames
    /\ runs \in Tasks
    /\ frame = [p \in Tasks |-> NewFrame(p)]
    /\ own = [p \in Tasks |-> NewRegisters(p)]
    /\ regs = own[runs]
    /\ at = "process" /\ called = FALSE /\ sysargs = <<>>

-----------------------------------------------------------------------------
\* The process computes, and any register may hold a value of its own.
Compute(v) ==
    /\ at = "process"
    /\ regs' = [r \in Registers |-> Value(runs, r, v)]
    /\ UNCHANGED <<chip, frame, runs, at, called, own, sysargs>>

(* The processor (external).  It saves eight registers and puts a magic    *)
(* value in lr.                                                            *)
Exception(isCall) ==
    /\ at = "process" /\ at' = "entry"
    /\ called' = isCall
    /\ own' = [own EXCEPT ![runs] = regs]
    /\ frame' = [frame EXCEPT ![runs] = [w \in FrameWords |->
                    IF w >= R0_SAVE THEN regs[HardwareSaved[w - R0_SAVE + 1]]
                    ELSE Junk]]
    /\ regs' = [regs EXCEPT ![LR] = MAGIC]
    /\ UNCHANGED <<chip, runs, sysargs>>

\* Another handler runs first: it is C code and preserves r4 to r11.
Clobbered == [r \in Registers |-> IF r \in CallerSaved THEN Junk ELSE regs[r]]

Intervene ==
    /\ at = "entry"
    /\ regs' = Clobbered
    /\ UNCHANGED <<chip, frame, runs, at, called, own, sysargs>>

\* The return restores them from the 8 words above the stack pointer.
ExceptionReturn ==
    /\ at = "return"
    /\ regs[3] = MAGIC
    /\ LET psp == regs[0][3]
       IN regs' = [r \in Registers |->
                     IF \E i \in 1 .. 8 : HardwareSaved[i] = r
                     THEN frame[runs][psp - 1 + CHOOSE i \in 1 .. 8 :
                                                    HardwareSaved[i] = r]
                     ELSE regs[r]]
    /\ at' = "process"
    /\ UNCHANGED <<chip, frame, runs, called, own, sysargs>>

-----------------------------------------------------------------------------
(* Instructions that move several registers.                               *)
\* stm pointer!, {a - b}: to the words from first on.
Stored(p, first, a, b) ==
    [frame EXCEPT ![p] = [w \in DOMAIN @ |->
        IF w \in first .. first + b - a THEN regs[a + w - first] ELSE @[w]]]

\* ldm pointer!, {a - b}
Loaded(p, first, a, b) ==
    [r \in Registers |->
        IF r \in a .. b THEN frame[p][first + r - a] ELSE regs[r]]

\* mov r(a) .. r(a + 3) from r(b) .. r(b + 3)
Moved(a, b) ==
    [r \in Registers |-> IF r \in a .. a + 3 THEN regs[b + r - a] ELSE regs[r]]

Step(from, to) ==
    /\ at = from /\ at' = to
    /\ UNCHANGED <<chip, runs, called, own>>

\* mrs r0, psp and, on the M0, subs and movs; mov r3, lr
BeginSave ==
    /\ Step("entry", IF chip = "m0" THEN "low" ELSE "all")
    /\ LET bottom == Pointer(IF chip = "m0" THEN R0_SAVE - 9 ELSE R0_SAVE)
       IN regs' = [regs EXCEPT ![0] = bottom, ![3] = regs[LR],
                               ![1] = IF chip = "m0" THEN bottom ELSE @]
    /\ UNCHANGED <<frame, sysargs>>

\* The M4 saves r3 to r11 with one instruction, ...
SaveAll ==
    /\ Step("all", "chosen")
    /\ frame' = Stored(runs, regs[0][3] - 9, 3, 11)
    /\ regs' = [regs EXCEPT ![0] = Pointer(@[3] - 9)]
    /\ UNCHANGED sysargs

\* ... the M0 saves the low ones first and the high ones through them.
SaveLow ==
    /\ Step("low", "high")
    /\ frame' = Stored(runs, regs[1][3], 3, 7)
    /\ regs' = [Moved(4, 8) EXCEPT ![1] = Pointer(@[3] + 5)]
    /\ UNCHANGED sysargs

SaveHigh ==
    /\ Step("high", "chosen")
    /\ frame' = Stored(runs, regs[1][3], 4, 7)
    /\ UNCHANGED <<regs, sysargs>>

sysarg(i) == frame[runs][R0_SAVE + i]

\* system_call() or cxt_switch() is given the stack pointer and returns that of
\* the process it chooses; as C code it preserves r4 to r11.
Choose(q) ==
    /\ at = "chosen" /\ at' = "restore"
    /\ sysargs' = IF called THEN <<sysarg(0), sysarg(1), sysarg(2)>> ELSE <<>>
    /\ runs' = q
    /\ regs' = [Clobbered EXCEPT ![0] = Pointer(0)]
    /\ UNCHANGED <<chip, frame, called, own>>

RestoreAll ==
    /\ chip = "m4" /\ Step("restore", "return")
    /\ regs' = [Loaded(runs, regs[0][3], 3, 11) EXCEPT ![0] = Pointer(@[3] + 9)]
    /\ UNCHANGED <<frame, sysargs>>

\* Seeded fault: r10 and r11 are not copied.
RestoreHighTwo ==
    /\ chip = "m0" /\ Step("restore", "low again")
    /\ LET high == Loaded(runs, regs[0][3] + 5, 4, 7)
       IN regs' = [r \in Registers |->
                     CASE r = 0      -> Pointer(regs[0][3] + 9)
                       [] r = 1      -> regs[0]
                       [] r \in {8, 9} -> high[r - 4]
                       [] OTHER      -> high[r]]
    /\ UNCHANGED <<frame, sysargs>>

RestoreHigh ==
    /\ chip = "m0" /\ Step("restore", "low again")
    /\ LET high == Loaded(runs, regs[0][3] + 5, 4, 7)
       IN regs' = [r \in Registers |->
                     CASE r = 0       -> Pointer(regs[0][3] + 9)
                       [] r = 1       -> regs[0]
                       [] r \in 8 .. 11 -> high[r - 4]
                       [] OTHER       -> high[r]]
    /\ UNCHANGED <<frame, sysargs>>

RestoreLow ==
    /\ Step("low again", "return")
    /\ regs' = Loaded(runs, regs[1][3], 3, 7)
    /\ UNCHANGED <<frame, sysargs>>

ContextNext ==
    \/ \E v \in 1 .. 2 : Compute(v)
    \/ \E isCall \in BOOLEAN : Exception(isCall)
    \/ Intervene \/ BeginSave \/ SaveAll \/ SaveLow \/ SaveHigh
    \/ \E q \in Tasks : Choose(q)
    \/ RestoreAll \/ RestoreHigh \/ RestoreLow \/ ExceptionReturn

ContextSpec == ContextInit /\ [][ContextNext]_contextVars

-----------------------------------------------------------------------------
\* A process that is resumed finds in every register what it held when it was
\* interrupted or, the first time, what start() promises it, on both chips.
ResumesWithOwn ==
    [][at' = "process" /\ at # "process" => regs' = own[runs]]_contextVars

\* system_call() reads the arguments that the process put in r0 to r2, whatever
\* interrupt "may have intervened and trashed these registers".
ArgumentsSurvive ==
    [][at = "chosen" /\ called /\ at' = "restore" =>
          sysargs' = <<own[runs][0], own[runs][1], own[runs][2]>>]_contextVars

\* The magic value that the exception return needs is the first word of every
\* saved frame.
MagicSaved ==
    \A p \in Tasks : p # runs \/ at \in {"chosen", "restore"} =>
        frame[p][ERV_SAVE] = MAGIC

\* Exception entry, isave, irestore and the frame that start() fakes agree on
\* the place of every register.
FramesKept == []MagicSaved /\ ResumesWithOwn /\ ArgumentsSurvive
=============================================================================
