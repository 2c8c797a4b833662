----------------------------- MODULE PartProofs -----------------------------
(***************************************************************************)
(* Theorems of the parts of the kernel that share no state with each       *)
(* other: the service of timeouts, the storage of processes, the saving    *)
(* and restoring of contexts, printing in emergencies and interrupts. Each *)
(* has an inductive invariant of its own, and no constant has a given      *)
(* value.                                                                  *)
(***************************************************************************)
EXTENDS TickClock, Heap, Context, Kprintf, Interrupts, TimeoutFacts, SequenceTheorems

-----------------------------------------------------------------------------
(***************************************************************************)
(* Theorems of TickClock, for every finite set of processes, every tick    *)
(* length and all delays small enough for their sums to fit an int.        *)
(*                                                                         *)
(* The inductive invariant adds to that of the service what relates its    *)
(* fields to the callers, and the age of each timeout to what is left of   *)
(* it: the time accounted for lags real time by at most the tick that was  *)
(* running when the timeout was set.                                       *)
(***************************************************************************)

ClockTyped ==
    /\ fired \in Seq(Proc)
    /\ sub \in 0 .. TICK
    /\ asked \in [Proc -> {0} \cup Delays]
    /\ age \in [Proc -> Nat]

\* A process that waits has asked for a delay, and only it has an age.
Callers ==
    \A p \in Proc : /\ asked[p] # 0 <=> timeout[p] # NO_TIME
                    /\ asked[p] = 0 => age[p] = 0

\* The part of a timeout already accounted for, and its age.
Ages ==
    \A p \in Timed :
        /\ age[p] >= sub + asked[p] - (timeout[p] - ticks) - TICK
        /\ age[p] <= sub + asked[p] - (timeout[p] - ticks)

IInv ==
    /\ TimeoutsInv
    /\ ClockTyped
    /\ Callers
    /\ Ages

-----------------------------------------------------------------------------
(* The invariant *)

\* The integers that the steps below compute with.
LEMMA Typed ==
    ASSUME SmallDelays, IInv
    PROVE  /\ timeout \in [Proc -> Int] /\ ticks \in Nat
           /\ sub \in Nat /\ sub <= TICK
           /\ \A p \in Proc : timeout[p] \in Int /\ asked[p] \in Nat /\ age[p] \in Nat
           /\ Timed \subseteq Proc
<1>1. TICK \in Nat /\ \A x \in {0} \cup Delays : x \in Nat
  BY Constants
<1>2. /\ timeout \in [Proc -> Int] /\ ticks \in Nat
      /\ sub \in 0 .. TICK
      /\ asked \in [Proc -> {0} \cup Delays] /\ age \in [Proc -> Nat]
  BY DEF IInv, TimeoutsInv, TimesTyped, ClockTyped
<1>3. \A p \in Proc : timeout[p] \in Int /\ asked[p] \in Nat /\ age[p] \in Nat
  <2> SUFFICES ASSUME NEW p \in Proc
               PROVE  timeout[p] \in Int /\ asked[p] \in Nat /\ age[p] \in Nat
    OBVIOUS
  <2>1. asked[p] \in {0} \cup Delays
    BY <1>2
  <2> QED BY <1>1, <1>2, <2>1
<1> QED BY <1>1, <1>2, <1>3 DEF Timed

LEMMA InitInv ==
    ASSUME SmallDelays, Init
    PROVE  IInv
<1>1. TimeoutsInv /\ Timed = {}
  BY TimeoutsInitInv DEF Init
<1>2. ClockTyped /\ Callers
  BY Constants, EmptySeq DEF Init, TimeoutsInit, ClockTyped, Callers
<1> QED BY <1>1, <1>2 DEF IInv, Ages

LEMMA BeginInv ==
    ASSUME SmallDelays, IInv, NEW p \in Proc, NEW ms \in Delays, Begin(p, ms)
    PROVE  IInv'
<1>1. timeout[p] = NO_TIME /\ SetTimeout(p, ms)
  BY DEF IInv, Callers, Begin
<1>2. /\ TimeoutsInv' /\ Timed' = Timed \cup {p} /\ p \notin Timed
      /\ timeout' = [timeout EXCEPT ![p] = ticks + ms] /\ ticks' = ticks
  BY <1>1, SetTimeoutStep DEF IInv
<1>3. /\ sub' = sub /\ fired' = <<>>
      /\ asked' = [asked EXCEPT ![p] = ms] /\ age' = [age EXCEPT ![p] = 0]
  BY DEF Begin
<1>4. ClockTyped'
  BY <1>3, EmptySeq DEF IInv, ClockTyped
<1>5. timeout'[p] = ticks + ms /\ asked'[p] = ms /\ age'[p] = 0
  BY <1>2, <1>3, Typed DEF IInv, ClockTyped
<1>6. \A q \in Proc \ {p} : UNCHANGED <<timeout[q], asked[q], age[q]>>
  BY <1>2, <1>3, Typed DEF IInv, ClockTyped
<1>7. Callers'
  <2>1. p \in Timed' => timeout'[p] # NO_TIME
    BY DEF Timed
  <2> QED BY <1>2, <1>5, <1>6, <2>1, Constants DEF IInv, Callers
<1>8. Ages'
  <2>1. \A q \in Timed : q \in Proc \ {p}
    BY <1>2, Typed
  <2>2. \A q \in Timed :
           /\ age'[q] >= sub' + asked'[q] - (timeout'[q] - ticks') - TICK
           /\ age'[q] <= sub' + asked'[q] - (timeout'[q] - ticks')
    BY <1>2, <1>3, <1>6, <2>1 DEF IInv, Ages
  <2>3. /\ age'[p] >= sub' + asked'[p] - (timeout'[p] - ticks') - TICK
        /\ age'[p] <= sub' + asked'[p] - (timeout'[p] - ticks')
    BY <1>2, <1>3, <1>5, Typed, Constants
  <2> QED BY <1>2, <2>2, <2>3 DEF Ages
<1> QED BY <1>2, <1>4, <1>7, <1>8 DEF IInv

LEMMA GetMessageInv ==
    ASSUME SmallDelays, IInv, NEW p \in Proc, GetMessage(p)
    PROVE  IInv'
<1>1. p \in Timed /\ CancelTimeout(p)
  BY DEF IInv, GetMessage, Callers, Timed
<1>2. /\ TimeoutsInv' /\ Timed' = Timed \ {p}
      /\ timeout' = [timeout EXCEPT ![p] = NO_TIME] /\ ticks' = ticks
  BY <1>1, CancelTimeoutStep DEF IInv
<1>3. /\ sub' = sub /\ fired' = <<>>
      /\ asked' = [asked EXCEPT ![p] = 0] /\ age' = [age EXCEPT ![p] = 0]
  BY DEF GetMessage
<1>4. ClockTyped'
  BY <1>3, EmptySeq DEF IInv, ClockTyped
<1>5. timeout'[p] = NO_TIME /\ asked'[p] = 0 /\ age'[p] = 0
  BY <1>2, <1>3, Typed DEF IInv, ClockTyped
<1>6. \A q \in Proc \ {p} : UNCHANGED <<timeout[q], asked[q], age[q]>>
  BY <1>2, <1>3, Typed DEF IInv, ClockTyped
<1>7. Callers'
  BY <1>5, <1>6 DEF IInv, Callers
<1>8. Ages'
  BY <1>2, <1>3, <1>6, Typed DEF IInv, Ages
<1> QED BY <1>2, <1>4, <1>7, <1>8 DEF IInv

LEMMA PassInv ==
    ASSUME SmallDelays, IInv, Pass
    PROVE  IInv'
<1>1. /\ UNCHANGED <<timeout, timeouts, ticks, next_time, fired, asked>>
      /\ sub < TICK /\ sub' = sub + 1
      /\ age' = [p \in Proc |-> IF asked[p] # 0 THEN age[p] + 1 ELSE 0]
  BY DEF Pass, timeoutVars
<1>2. Timed' = Timed /\ TimeoutsInv'
  BY <1>1
  DEF IInv, TimeoutsInv, TimesTyped, ArrayMatchesFields, NextTimeIsEarly,
      TimesFit, Timed
<1>3. ClockTyped' /\ Callers'
  BY <1>1, Typed, Constants DEF IInv, ClockTyped, Callers
<1>4. \A p \in Timed : age'[p] = age[p] + 1
  BY <1>1 DEF IInv, Callers, Timed
<1>5. Ages'
  BY <1>1, <1>2, <1>4, Typed, Constants DEF IInv, Ages
<1> QED BY <1>2, <1>3, <1>5 DEF IInv

LEMMA TickInv ==
    ASSUME SmallDelays, IInv, Tick
    PROVE  IInv'
<1>1. PICK f \in Firings : MiniTick(TICK, f) /\ fired' = f
  BY DEF Tick
<1>2. /\ sub = TICK /\ sub' = 0
      /\ asked' = [p \in Proc |-> IF p \in ToSet(f) THEN 0 ELSE asked[p]]
      /\ age' = [p \in Proc |-> IF p \in ToSet(f) THEN 0 ELSE age[p]]
  BY <1>1 DEF Tick, Woken
<1>3. /\ TimeoutsInv'
      /\ Lists(f, {p \in Timed : timeout[p] < ticks})
      /\ Timed' = {p \in Timed : ~(timeout[p] < ticks)}
      /\ \A p \in Timed' : timeout'[p] - ticks' = timeout[p] - ticks - TICK
  BY <1>1, MiniTickStep DEF IInv
<1>4. /\ ToSet(f) \subseteq Timed /\ Timed' = Timed \ ToSet(f)
      /\ ToSet(f) = {p \in Timed : timeout[p] < ticks}
  BY <1>3 DEF Lists
<1>5. f \in Seq(Proc)
  <2>1. f \in Seq(ToSet(f)) /\ ToSet(f) \subseteq Proc
    BY <1>3, <1>4, Typed DEF Lists
  <2>2. f \in [1 .. Len(f) -> Proc] /\ Len(f) \in Nat
    BY <2>1, LenProperties
  <2> QED BY <2>2
<1>6. ClockTyped'
  BY <1>1, <1>2, <1>5, Constants DEF IInv, ClockTyped
<1>7. Callers'
  <2>1. ASSUME NEW p \in Proc
        PROVE  /\ asked'[p] # 0 <=> p \in Timed \ ToSet(f)
               /\ asked'[p] = 0 => age'[p] = 0
    BY <1>2, <1>4 DEF IInv, Callers, Timed
  <2>2. \A p \in Proc : timeout'[p] # NO_TIME <=> p \in Timed \ ToSet(f)
    BY <1>4 DEF Timed
  <2> QED BY <2>1, <2>2 DEF Callers
<1>8. Ages'
  <2>1. ASSUME NEW p \in Timed'
        PROVE  /\ age'[p] >= 0 + asked'[p] - (timeout'[p] - ticks') - TICK
               /\ age'[p] <= 0 + asked'[p] - (timeout'[p] - ticks')
    <3>1. p \in Timed /\ p \in Proc /\ asked'[p] = asked[p] /\ age'[p] = age[p]
      BY <1>2, <1>4, Typed
    <3>2. timeout'[p] - ticks' = timeout[p] - ticks - TICK
      BY <1>3
    <3>3. /\ age[p] >= TICK + asked[p] - (timeout[p] - ticks) - TICK
          /\ age[p] <= TICK + asked[p] - (timeout[p] - ticks)
      BY <1>2, <3>1 DEF IInv, Ages
    <3> QED BY <3>1, <3>2, <3>3, Typed, Constants
  <2> QED BY <1>2, <2>1 DEF Ages
<1> QED BY <1>3, <1>6, <1>7, <1>8 DEF IInv

LEMMA NextInv ==
    ASSUME SmallDelays, IInv, [Next]_vars
    PROVE  IInv'
<1>1. ASSUME NEW p \in Proc, NEW ms \in Delays, Begin(p, ms) PROVE IInv'
  BY <1>1, BeginInv
<1>2. ASSUME NEW p \in Proc, GetMessage(p) PROVE IInv'
  BY <1>2, GetMessageInv
<1>3. CASE Pass
  BY <1>3, PassInv
<1>4. CASE Tick
  BY <1>4, TickInv
<1>5. CASE UNCHANGED vars
  BY <1>5
  DEF vars, timeoutVars, clockVars, IInv, TimeoutsInv, TimesTyped,
      ArrayMatchesFields, NextTimeIsEarly, TimesFit, ClockTyped, Callers, Ages, Timed
<1> QED BY <1>1, <1>2, <1>3, <1>4, <1>5 DEF Next

\* The inductive invariant holds throughout.
THEOREM Invariance == ASSUME SmallDelays PROVE Spec => []IInv
<1>1. Init => IInv
  BY InitInv
<1>2. IInv /\ [Next]_vars => IInv'
  BY NextInv
<1> QED BY <1>1, <1>2, PTL DEF Spec

-----------------------------------------------------------------------------
(* What follows from it *)

\* The delays are small enough for every time to fit an int: no sum of
\* set_timeout() or mini_tick() wraps.
THEOREM TypeCorrect == ASSUME SmallDelays PROVE Spec => []TypeOK
<1>1. IInv => TypeOK
  <2> SUFFICES ASSUME IInv PROVE TypeOK
    OBVIOUS
  <2>1. /\ \A p \in Timed : /\ timeout[p] - ticks >= -TICK
                            /\ 2*(timeout[p] - ticks + TICK) < Half
        /\ 2*ticks < Half /\ next_time \in Int
        /\ next_time # NO_TIME => -TICK <= next_time /\ 2*(next_time + TICK) < Half
    BY DEF IInv, TimeoutsInv, TimesFit, TimesTyped
  <2>2. \A p \in Timed : timeout[p] \in Times
    BY <2>1, Typed, Constants DEF Times
  <2>3. NO_TIME \in Times /\ ticks \in Times
    BY <2>1, Typed, Constants DEF Times
  <2>4. next_time \in Times
    BY <2>1, <2>3, Constants DEF Times
  <2>5. timeout \in [Proc -> Times]
    BY <2>2, <2>3, Typed DEF Timed
  <2>6. timeouts \in Seq(Proc)
    <3>1. timeouts \in Seq(Timed) /\ Timed \subseteq Proc
      BY DEF IInv, TimeoutsInv, ArrayMatchesFields, Lists, Timed
    <3>2. timeouts \in [1 .. Len(timeouts) -> Proc] /\ Len(timeouts) \in Nat
      BY <3>1, LenProperties
    <3> QED BY <3>2
  <2> QED BY <2>3, <2>4, <2>5, <2>6 DEF IInv, ClockTyped, TypeOK
<1> QED BY <1>1, Invariance, PTL

\* The array and the fields agree, no expired timeout is skipped, and every
\* time fits.
THEOREM ServiceCorrect == ASSUME SmallDelays PROVE Spec => []TimeoutsInv
<1>1. IInv => TimeoutsInv
  BY DEF IInv
<1> QED BY <1>1, Invariance, PTL

\* The assertions of the three operations hold at every call.
THEOREM AssertionsCorrect == ASSUME SmallDelays PROVE Spec => []AssertionsHold
<1>1. IInv => AssertionsHold
  <2> SUFFICES ASSUME IInv PROVE AssertionsHold
    OBVIOUS
  <2>1. ArrayMatchesFields /\ Listed = Timed
    BY ListedIsTimed DEF IInv, TimeoutsInv
  <2>2. ASSUME NEW p \in Proc, asked[p] = 0 PROVE MaySet(p)
    BY <2>1, <2>2, TimeoutsFit DEF IInv, Callers, MaySet
  <2>3. ASSUME NEW p \in Proc, asked[p] # 0 PROVE MayCancel(p)
    BY <2>1, <2>3 DEF IInv, Callers, MayCancel, Timed
  <2>4. MayTick
    BY <2>1 DEF MayTick, Timed
  <2> QED BY <2>2, <2>3, <2>4 DEF AssertionsHold
<1> QED BY <1>1, Invariance, PTL

\* A receive with a timeout ends at most two ticks after its delay.
THEOREM NeverLateCorrect == ASSUME SmallDelays PROVE Spec => []NeverLate
<1>1. IInv => NeverLate
  <2> SUFFICES ASSUME IInv, NEW p \in Proc PROVE age[p] <= asked[p] + 2*TICK
    BY DEF NeverLate
  <2>1. CASE p \notin Timed
    BY <2>1, Typed, Constants DEF IInv, Callers, Timed
  <2>2. CASE p \in Timed
    <3>1. /\ age[p] <= sub + asked[p] - (timeout[p] - ticks)
          /\ timeout[p] - ticks >= -TICK
      BY <2>2 DEF IInv, Ages, TimeoutsInv, TimesFit
    <3> QED BY <3>1, Typed, Constants
  <2> QED BY <2>1, <2>2
<1> QED BY <1>1, Invariance, PTL

\* No timeout fires before its delay has passed, though each is set at any
\* moment between two ticks.
THEOREM NeverEarlyCorrect == ASSUME SmallDelays PROVE Spec => NeverEarly
<1>1. IInv /\ [Next]_vars => [\A p \in Proc : Fires(p) => age[p] >= asked[p]]_vars
  <2> SUFFICES ASSUME IInv, Next, NEW p \in Proc, Fires(p)
               PROVE  age[p] >= asked[p]
    OBVIOUS
  <2>1. Tick
    BY Typed DEF Next, Begin, GetMessage, Pass, Fires
  <2>2. PICK f : MiniTick(TICK, f)
    BY <2>1 DEF Tick
  <2>3. p \in Timed /\ p \notin Timed'
    BY DEF Fires, Timed
  <2>4. timeout[p] < ticks
    BY <2>2, <2>3, MiniTickStep DEF IInv
  <2>5. age[p] >= TICK + asked[p] - (timeout[p] - ticks) - TICK
    BY <2>1, <2>3 DEF Tick, IInv, Ages
  <2> QED BY <2>4, <2>5, Typed, Constants
<1> QED BY <1>1, Invariance, PTL DEF Spec, NeverEarly

-----------------------------------------------------------------------------
(* Refinement *)

Left == [p \in Listed |-> timeout[p] - ticks]

\* The array, the accumulator and the cached earliest time implement
\* independent countdowns: each operation maps to the abstract one, and the
\* passing of time between two ticks to a stutter.
THEOREM CountdownImplemented == ASSUME SmallDelays PROVE Spec => ImplementsCountdown
<1>1. Init => C!Init
  BY DEF Init, TimeoutsInit, C!Init, Listed, ToSet
<1>2. ASSUME IInv, [Next]_vars PROVE [C!Next]_(C!vars)
  <2>1. Listed = Timed /\ Listed' = Timed' /\ DOMAIN Left = Timed
    <3>1. ArrayMatchesFields /\ ArrayMatchesFields'
      BY <1>2, NextInv DEF IInv, TimeoutsInv
    <3>2. Listed = Timed /\ Listed' = Timed'
      BY <3>1 DEF ArrayMatchesFields, Lists, Listed
    <3> QED BY <3>2 DEF Left
  <2>2. timeout \in [Proc -> Int] /\ ticks \in Nat /\ Timed \subseteq Proc
    BY <1>2, Typed
  <2>3. ASSUME NEW p \in Proc, NEW ms \in Delays, Begin(p, ms)
        PROVE  C!Set(p, ms)
    <3>1. timeout[p] = NO_TIME /\ SetTimeout(p, ms) /\ fired' = <<>>
      BY <1>2, <2>3 DEF IInv, Callers, Begin
    <3>2. /\ Timed' = Timed \cup {p} /\ p \notin Timed
          /\ timeout' = [timeout EXCEPT ![p] = ticks + ms] /\ ticks' = ticks
      BY <1>2, <3>1, SetTimeoutStep DEF IInv
    <3>3. Left' = [q \in Timed \cup {p} |-> IF q = p THEN ms ELSE Left[q]]
      <4>1. \A q \in Timed \cup {p} :
               timeout'[q] - ticks' = IF q = p THEN ms ELSE timeout[q] - ticks
        BY <2>2, <3>2, Constants
      <4> QED BY <2>1, <3>2, <4>1 DEF Left
    <3>4. ToSet(fired') = {}
      BY <3>1 DEF ToSet
    <3> QED BY <2>1, <3>2, <3>3, <3>4 DEF C!Set, Left
  <2>4. ASSUME NEW p \in Proc, GetMessage(p)
        PROVE  C!Cancel(p)
    <3>1. p \in Timed /\ CancelTimeout(p) /\ fired' = <<>>
      BY <1>2, <2>4 DEF IInv, Callers, GetMessage, Timed
    <3>2. /\ Timed' = Timed \ {p}
          /\ timeout' = [timeout EXCEPT ![p] = NO_TIME] /\ ticks' = ticks
      BY <1>2, <3>1, CancelTimeoutStep DEF IInv
    <3>3. Left' = [q \in Timed \ {p} |-> Left[q]]
      <4>1. \A q \in Timed \ {p} : timeout'[q] - ticks' = timeout[q] - ticks
        BY <2>2, <3>2
      <4> QED BY <2>1, <3>2, <4>1 DEF Left
    <3>4. ToSet(fired') = {}
      BY <3>1 DEF ToSet
    <3> QED BY <2>1, <3>1, <3>3, <3>4 DEF C!Cancel, Left
  <2>5. CASE Pass
    <3>1. UNCHANGED <<Left, ToSet(fired)>>
      BY <2>5 DEF Pass, timeoutVars, Left, Listed, ToSet
    <3> QED BY <3>1 DEF C!vars, Left
  <2>6. CASE Tick
    <3>1. PICK f \in Firings : MiniTick(TICK, f) /\ fired' = f
      BY <2>6 DEF Tick
    <3>2. /\ ToSet(fired') = {p \in Timed : timeout[p] < ticks}
          /\ Timed' = Timed \ ToSet(fired')
          /\ \A p \in Timed' : timeout'[p] - ticks' = timeout[p] - ticks - TICK
      BY <1>2, <3>1, MiniTickStep DEF IInv, Lists
    <3>3. ToSet(fired') = {p \in DOMAIN Left : Left[p] < 0}
      <4>1. \A p \in Timed : Left[p] < 0 <=> timeout[p] < ticks
        BY <2>1, <2>2 DEF Left
      <4> QED BY <2>1, <3>2, <4>1
    <3>4. Left' = [p \in DOMAIN Left \ ToSet(fired') |-> Left[p] - TICK]
      BY <2>1, <3>2 DEF Left
    <3>5. C!Tick <=>
             /\ ToSet(fired') = {p \in DOMAIN Left : Left[p] < 0}
             /\ Left' = [p \in DOMAIN Left \ ToSet(fired') |-> Left[p] - TICK]
      BY Zenon DEF C!Tick, Left
    <3> QED BY <3>3, <3>4, <3>5 DEF C!Next
  <2>7. CASE UNCHANGED vars
    BY <2>7 DEF vars, timeoutVars, clockVars, C!vars, Listed
  <2> QED BY <1>2, <2>3, <2>4, <2>5, <2>6, <2>7 DEF Next, C!Next
<1> QED BY <1>1, <1>2, Invariance, PTL DEF Spec, C!Spec, ImplementsCountdown

-----------------------------------------------------------------------------
(***************************************************************************)
(* Theorems of Heap: that what is allocated is apart, and that an overrun  *)
(* of a stack does what the code expects and no more, for every size of    *)
(* the memory, the stacks, the frames and the table.                       *)
(***************************************************************************)

(* The invariant *)

\* The process that runs, or will be the first to.
Runner == IF current = 0 THEN 1 ELSE current

\* The variables have their types.
HeapTyped ==
    /\ hbot \in Nat /\ htop \in Nat /\ htop % 4 = 0
    /\ STATIC_END <= hbot /\ htop <= STACK_LIMIT
    /\ ptable \in Seq([desc : Nat, stack : Nat, stksize : Nat])
    /\ sp \in Seq(Int) /\ Len(sp) = Len(ptable)
    /\ contents \in [Words -> Int]
    /\ overran \subseteq Pids /\ spent \subseteq Pids /\ skipped \subseteq Pids
    /\ kernel \in {"boot", "init", "running", "panic"}
    /\ IF kernel = "running" THEN current \in Pids ELSE current \in Nat
    /\ kernel \in {"boot", "init"} => current = 0
    /\ kernel = "boot" => ptable = <<>>
    /\ kernel = "init" => 1 \in Pids

\* All is in whole words, and a stack has at least two.
Aligned ==
    \A p \in Pids :
        /\ ptable[p].stksize >= 8 /\ ptable[p].stksize % 8 = 0
        /\ ptable[p].stack % 8 = 0 /\ sp[p] % 4 = 0

\* A process that does not run has a frame, in its stack if it never wrote
\* below it.
InStack ==
    \A p \in Pids :
        /\ sp[p] <= Topmost(p)
        /\ p # Runner =>
              /\ sp[p] + FrameSize <= Topmost(p)
              /\ p \notin overran => Bottommost(p) <= sp[p]

\* The last word of a stack, once written, is not blank again.
Marked == \A p \in spent : contents[Bottommost(p)] # BLANK

\* A stack pointer came down over the last word of the stack by a frame that
\* wrote it or by one that skipped it.
Accounted ==
    \A p \in Pids : p \in overran \/ sp[p] <= Bottommost(p) => p \in spent \cup skipped

\* What ResumesOwnFrame says, at any time.
OwnFrames == overran = {} => \A p \in Pids \ {Runner} : FrameAt(p)

HInv ==
    /\ HeapTyped /\ Disjoint /\ Aligned /\ InStack /\ Marked /\ Accounted
    /\ OwnFrames /\ DescriptorsSafe

-----------------------------------------------------------------------------
(* Arithmetic and memory *)

\* The constants, and the contents that are not BLANK.
LEMMA ConstantFacts ==
    /\ STATIC_END \in Nat /\ STACK_LIMIT \in Nat /\ STATIC_END <= STACK_LIMIT
    /\ STACK_LIMIT % 4 = 0 /\ DESC \in Nat \ {0} /\ DESC % 4 = 0
    /\ FrameSize \in Nat /\ FrameSize >= 4 /\ FrameSize % 4 = 0
    /\ 4 * FRAME_WORDS = FrameSize
    /\ BLANK = -1
    /\ \A p \in Nat \ {0} : p # BLANK /\ DescriptorOf(p) \in Int /\ DescriptorOf(p) # BLANK
    BY HeapAssumption, SMT DEF HeapAssumption, FrameSize, BLANK, DescriptorOf

\* Rounding up.
LEMMA Rounding ==
    ASSUME NEW n \in Nat
    PROVE  /\ ROUNDUP(n) \in Nat /\ n <= ROUNDUP(n) /\ ROUNDUP(n) % 8 = 0
           /\ n % 8 = 0 => ROUNDUP(n) = n
    BY SMT DEF ROUNDUP

\* The addresses of words.
LEMMA WordFacts ==
    /\ \A w \in Words : w \in Nat /\ w % 4 = 0 /\ w < STACK_LIMIT
    /\ \A w \in Nat : w % 4 = 0 /\ w < STACK_LIMIT => w \in Words
<1>1. \A w \in Words : w \in Nat /\ w % 4 = 0 /\ w < STACK_LIMIT
    BY ConstantFacts, SMT DEF Words
<1>2. ASSUME NEW w \in Nat, w % 4 = 0, w < STACK_LIMIT PROVE w \in Words
    <2>1. w \div 4 \in 0 .. STACK_LIMIT \div 4 - 1 /\ w = 4 * (w \div 4)
        BY <1>2, ConstantFacts, SMT
    <2> QED
        BY <2>1 DEF Words
<1> QED
    BY <1>1, <1>2

\* Memory after words have been written.
LEMMA FilledFacts ==
    ASSUME NEW m \in [Words -> Int], NEW a, NEW b, NEW v \in Int
    PROVE  /\ Filled(m, a, b, v) \in [Words -> Int]
           /\ \A w \in Words :
                Filled(m, a, b, v)[w] = IF a <= w /\ w < b THEN v ELSE m[w]
    BY DEF Filled

\* Processes are numbered from 1.
LEMMA PidFacts ==
    ASSUME HeapTyped
    PROVE  /\ Pids = 1 .. Len(ptable) /\ Len(ptable) \in Nat
           /\ \A p \in Pids : /\ p \in Nat \ {0} /\ sp[p] \in Int
                              /\ ptable[p].desc \in Nat /\ ptable[p].stack \in Nat
                              /\ ptable[p].stksize \in Nat
<1>1. Pids = 1 .. Len(ptable) /\ Len(ptable) \in Nat
    BY DEF HeapTyped, Pids
<1>2. ASSUME NEW p \in Pids
      PROVE  /\ p \in Nat \ {0} /\ sp[p] \in Int
             /\ ptable[p] \in [desc : Nat, stack : Nat, stksize : Nat]
    <2>1. p \in 1 .. Len(ptable) /\ p \in 1 .. Len(sp)
        BY <1>1 DEF HeapTyped
    <2>2. p \in Nat \ {0}
        BY <1>1, <2>1, SMT
    <2>3. sp[p] \in Int
        BY <2>1, SMT DEF HeapTyped
    <2>4. ptable[p] \in [desc : Nat, stack : Nat, stksize : Nat]
        <3> DEFINE S == [desc : Nat, stack : Nat, stksize : Nat]
        <3>1. ptable \in Seq(S)
            BY DEF HeapTyped
        <3> HIDE DEF S
        <3>2. ptable[p] \in S
            BY <2>1, <3>1, SMT
        <3> QED
            BY <3>2 DEF S
    <2> QED
        BY <2>2, <2>3, <2>4
<1>3. \A r \in [desc : Nat, stack : Nat, stksize : Nat] :
        r.desc \in Nat /\ r.stack \in Nat /\ r.stksize \in Nat
    OBVIOUS
<1> QED
    BY <1>1, <1>2, <1>3

-----------------------------------------------------------------------------
(* A process writes on its stack *)

\* What Writes() does.
LEMMA WritesFacts ==
    ASSUME HeapTyped, NEW p \in Pids, NEW touched \in SUBSET Words, Writes(p, touched)
    PROVE  /\ contents' \in [Words -> Int]
           /\ \A w \in Words : contents'[w] = IF w \in touched THEN p ELSE contents[w]
           /\ overran' \subseteq Pids
           /\ \A r \in Pids \ {p} : r \in overran' <=> r \in overran
           /\ p \in overran' <=> p \in overran \/ \E w \in touched : w < Bottommost(p)
           /\ spent' \subseteq Pids
           /\ \A r \in Pids \ {p} : r \in spent' <=> r \in spent
           /\ p \in spent' <=> p \in spent \/ Bottommost(p) \in touched
<1>1. contents \in [Words -> Int] /\ p \in Int /\ overran \subseteq Pids /\ spent \subseteq Pids
    <2>1. \A n \in Nat : n \in Int
        OBVIOUS
    <2> QED
        BY PidFacts, <2>1, Zenon DEF HeapTyped
<1>2. contents' = [w \in Words |-> IF w \in touched THEN p ELSE contents[w]]
    BY DEF Writes
<1>3. contents' \in [Words -> Int]
      /\ \A w \in Words : contents'[w] = IF w \in touched THEN p ELSE contents[w]
    BY <1>1, <1>2
<1>4. /\ overran' = IF \E w \in touched : w < Bottommost(p) THEN overran \cup {p} ELSE overran
      /\ spent' = IF Bottommost(p) \in touched THEN spent \cup {p} ELSE spent
    BY DEF Writes
<1> QED
    BY <1>1, <1>3, <1>4, Zenon

\* The words from a up to the stack pointer of p.
Extent(p, a) == {w \in Words : a <= w /\ w < sp[p]}

\* p has written some of the words from a to its stack pointer, and the processor
\* goes on with p, or with another process if p has written all of them: what a
\* call of a function, a system call and a context switch have in common.
Continues(p, a, touched) ==
    /\ a \in Nat /\ a % 4 = 0 /\ a <= sp[p]
    /\ touched \subseteq Extent(p, a) /\ Writes(p, touched)
    /\ skipped \subseteq skipped' /\ skipped' \subseteq Pids
    /\ Bottommost(p) \in Extent(p, a) => Bottommost(p) \in touched \/ p \in skipped'
    /\ UNCHANGED <<hbot, htop, ptable>>
    /\ kernel' \in {"running", "panic"} /\ current' \in Pids
    /\ sp' \in Seq(Int) /\ Len(sp') = Len(sp)
    /\ sp'[p] \in {a, sp[p]}
    /\ current' # p =>
          /\ touched = Extent(p, a)
          /\ a + FrameSize <= sp[p] /\ sp'[p] = a
          /\ sp'[current'] = sp[current'] + FrameSize
    /\ \A r \in Pids \ {p, current'} : sp'[r] = sp[r]

\* The stack of a process lies in the memory that is in use.
LEMMA StackPlace ==
    ASSUME HeapTyped, Disjoint, Aligned, NEW p \in Pids
    PROVE  /\ Bottommost(p) \in Words
           /\ Bottommost(p) \in Nat /\ Topmost(p) \in Nat
           /\ Topmost(p) >= Bottommost(p) + 8
           /\ Topmost(p) % 4 = 0 /\ Bottommost(p) % 4 = 0
           /\ Topmost(p) <= hbot /\ hbot <= htop
           /\ htop <= ptable[p].desc /\ ptable[p].desc + DESC <= STACK_LIMIT
<1> DEFINE s == ptable[p].stack
           z == ptable[p].stksize
           d == ptable[p].desc
<1>1. s \in Nat /\ z \in Nat /\ d \in Nat /\ hbot \in Nat /\ htop \in Nat
    BY PidFacts DEF HeapTyped
<1>2. z >= 8 /\ z % 8 = 0 /\ s % 8 = 0
    BY DEF Aligned
<1>3. Bottommost(p) = s /\ Topmost(p) = s + z
    BY DEF Bottommost, Topmost
<1>4. Topmost(p) <= hbot /\ hbot <= htop /\ htop <= d /\ d + DESC <= STACK_LIMIT
    BY Zenon DEF Disjoint
<1> HIDE DEF s, z, d
<1>5. (s + z) % 4 = 0 /\ s % 4 = 0 /\ s < STACK_LIMIT
    BY <1>1, <1>2, <1>3, <1>4, ConstantFacts, SMT
<1>6. s \in Words
    BY <1>1, <1>5, WordFacts
<1> QED
    BY <1>1, <1>2, <1>3, <1>4, <1>5, <1>6, SMT DEF d

\* No two stacks have a word in common.
LEMMA StacksApart ==
    ASSUME HeapTyped, Disjoint, NEW p \in Pids, NEW q \in Pids \ {p}, NEW w \in Int,
           Bottommost(p) <= w, w < Topmost(p)
    PROVE  w < Bottommost(q) \/ Topmost(q) <= w
<1>1. Separate(Bottommost(p), Topmost(p), Bottommost(q), Topmost(q))
    BY Zenon DEF Disjoint, Bottommost
<1>2. /\ Bottommost(p) \in Int /\ Topmost(p) \in Int
      /\ Bottommost(q) \in Int /\ Topmost(q) \in Int
    BY PidFacts, SMT DEF Bottommost, Topmost
<1> QED
    BY <1>1, <1>2, SMT DEF Separate

\* A process that writes on its stack leaves everybody else's as it is, unless
\* it leaves its own.
LEMMA ContinuesStep ==
    ASSUME HInv, NEW p \in Pids, NEW a, NEW touched, IsRunning(p), Continues(p, a, touched)
    PROVE  HInv'
<1>1. /\ HeapTyped /\ Disjoint /\ Aligned /\ InStack /\ Marked /\ Accounted
      /\ OwnFrames /\ DescriptorsSafe
    BY DEF HInv
<1>2. /\ UNCHANGED <<hbot, htop, ptable, Pids>>
      /\ a \in Nat /\ a % 4 = 0 /\ a <= sp[p] /\ p \in Nat \ {0}
    BY <1>1, PidFacts, Zenon DEF Continues, Pids
<1>3. \A r \in Pids : Bottommost(r)' = Bottommost(r) /\ Topmost(r)' = Topmost(r)
    BY <1>2, Zenon DEF Bottommost, Topmost
<1>4. /\ touched \subseteq Words
      /\ \A w \in touched : a <= w /\ w < sp[p]
      /\ contents' \in [Words -> Int]
      /\ \A w \in Words : contents'[w] = IF w \in touched THEN p ELSE contents[w]
      /\ overran' \subseteq Pids
      /\ \A r \in Pids \ {p} : r \in overran' <=> r \in overran
      /\ p \in overran' <=> p \in overran \/ \E w \in touched : w < Bottommost(p)
      /\ spent' \subseteq Pids
      /\ \A r \in Pids \ {p} : r \in spent' <=> r \in spent
      /\ p \in spent' <=> p \in spent \/ Bottommost(p) \in touched
      /\ skipped \subseteq skipped' /\ skipped' \subseteq Pids
    <2>1. /\ touched \subseteq Extent(p, a) /\ Writes(p, touched)
          /\ skipped \subseteq skipped' /\ skipped' \subseteq Pids
        BY DEF Continues
    <2>2. touched \in SUBSET Words /\ \A w \in touched : a <= w /\ w < sp[p]
        BY <2>1 DEF Extent
    <2> QED
        BY <1>1, <2>1, <2>2, WritesFacts, Zenon
<1>5. Runner = p /\ Runner' = current' /\ current' \in Pids
    <2>1. current = p /\ current' \in Pids
        BY DEF IsRunning, Continues
    <2>2. current' # 0 /\ current # 0
        BY <1>1, <1>2, <2>1, PidFacts, SMT
    <2> QED
        BY <2>1, <2>2 DEF Runner
<1>6. \A r \in Pids : /\ Bottommost(r) \in Words /\ sp[r] \in Int /\ r \in Nat \ {0}
                      /\ Bottommost(r) \in Nat /\ Topmost(r) \in Nat
                      /\ Bottommost(r) < Topmost(r)
                      /\ Topmost(r) <= hbot /\ hbot <= htop /\ htop <= ptable[r].desc
                      /\ ptable[r].desc \in Nat
    BY <1>1, StackPlace, PidFacts, SMT
<1>7. /\ sp'[p] \in {a, sp[p]}
      /\ current' # p => /\ touched = Extent(p, a)
                         /\ a + FrameSize <= sp[p] /\ sp'[p] = a
                         /\ sp'[current'] = sp[current'] + FrameSize
      /\ \A r \in Pids \ {p, current'} : sp'[r] = sp[r]
    BY DEF Continues
<1>8. \A w \in Words : w \in Nat
    BY WordFacts
<1>9. hbot \in Nat /\ htop \in Nat
    BY <1>1 DEF HeapTyped
<1>10. HeapTyped'
    <2>1. /\ sp' \in Seq(Int) /\ Len(sp') = Len(sp)
          /\ kernel' \in {"running", "panic"} /\ current' \in Pids
        BY DEF Continues
    <2>2. current' \in Nat
        BY <1>5, <1>6
    <2> QED
        BY <1>1, <1>2, <1>4, <2>1, <2>2, Zenon DEF HeapTyped
<1>11. Disjoint'
    BY <1>1, <1>2, SMT DEF Disjoint, Separate, Topmost, Pids
<1>12. Aligned'
    <2>1. \A r \in Pids : sp'[r] % 4 = 0
        <3> SUFFICES ASSUME NEW r \in Pids PROVE sp'[r] % 4 = 0
            OBVIOUS
        <3>1. sp[r] % 4 = 0 /\ sp[p] % 4 = 0 /\ sp[current'] % 4 = 0
            BY <1>1, <1>5 DEF Aligned
        <3>2. sp[r] \in Int /\ sp[current'] \in Int
            BY <1>5, <1>6
        <3>3. (sp[current'] + FrameSize) % 4 = 0
            BY <3>1, <3>2, ConstantFacts, SMT
        <3>4. CASE r = p
            BY <1>2, <1>7, <3>1, <3>4
        <3>5. CASE r # p /\ r = current'
            BY <1>7, <3>3, <3>5
        <3>6. CASE r # p /\ r # current'
            BY <1>7, <3>1, <3>6
        <3> QED
            BY <3>4, <3>5, <3>6
    <2> QED
        BY <1>1, <1>2, <2>1, Zenon DEF Aligned
<1>13. InStack'
    <2> SUFFICES ASSUME NEW r \in Pids
                 PROVE  /\ sp'[r] <= Topmost(r)
                        /\ r # current' =>
                              /\ sp'[r] + FrameSize <= Topmost(r)
                              /\ r \notin overran' => Bottommost(r) <= sp'[r]
        BY <1>2, <1>3, <1>5, Zenon DEF InStack
    <2>1. /\ sp[r] <= Topmost(r)
          /\ r # p => /\ sp[r] + FrameSize <= Topmost(r)
                      /\ r \notin overran => Bottommost(r) <= sp[r]
        BY <1>1, <1>5 DEF InStack
    <2>2. sp[r] \in Int /\ FrameSize \in Nat /\ Topmost(r) \in Nat /\ Bottommost(r) \in Nat
        BY <1>6, ConstantFacts
    <2>3. CASE r = p
        <3>1. ASSUME r # current', ~(Bottommost(r) <= a) PROVE r \in overran'
            <4>1. touched = Extent(p, a) /\ a + FrameSize <= sp[p]
                BY <1>7, <2>3, <3>1
            <4>2. a < Bottommost(p)
                BY <1>2, <2>2, <2>3, <3>1, SMT
            <4>3. a < sp[p] /\ a <= a /\ a < STACK_LIMIT
                BY <1>2, <1>6, <4>1, <4>2, ConstantFacts, WordFacts, SMT
            <4>4. a \in touched
                BY <1>2, <4>1, <4>3, WordFacts DEF Extent
            <4> QED
                BY <1>4, <2>3, <4>2, <4>4
        <3> QED
            BY <1>2, <1>7, <2>1, <2>2, <2>3, <3>1, SMT
    <2>4. CASE r # p /\ r = current'
        <3>1. sp'[r] = sp[r] + FrameSize
            BY <1>7, <2>4
        <3> QED
            BY <2>1, <2>2, <2>4, <3>1, SMT
    <2>5. CASE r # p /\ r # current'
        <3>1. sp'[r] = sp[r] /\ (r \in overran' <=> r \in overran)
            BY <1>4, <1>7, <2>5
        <3> QED
            BY <2>1, <2>5, <3>1
    <2> QED
        BY <2>3, <2>4, <2>5
<1>14. Marked'
    <2> SUFFICES ASSUME NEW r \in spent' PROVE contents'[Bottommost(r)] # BLANK
        BY <1>3, <1>4, Zenon DEF Marked
    <2>1. r \in Pids /\ Bottommost(r) \in Words
        BY <1>4, <1>6
    <2>2. CASE Bottommost(r) \in touched
        BY <1>2, <1>4, <2>1, <2>2, ConstantFacts, Zenon
    <2>3. CASE Bottommost(r) \notin touched
        <3>1. r \in spent
            BY <1>4, <2>1, <2>3, Zenon
        <3> QED
            BY <1>1, <1>4, <2>1, <2>3, <3>1, Zenon DEF Marked
    <2> QED
        BY <2>2, <2>3
<1>15. Accounted'
    <2> SUFFICES ASSUME NEW r \in Pids, r \in overran' \/ sp'[r] <= Bottommost(r)
                 PROVE  r \in spent' \cup skipped'
        BY <1>2, <1>3, Zenon DEF Accounted
    <2>1. r \in overran \/ sp[r] <= Bottommost(r) => r \in spent' \cup skipped'
        BY <1>1, <1>4, Zenon DEF Accounted
    <2>2. CASE r = p /\ Bottommost(p) < sp[p]
        <3>1. CASE Bottommost(p) < a
            <4>1. \A w \in touched : ~(w < Bottommost(p))
                BY <1>2, <1>4, <1>6, <1>8, <3>1, SMT
            <4>2. ~(sp'[p] <= Bottommost(p))
                BY <1>2, <1>6, <1>7, <2>2, <3>1, SMT
            <4> QED
                BY <1>4, <2>1, <2>2, <4>1, <4>2, Zenon
        <3>2. CASE a <= Bottommost(p)
            <4>1. Bottommost(p) \in Extent(p, a)
                BY <1>6, <2>2, <3>2, Zenon DEF Extent
            <4>2. Bottommost(p) \in touched \/ p \in skipped'
                BY <4>1 DEF Continues
            <4> QED
                BY <1>4, <2>2, <4>2, Zenon
        <3> QED
            BY <1>2, <1>6, <3>1, <3>2, SMT
    <2>3. CASE r = p /\ ~(Bottommost(p) < sp[p])
        <3>1. sp[p] <= Bottommost(p)
            BY <1>6, <2>3, SMT
        <3> QED
            BY <2>1, <2>3, <3>1
    <2>4. CASE r # p
        <3>1. sp'[r] = sp[r] + FrameSize \/ sp'[r] = sp[r]
            BY <1>7, <2>4
        <3>2. sp'[r] <= Bottommost(r) => sp[r] <= Bottommost(r)
            BY <1>6, <3>1, ConstantFacts, SMT
        <3> QED
            BY <1>4, <2>1, <2>4, <3>2, Zenon
    <2> QED
        BY <2>2, <2>3, <2>4
<1>16. OwnFrames'
    <2> SUFFICES ASSUME overran' = {}, NEW r \in Pids \ {current'}, NEW w \in Words,
                        sp'[r] <= w, w < sp'[r] + FrameSize
                 PROVE  contents'[w] = r
        BY <1>2, <1>5, ConstantFacts, Zenon DEF OwnFrames, FrameAt
    <2>1. overran = {} /\ \A x \in touched : ~(x < Bottommost(p))
        <3>1. overran \subseteq Pids
            BY <1>1 DEF HeapTyped
        <3> QED
            BY <1>4, <3>1, Zenon
    <2>2. sp[p] <= Topmost(p)
        BY <1>1 DEF InStack
    <2>3. CASE r = p
        <3>1. a <= w /\ w < sp[p]
            BY <1>2, <1>6, <1>7, <1>8, <2>3, ConstantFacts, SMT
        <3>2. w \in touched
            BY <1>7, <2>3, <3>1 DEF Extent
        <3> QED
            BY <1>4, <2>3, <3>2
    <2>4. CASE r # p
        <3>1. sp'[r] = sp[r]
            BY <1>7, <2>4
        <3>2. contents[w] = r
            BY <1>1, <1>5, <2>1, <2>4, <3>1, ConstantFacts DEF OwnFrames, FrameAt
        <3>3. Bottommost(r) <= sp[r] /\ sp[r] + FrameSize <= Topmost(r)
            BY <1>1, <1>5, <2>1, <2>4 DEF InStack
        <3>4. w \in Int /\ Bottommost(r) <= w /\ w < Topmost(r)
            BY <1>6, <1>8, <3>1, <3>3, ConstantFacts, SMT
        <3>5. w < Bottommost(p) \/ Topmost(p) <= w
            BY <1>1, <2>4, <3>4, StacksApart
        <3>6. ASSUME w \in touched PROVE FALSE
            <4>1. w < sp[p] /\ ~(w < Bottommost(p))
                BY <1>4, <2>1, <3>6
            <4> QED
                BY <1>6, <2>2, <3>4, <3>5, <4>1, SMT
        <3> QED
            BY <1>4, <3>2, <3>6, Zenon
    <2> QED
        BY <2>3, <2>4
<1>17. DescriptorsSafe'
    <2> SUFFICES ASSUME NEW r \in Pids, NEW w \in Words,
                        ptable[r].desc <= w, w < ptable[r].desc + DESC
                 PROVE  contents'[w] = DescriptorOf(r)
        BY <1>2, Zenon DEF DescriptorsSafe
    <2>1. contents[w] = DescriptorOf(r)
        BY <1>1 DEF DescriptorsSafe
    <2>2. sp[p] <= Topmost(p) /\ Topmost(p) <= hbot
        BY <1>1, <1>6 DEF InStack
    <2>3. ~(w < sp[p])
        BY <1>6, <1>8, <1>9, <2>2, SMT
    <2>4. w \notin touched
        BY <1>4, <2>3
    <2> QED
        BY <1>4, <2>1, <2>4, Zenon
<1> QED
    BY <1>10, <1>11, <1>12, <1>13, <1>14, <1>15, <1>16, <1>17 DEF HInv

\* A call of a function, a system call and a context switch are such steps.
LEMMA RunningContinues ==
    ASSUME HInv, NEW p \in Pids, IsRunning(p)
    PROVE  /\ \A k \in 1 .. MAXUSE : Enter(p, k) =>
                  \E touched : Continues(p, sp[p] - 4 * k, touched)
           /\ \A q \in Pids : system_call(p, q) \/ cxt_switch(p, q) =>
                  \E touched : Continues(p, sp[p] - FrameSize, touched)
<1>1. HeapTyped /\ Aligned /\ skipped \subseteq Pids
    BY DEF HInv, HeapTyped
<1>2. /\ p \in Nat \ {0} /\ sp \in Seq(Int) /\ DOMAIN sp = Pids /\ sp[p] \in Int
      /\ sp[p] % 4 = 0
    BY <1>1, PidFacts DEF HeapTyped, Aligned
<1>3. sp \in [Pids -> Int]
    BY <1>2, SMT
<1>4. FrameSize \in Nat /\ FrameSize % 4 = 0 /\ FrameSize >= 4 /\ 4 * FRAME_WORDS = FrameSize
    BY ConstantFacts
<1>5. current = p /\ kernel = "running"
    BY DEF IsRunning
<1>6. \A f : f \in [Pids -> Int] => f \in Seq(Int) /\ Len(f) = Len(sp)
    <2>1. Pids = 1 .. Len(sp) /\ Len(sp) \in Nat
        BY <1>1, PidFacts DEF HeapTyped
    <2> QED
        BY <2>1, SMT
<1>7. ASSUME NEW k \in 1 .. MAXUSE, Enter(p, k)
      PROVE  \E touched : Continues(p, sp[p] - 4 * k, touched)
    <2> DEFINE a == sp[p] - 4 * k
    <2>1. a \in Nat /\ a % 4 = 0 /\ a <= sp[p]
        <3>1. sp[p] - 4 * k >= 0
            BY <1>7 DEF Enter, InMemory
        <3> QED
            BY <1>2, <3>1, HeapAssumption, SMT DEF HeapAssumption
    <2>2. Below(p, k) = Extent(p, a)
        BY DEF Below, Extent
    <2>3. PICK touched \in SUBSET Below(p, k) :
              /\ Writes(p, touched)
              /\ skipped' = IF Bottommost(p) \in Below(p, k) \ touched THEN skipped \cup {p}
                            ELSE skipped
        BY <1>7, Zenon DEF Enter
    <2>4. sp' = [sp EXCEPT ![p] = a] /\ UNCHANGED <<hbot, htop, ptable, current, kernel>>
        BY <1>7 DEF Enter
    <2> HIDE DEF a
    <2>5. sp' \in [Pids -> Int] /\ sp'[p] = a /\ \A r \in Pids \ {p} : sp'[r] = sp[r]
        BY <1>3, <2>1, <2>4
    <2>6. /\ touched \subseteq Extent(p, a)
          /\ skipped \subseteq skipped' /\ skipped' \subseteq Pids
          /\ Bottommost(p) \in Extent(p, a) => Bottommost(p) \in touched \/ p \in skipped'
        BY <1>1, <2>2, <2>3
    <2>7. Continues(p, a, touched)
        BY <1>5, <1>6, <2>1, <2>3, <2>4, <2>5, <2>6, Zenon DEF Continues
    <2> QED
        BY <2>7, Zenon DEF a
<1>8. ASSUME NEW q \in Pids, system_call(p, q) \/ cxt_switch(p, q)
      PROVE  \E touched : Continues(p, sp[p] - FrameSize, touched)
    <2> DEFINE a == sp[p] - FrameSize
    <2> DEFINE touched == Extent(p, a)
    <2> SUFFICES Continues(p, a, touched)
        BY Zenon
    <2>0. SaveFrame(p)
        BY <1>8, Zenon DEF system_call, cxt_switch
    <2>1. a \in Nat /\ a % 4 = 0 /\ a <= sp[p] /\ a + FrameSize <= sp[p]
        <3>1. \A s \in Int, f \in Nat : s % 4 = 0 /\ f % 4 = 0 /\ s - f >= 0 =>
                /\ s - f \in Nat /\ (s - f) % 4 = 0 /\ s - f <= s /\ (s - f) + f <= s
            BY SMT
        <3>2. sp[p] - FrameSize >= 0
            BY <1>4, <2>0 DEF SaveFrame, InMemory
        <3> QED
            BY <1>2, <1>4, <3>1, <3>2, Zenon
    <2>2. /\ Writes(p, touched) /\ touched \subseteq Extent(p, a)
          /\ skipped \subseteq skipped' /\ skipped' \subseteq Pids
          /\ Bottommost(p) \in Extent(p, a) => Bottommost(p) \in touched \/ p \in skipped'
        <3>1. Below(p, FRAME_WORDS) = Extent(p, a)
            BY <1>4 DEF Below, Extent
        <3> QED
            BY <1>1, <2>0, <3>1, Zenon DEF SaveFrame
    <2> HIDE DEF a
    <2>3. \/ Resume(p, q) /\ kernel' = kernel
          \/ kernel' = "panic" /\ UNCHANGED <<sp, current>>
        BY <1>8, Zenon DEF system_call, cxt_switch
    <2>4. UNCHANGED <<hbot, htop, ptable>>
        BY <1>8, Zenon DEF system_call, cxt_switch
    <2>5. CASE Resume(p, q) /\ kernel' = kernel /\ q = p
        <3>1. sp' = sp /\ current' = p
            BY <2>5 DEF Resume
        <3> QED
            BY <1>2, <1>5, <2>1, <2>2, <2>4, <2>5, <3>1, Zenon DEF Continues
    <2>6. CASE Resume(p, q) /\ kernel' = kernel /\ q # p
        <3>1. /\ sp' = [sp EXCEPT ![p] = @ - FrameSize, ![q] = @ + FrameSize]
              /\ current' = q
            BY <1>4, <2>6 DEF Resume
        <3>2. sp[q] + FrameSize \in Int
            BY <1>3, <1>4, SMT
        <3>3. /\ sp' \in [Pids -> Int] /\ sp'[p] = a /\ sp'[q] = sp[q] + FrameSize
              /\ \A r \in Pids \ {p, q} : sp'[r] = sp[r]
            <4>1. a \in Int
                BY <2>1, SMT
            <4>2. sp' = [sp EXCEPT ![p] = a, ![q] = sp[q] + FrameSize]
                BY <3>1 DEF a
            <4> HIDE DEF a
            <4> QED
                BY <1>3, <2>6, <3>2, <4>1, <4>2
        <3> QED
            BY <1>5, <1>6, <2>1, <2>2, <2>4, <2>6, <3>1, <3>3, Zenon DEF Continues
    <2>7. CASE kernel' = "panic" /\ UNCHANGED <<sp, current>>
        BY <1>2, <1>5, <2>1, <2>2, <2>4, <2>7, Zenon DEF Continues
    <2> QED
        BY <2>3, <2>5, <2>6, <2>7
<1> QED
    BY <1>7, <1>8

\* A function that returns leaves the words of its frame as they are.
LEMMA LeaveStep ==
    ASSUME HInv, NEW p \in Pids, Leave(p)
    PROVE  HInv'
<1>1. /\ HeapTyped /\ Disjoint /\ Aligned /\ InStack /\ Marked /\ Accounted
      /\ OwnFrames /\ DescriptorsSafe
    BY DEF HInv
<1>2. /\ UNCHANGED <<hbot, htop, ptable, contents, current, kernel>>
      /\ overran' = overran /\ spent' = spent /\ skipped' = skipped
      /\ sp' = [sp EXCEPT ![p] = Topmost(p)] /\ current = p
      /\ Pids' = Pids /\ Runner' = Runner
    <2>1. /\ UNCHANGED <<hbot, htop, ptable, contents, current, kernel, marks>>
          /\ sp' = [sp EXCEPT ![p] = Topmost(p)] /\ current = p
        BY DEF Leave, IsRunning
    <2>2. overran' = overran /\ spent' = spent /\ skipped' = skipped
        BY <2>1 DEF marks
    <2> QED
        BY <2>1, <2>2 DEF Pids, Runner
<1>3. \A r \in Pids : Bottommost(r)' = Bottommost(r) /\ Topmost(r)' = Topmost(r)
    BY <1>2, Zenon DEF Bottommost, Topmost
<1>4. sp \in [Pids -> Int] /\ Pids = 1 .. Len(sp) /\ Len(sp) \in Nat
    BY <1>1, PidFacts, SMT DEF HeapTyped
<1>5. \A r \in Pids : /\ Bottommost(r) \in Nat /\ Topmost(r) \in Nat
                      /\ Bottommost(r) < Topmost(r) /\ Topmost(r) % 4 = 0
    BY <1>1, StackPlace, SMT
<1>6. /\ sp' \in [Pids -> Int] /\ sp'[p] = Topmost(p)
      /\ \A r \in Pids \ {p} : sp'[r] = sp[r]
    BY <1>2, <1>4, <1>5, SMT
<1>7. Runner = p
    BY <1>1, <1>2, PidFacts, SMT DEF Runner
<1>8. HeapTyped'
    <2>1. sp' \in Seq(Int) /\ Len(sp') = Len(sp)
        BY <1>4, <1>6, SMT
    <2> QED
        BY <1>1, <1>2, <2>1, Zenon DEF HeapTyped
<1>9. Disjoint'
    BY <1>1, <1>2, SMT DEF Disjoint, Separate, Topmost, Pids
<1>10. Aligned'
    BY <1>1, <1>2, <1>5, <1>6, Zenon DEF Aligned
<1>11. InStack'
    <2> SUFFICES ASSUME NEW r \in Pids
                 PROVE  /\ sp'[r] <= Topmost(r)
                        /\ r # p => /\ sp'[r] + FrameSize <= Topmost(r)
                                    /\ r \notin overran => Bottommost(r) <= sp'[r]
        BY <1>2, <1>3, <1>7, Zenon DEF InStack
    <2>1. CASE r = p
        BY <1>5, <1>6, <2>1, SMT
    <2>2. CASE r # p
        BY <1>1, <1>6, <1>7, <2>2, Zenon DEF InStack
    <2> QED
        BY <2>1, <2>2
<1>12. Marked' /\ Accounted'
    <2>1. \A r \in Pids : sp'[r] <= Bottommost(r) => sp[r] <= Bottommost(r)
        <3>1. ~(sp'[p] <= Bottommost(p))
            BY <1>5, <1>6, SMT
        <3> QED
            BY <1>6, <3>1, Zenon
    <2>2. spent \subseteq Pids
        BY <1>1 DEF HeapTyped
    <2> QED
        BY <1>1, <1>2, <1>3, <2>1, <2>2, Zenon DEF Marked, Accounted
<1>13. OwnFrames'
    BY <1>1, <1>2, <1>6, <1>7, Zenon DEF OwnFrames, FrameAt
<1>14. DescriptorsSafe'
    BY <1>1, <1>2, Zenon DEF DescriptorsSafe
<1> QED
    BY <1>8, <1>9, <1>10, <1>11, <1>12, <1>13, <1>14 DEF HInv

-----------------------------------------------------------------------------
(* A process is created *)

\* The ways to call create_proc(): for the idle process, without a frame, and
\* for the others.
Creates(size, fsize) ==
    /\ size \in Nat /\ size >= 8 /\ size % 8 = 0
    /\ fsize \in Nat /\ fsize % 4 = 0
    /\ fsize = FrameSize \/ ptable = <<>>
    /\ kernel \in {"boot", "init"} /\ current' = current
    /\ Len(ptable) < PTABLE_SIZE /\ SpaceForDescriptor /\ Room(size, Descriptor)
    /\ create_proc(size, fsize)

\* What a successful create_proc() does, when its process has the number p.
Allocates(size, fsize, p) ==
    /\ p \in Nat \ {0} /\ p \notin Pids /\ Pids' = Pids \cup {p}
    /\ Bottom \in Nat /\ Bottom % 8 = 0 /\ hbot <= Bottom
    /\ Descriptor \in Nat /\ Descriptor % 4 = 0 /\ Descriptor + DESC = htop
    /\ Bottom + size <= Descriptor
    /\ hbot' = Bottom + size /\ htop' = Descriptor
    /\ ptable' \in Seq([desc : Nat, stack : Nat, stksize : Nat])
    /\ ptable'[p] = [desc |-> Descriptor, stack |-> Bottom, stksize |-> size]
    /\ \A r \in Pids : ptable'[r] = ptable[r]
    /\ sp' \in Seq(Int) /\ Len(sp') = Len(ptable')
    /\ sp'[p] = (Bottom + size) - fsize
    /\ \A r \in Pids : sp'[r] = sp[r]
    /\ contents' \in [Words -> Int]
    /\ \A w \in Words : contents'[w] =
         IF (Bottom + size) - fsize <= w /\ w < Bottom + size THEN p
         ELSE IF Bottom <= w /\ w < Bottom + size THEN BLANK
         ELSE IF Descriptor <= w /\ w < Descriptor + DESC THEN DescriptorOf(p)
         ELSE contents[w]
    /\ overran' = IF fsize > size THEN overran \cup {p} ELSE overran
    /\ spent' = IF fsize >= size THEN spent \cup {p} ELSE spent
    /\ skipped' = skipped
    /\ kernel' = "init" /\ current' = 0 /\ current = 0

LEMMA CreationFacts ==
    ASSUME HeapTyped, Disjoint, NEW size, NEW fsize, Creates(size, fsize),
           NEW p, p = Len(ptable) + 1
    PROVE  Allocates(size, fsize, p)
<1> DEFINE P == [desc : Nat, stack : Nat, stksize : Nat]
           new == [desc |-> Descriptor, stack |-> Bottom, stksize |-> size]
           top == Bottom + size
<1>1. /\ size \in Nat /\ size >= 8 /\ size % 8 = 0 /\ fsize \in Nat
      /\ kernel \in {"boot", "init"} /\ current' = current
      /\ SpaceForDescriptor /\ Room(size, Descriptor) /\ create_proc(size, fsize)
      /\ Len(ptable) < PTABLE_SIZE
    BY DEF Creates
<1>2. /\ hbot \in Nat /\ htop \in Nat /\ htop % 4 = 0 /\ sp \in Seq(Int)
      /\ Len(sp) = Len(ptable) /\ ptable \in Seq(P) /\ contents \in [Words -> Int]
    BY DEF HeapTyped
<1>3. Pids = 1 .. Len(ptable) /\ Len(ptable) \in Nat
    BY PidFacts
<1>4. p \in Nat \ {0} /\ p \notin Pids
    BY <1>3, SMT
<1>5. Bottom \in Nat /\ Bottom % 8 = 0 /\ hbot <= Bottom /\ ROUNDUP(size) = size
    BY <1>1, <1>2, Rounding DEF Bottom
<1>6. /\ Descriptor \in Nat /\ Descriptor % 4 = 0 /\ Descriptor + DESC = htop
    <2>1. \A t \in Nat, d \in Nat, b \in Nat : t % 4 = 0 /\ d % 4 = 0 /\ t - b >= d =>
            t - d \in Nat /\ (t - d) % 4 = 0 /\ (t - d) + d = t
        BY SMT
    <2>2. htop - hbot >= DESC
        BY <1>1 DEF SpaceForDescriptor
    <2> QED
        BY <1>2, <2>1, <2>2, ConstantFacts, Zenon DEF Descriptor
<1>7. top \in Nat /\ top <= Descriptor
    BY <1>1, <1>5, <1>6, SMT DEF Room
<1>8. /\ hbot' = top /\ htop' = Descriptor
      /\ ptable' = Append(ptable, new) /\ sp' = Append(sp, top - fsize)
      /\ contents' = Filled(Filled(Filled(contents, Descriptor, Descriptor + DESC,
                                          DescriptorOf(p)), Bottom, top, BLANK),
                            top - fsize, top, p)
      /\ kernel' = "init"
      /\ overran' = IF fsize > size THEN overran \cup {p} ELSE overran
      /\ spent' = IF fsize >= size THEN spent \cup {p} ELSE spent
      /\ skipped' = skipped
    BY <1>1, <1>5, Zenon DEF create_proc, Created
<1>9. new \in P
    BY <1>1, <1>5, <1>6
<1>10. top - fsize \in Int
    BY <1>1, <1>7, SMT
<1>11. /\ ptable' \in Seq(P) /\ ptable'[p] = new /\ Len(ptable') = Len(ptable) + 1
       /\ \A r \in Pids : ptable'[r] = ptable[r]
    <2> HIDE DEF P, new
    <2> QED
        BY <1>2, <1>3, <1>8, <1>9, SMT
<1>12. /\ sp' \in Seq(Int) /\ Len(sp') = Len(ptable) + 1 /\ sp'[p] = top - fsize
       /\ \A r \in Pids : sp'[r] = sp[r]
    <2> HIDE DEF top
    <2> QED
        BY <1>2, <1>3, <1>8, <1>10, SMT
<1>13. Pids' = Pids \cup {p}
    <2>1. Pids' = 1 .. Len(ptable) + 1
        BY <1>11 DEF Pids
    <2> QED
        BY <1>3, <2>1, SMT
<1>14. /\ contents' \in [Words -> Int]
       /\ \A w \in Words : contents'[w] =
                IF top - fsize <= w /\ w < top THEN p
                ELSE IF Bottom <= w /\ w < top THEN BLANK
                ELSE IF Descriptor <= w /\ w < Descriptor + DESC THEN DescriptorOf(p)
                ELSE contents[w]
    <2> DEFINE m1 == Filled(contents, Descriptor, Descriptor + DESC, DescriptorOf(p))
               m2 == Filled(m1, Bottom, top, BLANK)
    <2>1. DescriptorOf(p) \in Int /\ BLANK \in Int /\ p \in Int
        BY <1>4, ConstantFacts, SMT
    <2>2. /\ m1 \in [Words -> Int]
          /\ \A w \in Words : m1[w] = IF Descriptor <= w /\ w < Descriptor + DESC
                                      THEN DescriptorOf(p) ELSE contents[w]
        BY <1>2, <2>1, FilledFacts
    <2> HIDE DEF m1
    <2>3. /\ m2 \in [Words -> Int]
          /\ \A w \in Words : m2[w] = IF Bottom <= w /\ w < top THEN BLANK ELSE m1[w]
        BY <2>1, <2>2, FilledFacts
    <2>4. contents' = Filled(m2, top - fsize, top, p)
        BY <1>8 DEF m1
    <2> HIDE DEF m2
    <2>5. /\ contents' \in [Words -> Int]
          /\ \A w \in Words : contents'[w] =
                IF top - fsize <= w /\ w < top THEN p ELSE m2[w]
        BY <2>1, <2>3, <2>4, FilledFacts
    <2> QED
        BY <2>2, <2>3, <2>5, Zenon
<1>15. current = 0
    BY <1>1 DEF HeapTyped
<1> QED
    BY <1>1, <1>4, <1>5, <1>6, <1>7, <1>8, <1>11, <1>12, <1>13, <1>14, <1>15 DEF Allocates

\* A new stack and a new descriptor come from the free space, and what has been
\* allocated before stays as it is.
LEMMA CreationStep ==
    ASSUME HInv, NEW size, NEW fsize, Creates(size, fsize)
    PROVE  HInv'
<1>1. /\ HeapTyped /\ Disjoint /\ Aligned /\ InStack /\ Marked /\ Accounted
      /\ OwnFrames /\ DescriptorsSafe
    BY DEF HInv
<1>2. /\ size \in Nat /\ size >= 8 /\ size % 8 = 0 /\ fsize \in Nat /\ fsize % 4 = 0
      /\ fsize = FrameSize \/ ptable = <<>>
    BY DEF Creates
<1>3. PICK p : p = Len(ptable) + 1
    OBVIOUS
<1>4. PICK B, D : B = Bottom /\ D = Descriptor
    OBVIOUS
<1>5. PICK top : top = B + size
    OBVIOUS
<1>6. /\ p \in Nat \ {0} /\ p \notin Pids /\ Pids' = Pids \cup {p}
      /\ B \in Nat /\ B % 8 = 0 /\ hbot <= B
      /\ D \in Nat /\ D % 4 = 0 /\ D + DESC = htop
      /\ top <= D /\ top = B + size
      /\ hbot' = top /\ htop' = D
      /\ ptable' \in Seq([desc : Nat, stack : Nat, stksize : Nat])
      /\ sp' \in Seq(Int) /\ Len(sp') = Len(ptable')
      /\ contents' \in [Words -> Int]
      /\ ptable'[p] = [desc |-> D, stack |-> B, stksize |-> size]
      /\ \A r \in Pids : ptable'[r] = ptable[r]
      /\ sp'[p] = top - fsize
      /\ \A r \in Pids : sp'[r] = sp[r]
      /\ \A w \in Words : contents'[w] =
           IF top - fsize <= w /\ w < top THEN p
           ELSE IF B <= w /\ w < top THEN BLANK
           ELSE IF D <= w /\ w < D + DESC THEN DescriptorOf(p)
           ELSE contents[w]
      /\ overran' = IF fsize > size THEN overran \cup {p} ELSE overran
      /\ spent' = IF fsize >= size THEN spent \cup {p} ELSE spent
      /\ skipped' = skipped
      /\ kernel' = "init" /\ current' = 0 /\ current = 0
    <2>1. Allocates(size, fsize, p)
        BY <1>1, <1>3, CreationFacts
    <2> QED
        BY <1>4, <1>5, <2>1 DEF Allocates
<1>7. ptable'[p].desc = D /\ ptable'[p].stack = B /\ ptable'[p].stksize = size
    BY <1>6
<1>8. /\ top \in Nat /\ top - fsize \in Int /\ p \in Nat
      /\ B \in Nat /\ B % 8 = 0 /\ hbot <= B
      /\ D \in Nat /\ D + DESC = htop /\ top <= D /\ top = B + size
      /\ size \in Nat /\ size >= 8 /\ fsize \in Nat
    <2>1. /\ B \in Nat /\ top = B + size
        BY <1>6
    <2>2. top \in Nat /\ top - fsize \in Int
        BY <1>2, <2>1, SMT
    <2> QED
        BY <1>2, <1>6, <2>2
<1>9. Bottommost(p)' = B /\ Topmost(p)' = top
    BY <1>6, <1>7 DEF Bottommost, Topmost
<1>10. \A r \in Pids : Bottommost(r)' = Bottommost(r) /\ Topmost(r)' = Topmost(r)
    BY <1>6, Zenon DEF Bottommost, Topmost
<1>11. Runner = 1 /\ Runner' = 1
    BY <1>6 DEF Runner
<1>12. \A r \in Pids : /\ Bottommost(r) \in Words /\ sp[r] \in Int /\ r \in Nat \ {0}
                       /\ Bottommost(r) \in Nat /\ Topmost(r) \in Nat
                       /\ Bottommost(r) < Topmost(r)
                       /\ Topmost(r) <= hbot /\ hbot <= htop /\ htop <= ptable[r].desc
                       /\ ptable[r].desc \in Nat /\ ptable[r].desc + DESC <= STACK_LIMIT
    BY <1>1, StackPlace, PidFacts, SMT
<1>13. \A w \in Words : w \in Nat
    BY WordFacts
<1>14. /\ hbot \in Nat /\ htop \in Nat /\ DESC \in Nat \ {0}
       /\ overran \subseteq Pids /\ spent \subseteq Pids /\ skipped \subseteq Pids
    BY <1>1, ConstantFacts DEF HeapTyped
<1>15. p # BLANK /\ DescriptorOf(p) # BLANK
    BY <1>6, ConstantFacts
<1>16. HeapTyped'
    <2>1. 1 \in Pids'
        <3>1. Pids = 1 .. p - 1
            BY <1>1, <1>3, PidFacts, SMT
        <3> QED
            BY <1>6, <3>1, SMT
    <2>2. overran' \subseteq Pids' /\ spent' \subseteq Pids' /\ skipped' \subseteq Pids'
        <3>1. p \in Pids' /\ Pids \subseteq Pids' /\ overran' \subseteq overran \cup {p}
              /\ spent' \subseteq spent \cup {p} /\ skipped' = skipped
            BY <1>6, Zenon
        <3> QED
            BY <1>14, <3>1
    <2>3. top \in Nat /\ D \in Nat /\ D % 4 = 0 /\ 0 \in Nat
        BY <1>6, <1>8
    <2>4. STATIC_END <= hbot /\ htop <= STACK_LIMIT
        BY <1>1 DEF HeapTyped
    <2>5. STATIC_END <= top /\ D <= STACK_LIMIT
        BY <1>8, <1>14, <2>4, ConstantFacts, SMT
    <2> QED
        BY <1>6, <2>1, <2>2, <2>3, <2>5, Zenon DEF HeapTyped
<1>17. Aligned'
    <2>1. (top - fsize) % 4 = 0
        <3>1. \A b \in Nat, s \in Nat, f \in Nat :
                b % 8 = 0 /\ s % 8 = 0 /\ f % 4 = 0 => ((b + s) - f) % 4 = 0
            BY SMT
        <3> QED
            BY <1>2, <1>6, <3>1
    <2> QED
        BY <1>1, <1>2, <1>6, <1>7, <2>1, Zenon DEF Aligned
<1>18. InStack'
    <2>1. ASSUME NEW r \in Pids
          PROVE  /\ sp'[r] <= Topmost(r)
                 /\ r # 1 => /\ sp'[r] + FrameSize <= Topmost(r)
                             /\ r \notin overran' => Bottommost(r) <= sp'[r]
        BY <1>1, <1>6, <1>11, Zenon DEF InStack
    <2>2. /\ sp'[p] <= top
          /\ p # 1 => /\ sp'[p] + FrameSize <= top
                      /\ p \notin overran' => B <= sp'[p]
        <3>1. sp'[p] = top - fsize /\ fsize \in Nat /\ top \in Nat
            BY <1>2, <1>6, <1>8
        <3>2. p # 1 => fsize = FrameSize
            BY <1>2, <1>3, SMT
        <3>3. sp'[p] <= top /\ (fsize = FrameSize => sp'[p] + FrameSize <= top)
            BY <3>1, SMT
        <3>4. p \notin overran' => fsize <= size
            BY <1>2, <1>6, SMT
        <3>5. fsize <= size => B <= sp'[p]
            BY <1>2, <1>6, <1>8, SMT
        <3> QED
            BY <3>2, <3>3, <3>4, <3>5
    <2> SUFFICES ASSUME NEW r \in Pids'
                 PROVE  /\ sp'[r] <= Topmost(r)'
                        /\ r # 1 => /\ sp'[r] + FrameSize <= Topmost(r)'
                                    /\ r \notin overran' => Bottommost(r)' <= sp'[r]
        BY <1>11, ConstantFacts, Zenon DEF InStack
    <2>3. CASE r = p
        BY <1>9, <2>2, <2>3, Zenon
    <2>4. CASE r \in Pids
        BY <1>10, <2>1, <2>4, Zenon
    <2> QED
        BY <1>6, <2>3, <2>4
<1>19. Marked' /\ Accounted'
    <2>1. size <= fsize => top - fsize <= B /\ B < top
        BY <1>8, SMT
    <2>2. fsize >= size <=> size <= fsize
        BY <1>8, SMT
    <2>3. ASSUME NEW r \in Pids, r \in spent' PROVE contents'[Bottommost(r)] # BLANK
        <3> DEFINE b == Bottommost(r)
        <3>1. r \in spent /\ b \in Words
            BY <1>6, <1>12, <2>3, Zenon
        <3>2. contents[b] # BLANK
            BY <1>1, <3>1 DEF Marked
        <3>3. ~(B <= b /\ b < top)
            <4>1. b < Topmost(r) /\ Topmost(r) <= hbot /\ Topmost(r) \in Nat /\ b \in Nat
                BY <1>12
            <4> QED
                BY <1>8, <1>14, <4>1, SMT
        <3>4. ~(top - fsize <= b /\ b < top) \/ contents'[b] = p
            BY <1>6, <3>1, Zenon
        <3> QED
            BY <1>6, <1>15, <3>1, <3>2, <3>3, <3>4, Zenon
    <2>4. p \in spent' => contents'[B] # BLANK
        <3>1. p \in spent' => size <= fsize
            BY <1>6, <1>14, <2>2, Zenon
        <3>2. B \in Words
            <4>1. B % 4 = 0 /\ B < STACK_LIMIT
                <5>1. htop <= STACK_LIMIT
                    BY <1>1 DEF HeapTyped
                <5> QED
                    BY <1>8, <1>14, <5>1, ConstantFacts, SMT
            <4> QED
                BY <1>6, <4>1, WordFacts
        <3> QED
            BY <1>6, <1>15, <2>1, <3>1, <3>2, Zenon
    <2>5. Marked'
        <3>1. spent' \subseteq Pids \cup {p}
            BY <1>6, <1>14, Zenon
        <3> QED
            BY <1>6, <1>9, <1>10, <2>3, <2>4, <3>1, Zenon DEF Marked
    <2>6. p \in overran' \/ sp'[p] <= B => p \in spent'
        <3>1. p \in overran' => size <= fsize
            <4>1. p \in overran' => fsize > size
                BY <1>6, <1>14, Zenon
            <4> QED
                BY <1>8, <4>1, SMT
        <3>2. sp'[p] <= B => size <= fsize
            BY <1>6, <1>8, SMT
        <3> QED
            BY <1>6, <2>2, <3>1, <3>2, Zenon
    <2>7. ASSUME NEW r \in Pids, r \in overran' \/ sp'[r] <= Bottommost(r)
          PROVE  r \in spent' \cup skipped'
        <3>1. r \in overran \/ sp[r] <= Bottommost(r)
            BY <1>6, <2>7, Zenon
        <3> QED
            BY <1>1, <1>6, <3>1, Zenon DEF Accounted
    <2> QED
        BY <1>6, <1>9, <1>10, <2>5, <2>6, <2>7, Zenon DEF Accounted
<1>20. OwnFrames'
    <2> SUFFICES ASSUME overran' = {}, NEW r \in Pids', r # 1, NEW w \in Words,
                        sp'[r] <= w, w < sp'[r] + FrameSize
                 PROVE  contents'[w] = r
        BY <1>11, ConstantFacts, Zenon DEF OwnFrames, FrameAt
    <2>1. overran = {} /\ fsize <= size
        <3>1. ~(fsize > size) /\ overran = {}
            BY <1>6, Zenon
        <3> QED
            BY <1>8, <3>1, SMT
    <2>2. CASE r = p
        <3>1. fsize = FrameSize
            BY <1>2, <1>3, <2>2, SMT
        <3>2. top - fsize <= w /\ w < top
            <4>1. sp'[r] = top - fsize
                BY <1>6, <2>2
            <4> QED
                BY <1>8, <1>13, <3>1, <4>1, SMT
        <3> QED
            BY <1>6, <2>2, <3>2
    <2>3. CASE r \in Pids
        <3>1. sp'[r] = sp[r]
            BY <1>6, <2>3
        <3>2. contents[w] = r
            BY <1>1, <1>11, <2>1, <2>3, <3>1, ConstantFacts DEF OwnFrames, FrameAt
        <3>3. sp[r] + FrameSize <= Topmost(r)
            BY <1>1, <1>11, <2>3 DEF InStack
        <3>4. w < hbot
            BY <1>12, <1>13, <1>14, <2>3, <3>1, <3>3, ConstantFacts, SMT
        <3>5. ~(top - fsize <= w) /\ ~(B <= w) /\ ~(D <= w)
            BY <1>8, <1>13, <1>14, <2>1, <3>4, SMT
        <3> QED
            BY <1>6, <3>2, <3>5, Zenon
    <2> QED
        BY <1>6, <2>2, <2>3
<1>21. DescriptorsSafe'
    <2> SUFFICES ASSUME NEW r \in Pids', NEW w \in Words,
                        ptable'[r].desc <= w, w < ptable'[r].desc + DESC
                 PROVE  contents'[w] = DescriptorOf(r)
        BY DEF DescriptorsSafe, DescriptorOf
    <2>1. CASE r = p
        <3>1. ~(w < top)
            BY <1>7, <1>8, <1>13, <2>1, SMT
        <3> QED
            BY <1>6, <1>7, <2>1, <3>1, Zenon
    <2>2. CASE r \in Pids
        <3>1. ptable'[r].desc = ptable[r].desc
            BY <1>6, <2>2
        <3>2. contents[w] = DescriptorOf(r)
            BY <1>1, <2>2, <3>1 DEF DescriptorsSafe
        <3>3. ~(w < top) /\ ~(w < D + DESC)
            <4>1. htop <= ptable[r].desc /\ ptable[r].desc \in Nat
                BY <1>12, <2>2
            <4> QED
                BY <1>8, <1>13, <1>14, <3>1, <4>1, SMT
        <3> QED
            BY <1>6, <3>2, <3>3, Zenon
    <2> QED
        BY <1>6, <2>1, <2>2
<1>22. Disjoint'
    <2>1. hbot' <= htop'
        BY <1>6
    <2>2. ASSUME NEW r \in Pids'
          PROVE  /\ STATIC_END <= ptable'[r].stack /\ Topmost(r)' <= top
                 /\ D <= ptable'[r].desc /\ ptable'[r].desc + DESC <= STACK_LIMIT
                 /\ ptable'[r].stack % 8 = 0
        <3>1. STATIC_END <= hbot /\ htop <= STACK_LIMIT
            BY <1>1 DEF HeapTyped
        <3>2. CASE r = p
            BY <1>7, <1>8, <1>9, <1>14, <3>1, <3>2, ConstantFacts, SMT
        <3>3. CASE r \in Pids
            <4>1. /\ STATIC_END <= ptable[r].stack /\ ptable[r].stack % 8 = 0
                  /\ ptable[r].desc + DESC <= STACK_LIMIT
                BY <1>1, <3>3 DEF Disjoint
            <4>2. Topmost(r)' = Topmost(r) /\ ptable'[r] = ptable[r]
                BY <1>6, <1>10, <3>3
            <4>3. /\ Topmost(r) <= hbot /\ htop <= ptable[r].desc
                  /\ Topmost(r) \in Nat /\ ptable[r].desc \in Nat
                BY <1>12, <3>3
            <4>4. Topmost(r) <= top /\ D <= ptable[r].desc
                BY <1>8, <1>14, <4>3, SMT
            <4> QED
                BY <4>1, <4>2, <4>4
        <3> QED
            BY <1>6, <3>2, <3>3
    <2>3. ASSUME NEW r \in Pids', NEW q \in Pids' \ {r}
          PROVE  /\ Separate(ptable'[r].stack, Topmost(r)', ptable'[q].stack, Topmost(q)')
                 /\ Separate(ptable'[r].desc, ptable'[r].desc + DESC,
                             ptable'[q].desc, ptable'[q].desc + DESC)
        <3> DEFINE Lower(x) == /\ Topmost(x)' <= B /\ D + DESC <= ptable'[x].desc
        <3>1. ASSUME NEW x \in Pids PROVE Lower(x)
            <4>1. /\ Topmost(x) <= hbot /\ htop <= ptable[x].desc
                  /\ Topmost(x) \in Nat /\ ptable[x].desc \in Nat
                BY <1>12
            <4>2. Topmost(x) <= B /\ D + DESC <= ptable[x].desc
                BY <1>8, <1>14, <4>1, SMT
            <4> QED
                BY <1>6, <1>10, <4>2
        <3>2. CASE r = p /\ q \in Pids
            BY <1>7, <3>1, <3>2, Zenon DEF Separate
        <3>3. CASE q = p /\ r \in Pids
            BY <1>7, <3>1, <3>3, Zenon DEF Separate
        <3>4. CASE r \in Pids /\ q \in Pids
            <4>1. /\ Separate(ptable[r].stack, Topmost(r), ptable[q].stack, Topmost(q))
                  /\ Separate(ptable[r].desc, ptable[r].desc + DESC,
                              ptable[q].desc, ptable[q].desc + DESC)
                BY <1>1, <3>4 DEF Disjoint
            <4> QED
                BY <1>6, <1>10, <3>4, <4>1
        <3> QED
            BY <1>6, <3>2, <3>3, <3>4
    <2> QED
        BY <1>6, <2>1, <2>2, <2>3, ConstantFacts, Zenon DEF Disjoint, Separate
<1> QED
    BY <1>16, <1>17, <1>18, <1>19, <1>20, <1>21, <1>22 DEF HInv

\* A step that only stops the kernel, or starts the first process, changes
\* nothing that is allocated.
LEMMA KernelStep ==
    ASSUME HInv, UNCHANGED <<hbot, htop, ptable, sp, contents, overran, spent, skipped>>,
           Runner' = Runner, HeapTyped'
    PROVE  HInv'
<1>1. Disjoint' /\ Aligned' /\ InStack' /\ Marked' /\ Accounted' /\ DescriptorsSafe'
    BY Zenon DEF HInv, Disjoint, Aligned, InStack, Marked, Accounted, DescriptorsSafe, Pids,
       Topmost, Bottommost, Separate
<1>2. OwnFrames'
    BY Zenon DEF HInv, OwnFrames, FrameAt, Pids
<1> QED
    BY <1>1, <1>2 DEF HInv

\* Every way to call create_proc() preserves the invariant, whether there is
\* room or not.
LEMMA CreateStep ==
    ASSUME HInv, NEW size \in Nat, size >= 8, size % 8 = 0,
           NEW fsize \in Nat, fsize % 4 = 0, fsize = FrameSize \/ ptable = <<>>,
           kernel \in {"boot", "init"}, create_proc(size, fsize), current' = current
    PROVE  HInv'
<1>1. CASE Len(ptable) < PTABLE_SIZE /\ SpaceForDescriptor /\ Room(size, Descriptor)
    <2>1. Creates(size, fsize)
        BY <1>1 DEF Creates
    <2> QED
        BY <2>1, CreationStep
<1>2. CASE ~(Len(ptable) < PTABLE_SIZE /\ SpaceForDescriptor /\ Room(size, Descriptor))
    <2>1. /\ kernel' = "panic"
          /\ UNCHANGED <<hbot, htop, ptable, contents, sp, overran, spent, skipped>>
        BY <1>2 DEF create_proc, marks
    <2>2. Runner' = Runner
        BY DEF Runner
    <2>3. HeapTyped'
        <3>1. HeapTyped /\ current \in Nat
            <4>1. kernel # "running"
                OBVIOUS
            <4> QED
                BY <4>1, Zenon DEF HInv, HeapTyped
        <3> QED
            BY <2>1, <3>1, Zenon DEF HeapTyped, Pids
    <2> QED
        BY <2>1, <2>2, <2>3, KernelStep
<1> QED
    BY <1>1, <1>2

-----------------------------------------------------------------------------
(* The theorems *)

\* At the start nothing is allocated.
LEMMA HInvInit == HeapInit => HInv
<1> SUFFICES ASSUME HeapInit PROVE HInv
    OBVIOUS
<1>1. Pids = {} /\ Len(ptable) = 0 /\ Len(sp) = 0
    BY SMT DEF HeapInit, Pids
<1>2. HeapTyped
    <2>1. contents \in [Words -> Int]
        BY SMT DEF HeapInit, OTHER_DATA
    <2>2. /\ hbot = STATIC_END /\ htop = STACK_LIMIT /\ ptable = <<>> /\ sp = <<>>
          /\ current = 0 /\ kernel = "boot"
          /\ overran = {} /\ spent = {} /\ skipped = {}
        BY DEF HeapInit
    <2>3. /\ hbot \in Nat /\ htop \in Nat /\ htop % 4 = 0
          /\ STATIC_END <= hbot /\ htop <= STACK_LIMIT
        BY <2>2, ConstantFacts, SMT
    <2>4. ptable \in Seq([desc : Nat, stack : Nat, stksize : Nat]) /\ sp \in Seq(Int)
        BY <2>2
    <2> QED
        BY <1>1, <2>1, <2>2, <2>3, <2>4, Zenon DEF HeapTyped
<1>3. hbot <= htop
    BY ConstantFacts DEF HeapInit
<1>4. spent = {}
    BY DEF HeapInit
<1> QED
    BY <1>1, <1>2, <1>3, <1>4, Zenon
       DEF HInv, Disjoint, Aligned, InStack, Marked, Accounted, OwnFrames, DescriptorsSafe

\* Every step preserves the invariant.
LEMMA HInvStep == HInv /\ [HeapNext]_heapVars => HInv'
<1> SUFFICES ASSUME HInv, [HeapNext]_heapVars PROVE HInv'
    OBVIOUS
<1>1. CASE CreateIdle
    <2>1. /\ IDLE_STACK \in Nat /\ IDLE_STACK >= 8 /\ IDLE_STACK % 8 = 0
          /\ 0 \in Nat /\ 0 % 4 = 0
        BY HeapAssumption, SMT DEF HeapAssumption
    <2>2. ptable = <<>> /\ kernel = "boot" /\ create_proc(IDLE_STACK, 0)
          /\ current' = current
        BY <1>1 DEF CreateIdle, HInv, HeapTyped
    <2> QED
        BY <2>1, <2>2, CreateStep
<1>2. ASSUME NEW size \in Sizes, start(size) PROVE HInv'
    <2>1. size \in Nat /\ size # 0
        BY HeapAssumption DEF HeapAssumption
    <2>2. ROUNDUP(size) \in Nat /\ ROUNDUP(size) >= 8 /\ ROUNDUP(size) % 8 = 0
        BY <2>1, SMT DEF ROUNDUP
    <2>3. kernel = "init" /\ create_proc(ROUNDUP(size), FrameSize) /\ current' = current
        BY <1>2 DEF start
    <2> QED
        BY <2>2, <2>3, ConstantFacts, CreateStep
<1>3. CASE __run
    <2>1. /\ kernel = "init" /\ kernel' = "running" /\ current' = 1
          /\ UNCHANGED <<hbot, htop, ptable, contents, sp, overran, spent, skipped>>
        BY <1>3 DEF __run, marks
    <2>2. HeapTyped /\ current = 0 /\ 1 \in Pids
        BY <2>1 DEF HInv, HeapTyped
    <2>3. Runner' = Runner
        BY <2>1, <2>2 DEF Runner
    <2>4. HeapTyped'
        BY <2>1, <2>2, Zenon DEF HeapTyped, Pids
    <2> QED
        BY <2>1, <2>3, <2>4, KernelStep
<1>4. ASSUME NEW p \in Pids, NEW k \in 1 .. MAXUSE, Enter(p, k) PROVE HInv'
    <2>1. IsRunning(p)
        BY <1>4 DEF Enter
    <2>2. PICK touched : Continues(p, sp[p] - 4 * k, touched)
        BY <1>4, <2>1, RunningContinues
    <2> QED
        BY <2>1, <2>2, ContinuesStep
<1>5. ASSUME NEW p \in Pids, NEW q \in Pids, system_call(p, q) \/ cxt_switch(p, q)
      PROVE HInv'
    <2>1. IsRunning(p)
        BY <1>5, Zenon DEF system_call, cxt_switch
    <2>2. PICK touched : Continues(p, sp[p] - FrameSize, touched)
        BY <1>5, <2>1, RunningContinues
    <2> QED
        BY <2>1, <2>2, ContinuesStep
<1>6. ASSUME NEW p \in Pids, Leave(p) PROVE HInv'
    BY <1>6, LeaveStep
<1>7. CASE UNCHANGED heapVars
    <2>1. /\ UNCHANGED <<hbot, htop, ptable, sp, contents, overran, spent, skipped>>
          /\ UNCHANGED <<current, kernel>>
        BY <1>7 DEF heapVars, marks
    <2>2. Runner' = Runner
        BY <2>1 DEF Runner
    <2>3. HeapTyped'
        BY <2>1, Zenon DEF HInv, HeapTyped, Pids
    <2> QED
        BY <2>1, <2>2, <2>3, KernelStep
<1> QED
    BY <1>1, <1>2, <1>3, <1>4, <1>5, <1>6, <1>7, Zenon DEF HeapNext

\* HInv is an invariant.
LEMMA HInvAlways == HeapSpec => []HInv
    BY HInvInit, HInvStep, PTL DEF HeapSpec

\* However stacks and descriptors are taken from the two ends of the free space,
\* none of them overlap, and the free space is never negative.
THEOREM DisjointAlways == HeapSpec => []Disjoint
<1>1. HInv => Disjoint
    BY DEF HInv
<1> QED
    BY HInvAlways, <1>1, PTL

\* As long as no stack is overrun every process finds its own frame, and the dump
\* finds the end of its stack; an overrun has written the last word or skipped it.
LEMMA SafeNow == HInv => ResumesOwnFrame /\ DescriptorsSafe /\ ScanEnds /\ OverrunAccounted
<1> SUFFICES ASSUME HInv PROVE ResumesOwnFrame /\ ScanEnds /\ OverrunAccounted
    BY DEF HInv
<1>0. OverrunAccounted
    BY DEF HInv, HeapTyped, Accounted, OverrunAccounted
<1>1. HeapTyped /\ Disjoint /\ Aligned /\ InStack /\ OwnFrames
    BY DEF HInv
<1>2. kernel = "running" => Runner = current
    BY <1>1, PidFacts, SMT DEF Runner, HeapTyped
<1>3. ResumesOwnFrame
    BY <1>1, <1>2, Zenon DEF ResumesOwnFrame, OwnFrames
<1>4. ASSUME kernel = "running", overran = {}, NEW p \in Pids \ {current}
      PROVE  \E w \in {w \in Words : Bottommost(p) <= w /\ w < Topmost(p)
                                       /\ contents[w] # BLANK} : w <= sp[p]
    <2>1. FrameAt(p)
        BY <1>3, <1>4 DEF ResumesOwnFrame
    <2>2. Bottommost(p) <= sp[p] /\ sp[p] + FrameSize <= Topmost(p) /\ sp[p] % 4 = 0
        BY <1>1, <1>2, <1>4 DEF InStack, Aligned
    <2>3. /\ Bottommost(p) \in Nat /\ Topmost(p) \in Nat /\ Topmost(p) <= hbot
          /\ hbot <= htop
        BY <1>1, <1>4, StackPlace
    <2>4. htop <= STACK_LIMIT /\ hbot \in Nat /\ htop \in Nat
        BY <1>1 DEF HeapTyped
    <2>5. sp[p] \in Int /\ p # BLANK
        BY <1>1, <1>4, PidFacts, ConstantFacts
    <2>6. /\ sp[p] \in Nat /\ sp[p] < STACK_LIMIT /\ sp[p] < Topmost(p)
          /\ sp[p] <= sp[p] /\ sp[p] < sp[p] + FrameSize
        BY <2>2, <2>3, <2>4, <2>5, ConstantFacts, SMT
    <2>7. sp[p] \in Words
        BY <2>2, <2>6, WordFacts
    <2>8. contents[sp[p]] = p
        BY <2>1, <2>6, <2>7, ConstantFacts, Zenon DEF FrameAt
    <2> QED
        BY <2>2, <2>5, <2>6, <2>7, <2>8, Zenon
<1> QED
    BY <1>0, <1>3, <1>4, Zenon DEF ScanEnds

\* The last word of a stack, if it has been written now or before, is not blank
\* when the system call looks at it.
LEMMA MarkedStep ==
    HInv /\ [HeapNext]_heapVars =>
        [\A p \in spent', q \in Pids : system_call(p, q) => kernel' = "panic"]_heapVars
<1> SUFFICES ASSUME HInv, NEW p \in spent', NEW q \in Pids, system_call(p, q),
                    [HeapNext]_heapVars
             PROVE  kernel' = "panic"
    BY Zenon
<1>1. HInv'
    BY HInvStep
<1>2. contents'[Bottommost(p)'] # BLANK
    BY <1>1, Zenon DEF HInv, Marked
<1>3. Bottommost(p)' = Bottommost(p)
    BY Zenon DEF system_call, Bottommost
<1>4. Overflow(p, contents')
    BY <1>2, <1>3, Zenon DEF Overflow
<1> QED
    BY <1>4, Zenon DEF system_call

\* An overrun of a stack reaches no descriptor; one that wrote the last word of
\* the stack stops the kernel at the process's next system call, and one that did
\* not write it, in a call or in a frame, stepped over it in a function that left
\* it alone; without an overrun, nobody's stack is touched.
THEOREM StacksSafeAlways == HeapSpec => StacksSafe
    BY HInvAlways, SafeNow, MarkedStep, PTL DEF HeapSpec, StacksSafe, OverflowDetected

-----------------------------------------------------------------------------
(***************************************************************************)
(* Theorem of Context: a process that resumes has the registers it had,    *)
(* whichever saved them and whatever ran in between, for any set of        *)
(* processes on either processor.                                          *)
(*                                                                         *)
(* The inductive invariant says, for the process that runs, which of its   *)
(* registers the processor, the exception entry and the saving routine     *)
(* have put in its frame and which still hold their values; all others     *)
(* have a complete frame.                                                  *)
(***************************************************************************)

\* The place in a frame of each of the words of r's context.
Kept == {4, 5, 6, 7, 8, 9, 10, 11}

\* The words that the processor saves, those of r4 to r11, and the magic value.
HardwarePart(p) ==
    \A i \in 1 .. 8 : frame[p][i + 8] = own[p][HardwareSaved[i]]

SavedFrame(p) ==
    /\ frame[p][ERV_SAVE] = MAGIC
    /\ \A r \in Kept : frame[p][r - 3] = own[p][r]
    /\ HardwarePart(p)

\* The registers in S are still those of the process.
Still(S) == \A r \in S : regs[r] = own[runs][r]

ContextTypes ==
    /\ chip \in ChipNames /\ runs \in Tasks
    /\ regs = [r \in Registers |-> regs[r]]
    /\ frame = [p \in Tasks |-> [w \in FrameWords |-> frame[p][w]]]
    /\ own = [p \in Tasks |-> [r \in Registers |-> own[p][r]]]
    /\ at \in {"process", "entry", "all", "low", "high", "chosen", "restore", "low again",
               "return"}

\* Where the context of the process that runs, or is to run, is at each step.
Stages ==
    /\ at \in {"entry", "all", "low"} => HardwarePart(runs) /\ Still(Kept)
    /\ at = "entry" => regs[LR] = MAGIC
    /\ at = "all" => regs[3] = MAGIC /\ regs[0] = Pointer(9)
    /\ at = "low" => regs[3] = MAGIC /\ regs[1] = Pointer(0)
    /\ at = "high" =>
          /\ regs[1] = Pointer(5)
          /\ frame[runs][ERV_SAVE] = MAGIC /\ HardwarePart(runs)
          /\ \A r \in 4 .. 7 : frame[runs][r - 3] = own[runs][r] /\ regs[r] = own[runs][r + 4]
    /\ at \in {"chosen", "restore", "low again", "return"} => SavedFrame(runs)
    /\ at = "restore" => regs[0] = Pointer(0)
    /\ at = "low again" => /\ regs[0] = Pointer(9) /\ regs[1] = Pointer(0)
                           /\ Still(8 .. 11)
    /\ at = "return" => regs[3] = MAGIC /\ regs[0] = Pointer(9) /\ Still(Kept)

ContextInv ==
    /\ ContextTypes /\ Stages
    /\ \A p \in Tasks \ {runs} : SavedFrame(p)

-----------------------------------------------------------------------------
(* The words *)

\* Every register is saved, by the processor or by isave, and only once.
LEMMA RegisterFacts ==
    /\ Kept = 4 .. 11 /\ Kept \subseteq Registers /\ {0, 1, 3, LR} \subseteq Registers
    /\ HardwareSaved \in Seq(Registers) /\ Len(HardwareSaved) = 8
    /\ \A i \in 1 .. 8 : HardwareSaved[i] \in Registers \ Kept
    /\ \A i, j \in 1 .. 8 : HardwareSaved[i] = HardwareSaved[j] => i = j
    /\ \A r \in Registers \ Kept : \E i \in 1 .. 8 : HardwareSaved[i] = r
    /\ LR \notin CallerSaved /\ Kept \cap CallerSaved = {} /\ 3 \in CallerSaved
<1>1. HardwareSaved \in Seq(Registers) /\ Len(HardwareSaved) = 8
    BY DEF HardwareSaved, Registers, LR, PC, PSR
<1>2. /\ \A i \in 1 .. 8 : HardwareSaved[i] \in Registers \ Kept
      /\ \A i, j \in 1 .. 8 : HardwareSaved[i] = HardwareSaved[j] => i = j
    BY DEF HardwareSaved, Registers, LR, PC, PSR, Kept
<1>3. \A r \in Registers \ Kept : \E i \in 1 .. 8 : HardwareSaved[i] = r
    <2>1. \A r \in Registers \ Kept : r \in {0, 1, 2, 3, 12, LR, PC, PSR}
        BY DEF Registers, Kept
    <2>2. /\ HardwareSaved[1] = 0 /\ HardwareSaved[2] = 1 /\ HardwareSaved[3] = 2
          /\ HardwareSaved[4] = 3 /\ HardwareSaved[5] = 12 /\ HardwareSaved[6] = LR
          /\ HardwareSaved[7] = PC /\ HardwareSaved[8] = PSR
        BY DEF HardwareSaved
    <2>3. {1, 2, 3, 4, 5, 6, 7, 8} \subseteq 1 .. 8
        OBVIOUS
    <2>4. QED
        BY <2>1, <2>2, <2>3
<1>4. /\ Kept = 4 .. 11 /\ Kept \subseteq Registers /\ {0, 1, 3, LR} \subseteq Registers
      /\ LR \notin CallerSaved /\ Kept \cap CallerSaved = {} /\ 3 \in CallerSaved
    BY DEF Kept, Registers, LR, PC, PSR, CallerSaved
<1>5. QED
    BY <1>1, <1>2, <1>3, <1>4

\* Where a pointer points to.
LEMMA PointerFacts == \A w : Pointer(w)[3] = w
    BY DEF Pointer

\* The frame that start() fakes holds what a process is promised.
LEMMA FakedFrame == 
    ASSUME NEW p \in Tasks, frame[p] = NewFrame(p), own[p] = NewRegisters(p)
    PROVE  SavedFrame(p)
<1>1. frame[p][ERV_SAVE] = MAGIC
    BY DEF NewFrame, FrameWords, ERV_SAVE, R0_SAVE, LR_SAVE, PC_SAVE, PSR_SAVE, ARGUMENT_SAVE
<1>2. \A r \in Kept : frame[p][r - 3] = Zero /\ own[p][r] = Zero
    BY DEF NewFrame, NewRegisters, Kept, FrameWords, Registers, LR, PC, PSR, ERV_SAVE, R0_SAVE,
           LR_SAVE, PC_SAVE, PSR_SAVE, ARGUMENT_SAVE
<1>3. HardwarePart(p)
    <2> SUFFICES ASSUME NEW i \in 1 .. 8 PROVE frame[p][i + 8] = own[p][HardwareSaved[i]]
        BY DEF HardwarePart
    <2>1. i + 8 \in FrameWords /\ HardwareSaved[i] \in Registers
        BY RegisterFacts DEF FrameWords
    <2>2. CASE i = 1
        BY <2>2 DEF NewFrame, NewRegisters, HardwareSaved, Registers, FrameWords, LR, PC, PSR,
           ERV_SAVE, R0_SAVE, LR_SAVE, PC_SAVE, PSR_SAVE, ARGUMENT_SAVE
    <2>3. CASE i \in 2 .. 5
        BY <2>3 DEF NewFrame, NewRegisters, HardwareSaved, Registers, FrameWords, LR, PC, PSR,
           ERV_SAVE, R0_SAVE, LR_SAVE, PC_SAVE, PSR_SAVE, ARGUMENT_SAVE
    <2>4. CASE i \in 6 .. 8
        BY <2>4 DEF NewFrame, NewRegisters, HardwareSaved, Registers, FrameWords, LR, PC, PSR,
           ERV_SAVE, R0_SAVE, LR_SAVE, PC_SAVE, PSR_SAVE, ARGUMENT_SAVE
    <2>5. QED
        BY <2>2, <2>3, <2>4
<1>4. QED
    BY <1>1, <1>2, <1>3 DEF SavedFrame

LEMMA StartContext == ContextInit => ContextInv
<1> SUFFICES ASSUME ContextInit PROVE ContextInv
    OBVIOUS
<1>1. ContextTypes
    BY DEF ContextInit, ContextTypes, NewFrame, NewRegisters
<1>2. Stages
    BY DEF ContextInit, Stages
<1>3. \A p \in Tasks : SavedFrame(p)
    BY FakedFrame DEF ContextInit
<1>4. QED
    BY <1>1, <1>2, <1>3 DEF ContextInv

\* A frame that is left alone stays what it was.
LEMMA SameFrame ==
    ASSUME NEW p \in Tasks, frame'[p] = frame[p], own'[p] = own[p]
    PROVE  /\ SavedFrame(p) => SavedFrame(p)'
           /\ HardwarePart(p) => HardwarePart(p)'
    BY DEF SavedFrame, HardwarePart

-----------------------------------------------------------------------------
(* The steps *)

\* A step that moves registers only.
LEMMA RegistersMove ==
    ASSUME ContextInv, UNCHANGED <<chip, frame, runs, own>>, 
           regs' = [r \in Registers |-> regs'[r]],
           at' \in {"process", "entry", "all", "low", "high", "chosen", "restore", "low again",
                    "return"},
           Stages'
    PROVE  ContextInv'
<1>1. ContextTypes'
    BY DEF ContextInv, ContextTypes
<1>2. \A p \in Tasks \ {runs'} : SavedFrame(p)'
    BY SameFrame DEF ContextInv
<1>3. QED
    BY <1>1, <1>2 DEF ContextInv

LEMMA ComputeKeeps == ASSUME ContextInv, NEW v \in 1 .. 2, Compute(v) PROVE ContextInv'
<1>1. Stages'
    BY DEF Compute, Stages
<1>2. regs' = [r \in Registers |-> regs'[r]]
    BY DEF Compute
<1>3. QED
    BY <1>1, <1>2, RegistersMove DEF Compute

LEMMA IntervenesKeeps == ASSUME ContextInv, Intervene PROVE ContextInv'
<1>1. regs' = [r \in Registers |-> regs'[r]]
    BY DEF Intervene, Clobbered
<1>2. \A r \in Registers \ CallerSaved : regs'[r] = regs[r]
    BY DEF Intervene, Clobbered
<1>3. Stages'
    BY <1>2, RegisterFacts
       DEF ContextInv, Stages, Intervene, HardwarePart, Still
<1>4. QED
    BY <1>1, <1>3, RegistersMove DEF Intervene

LEMMA ExceptionKeeps ==
    ASSUME ContextInv, NEW isCall \in BOOLEAN, Exception(isCall)
    PROVE  ContextInv'
<1>1. /\ runs \in Tasks /\ runs' = runs /\ at' = "entry" /\ chip' = chip
      /\ own' = [own EXCEPT ![runs] = regs]
      /\ regs' = [regs EXCEPT ![LR] = MAGIC]
      /\ regs = [r \in Registers |-> regs[r]]
    BY DEF ContextInv, ContextTypes, Exception
<1>2. own'[runs] = regs /\ \A p \in Tasks \ {runs} : own'[p] = own[p]
    BY <1>1 DEF ContextInv, ContextTypes
<1>3. /\ \A w \in 9 .. 16 : frame'[runs][w] = regs[HardwareSaved[w - 8]]
      /\ \A p \in Tasks \ {runs} : frame'[p] = frame[p]
      /\ frame' = [p \in Tasks |-> [w \in FrameWords |-> frame'[p][w]]]
    <2>1. PICK f : f = [w \in FrameWords |-> IF w >= R0_SAVE THEN regs[HardwareSaved[w - R0_SAVE + 1]]
                                              ELSE Junk]
        OBVIOUS
    <2>2. frame' = [frame EXCEPT ![runs] = f]
        BY <2>1 DEF Exception
    <2>3. \A w \in 9 .. 16 : f[w] = regs[HardwareSaved[w - 8]]
        BY <2>1 DEF FrameWords, R0_SAVE
    <2>4. f = [w \in FrameWords |-> f[w]]
        BY <2>1
    <2>5. frame = [p \in Tasks |-> [w \in FrameWords |-> frame[p][w]]]
        BY DEF ContextInv, ContextTypes
    <2>6. QED
        BY <1>1, <2>2, <2>3, <2>4, <2>5
<1>4. /\ regs'[LR] = MAGIC /\ \A r \in Registers \ {LR} : regs'[r] = regs[r]
      /\ regs' = [r \in Registers |-> regs'[r]]
    BY <1>1, RegisterFacts
<1>5. HardwarePart(runs)'
    <2> SUFFICES ASSUME NEW i \in 1 .. 8
                 PROVE  frame'[runs'][i + 8] = own'[runs'][HardwareSaved[i]]
        BY DEF HardwarePart
    <2>1. i + 8 \in 9 .. 16 /\ (i + 8) - 8 = i
        OBVIOUS
    <2>2. QED
        BY <1>1, <1>2, <1>3, <2>1
<1>6. Still(Kept)'
    BY <1>1, <1>2, <1>4, RegisterFacts DEF Still, Kept, LR
<1>7. Stages'
    BY <1>1, <1>4, <1>5, <1>6 DEF Stages
<1>8. ContextTypes'
    <2>1. own' = [p \in Tasks |-> [r \in Registers |-> own'[p][r]]]
        BY <1>1 DEF ContextInv, ContextTypes
    <2>2. QED
        BY <2>1, <1>1, <1>3, <1>4 DEF ContextInv, ContextTypes
<1>9. \A p \in Tasks \ {runs'} : SavedFrame(p)'
    BY <1>1, <1>2, <1>3, SameFrame DEF ContextInv
<1>10. QED
    BY <1>7, <1>8, <1>9 DEF ContextInv

LEMMA BeginSaveKeeps == ASSUME ContextInv, BeginSave PROVE ContextInv'
<1>1. /\ at = "entry" /\ at' = IF chip = "m0" THEN "low" ELSE "all"
      /\ UNCHANGED <<chip, runs, own, frame>>
      /\ regs[LR] = MAGIC /\ HardwarePart(runs) /\ Still(Kept)
    BY DEF BeginSave, Step, ContextInv, Stages
<1>2. /\ regs'[0] = Pointer(IF chip = "m0" THEN 0 ELSE 9) /\ regs'[3] = MAGIC
      /\ chip = "m0" => regs'[1] = Pointer(0)
      /\ \A r \in Kept : regs'[r] = regs[r]
      /\ regs' = [r \in Registers |-> regs'[r]]
    <2>1. regs = [r \in Registers |-> regs[r]]
        BY DEF ContextInv, ContextTypes
    <2>2. 0 \in Registers /\ 1 \in Registers /\ 3 \in Registers /\ Kept \subseteq Registers
        BY RegisterFacts
    <2>3. (IF chip = "m0" THEN R0_SAVE - 9 ELSE R0_SAVE) = (IF chip = "m0" THEN 0 ELSE 9)
        BY DEF R0_SAVE
    <2>4. PICK b : b = Pointer(IF chip = "m0" THEN 0 ELSE 9)
        OBVIOUS
    <2>5. regs' = [regs EXCEPT ![0] = b, ![3] = regs[LR], ![1] = IF chip = "m0" THEN b ELSE @]
        BY <2>3, <2>4 DEF BeginSave
    <2>6. 0 \notin Kept /\ 1 \notin Kept /\ 3 \notin Kept
        BY DEF Kept
    <2>7. PICK l : l = regs[LR]
        OBVIOUS
    <2>8. regs' = [regs EXCEPT ![0] = b, ![3] = l, ![1] = IF chip = "m0" THEN b ELSE @]
        BY <2>5, <2>7
    <2>9. DOMAIN regs' = Registers /\ regs' = [r \in Registers |-> regs'[r]]
        BY <2>1, <2>8
    <2>10. /\ regs'[0] = b /\ regs'[3] = l
           /\ chip = "m0" => regs'[1] = b
        BY <2>1, <2>2, <2>8
    <2>11. \A r \in Kept : regs'[r] = regs[r]
        BY <2>1, <2>2, <2>6, <2>8
    <2>12. QED
        BY <1>1, <2>4, <2>7, <2>9, <2>10, <2>11
<1>3. Stages'
    BY <1>1, <1>2 DEF Stages, HardwarePart, Still
<1>4. QED
    BY <1>1, <1>2, <1>3, RegistersMove DEF ContextInv, ContextTypes, ChipNames

\* stm: the words from first on take the registers, and no others.
LEMMA StoredFacts ==
    ASSUME ContextInv, NEW first \in 0 .. 8, NEW a \in 3 .. 4, NEW b \in 7 .. 11,
           first + b - a <= 8, frame' = Stored(runs, first, a, b)
    PROVE  /\ \A w \in FrameWords :
                 frame'[runs][w] = IF w \in first .. first + b - a THEN regs[a + w - first]
                                   ELSE frame[runs][w]
           /\ \A p \in Tasks \ {runs} : frame'[p] = frame[p]
           /\ frame' = [p \in Tasks |-> [w \in FrameWords |-> frame'[p][w]]]
<1>1. /\ runs \in Tasks
      /\ frame = [p \in Tasks |-> [w \in FrameWords |-> frame[p][w]]]
    BY DEF ContextInv, ContextTypes
<1>2. DOMAIN frame[runs] = FrameWords
    BY <1>1
<1>3. PICK f : f = [w \in FrameWords |-> IF w \in first .. first + b - a THEN regs[a + w - first]
                                          ELSE frame[runs][w]]
    OBVIOUS
<1>4. frame' = [frame EXCEPT ![runs] = f]
    BY <1>2, <1>3 DEF Stored
<1>5. f = [w \in FrameWords |-> f[w]]
    BY <1>3
<1>6. /\ frame'[runs] = f /\ \A p \in Tasks \ {runs} : frame'[p] = frame[p]
      /\ DOMAIN frame' = Tasks /\ frame' = [p \in Tasks |-> frame'[p]]
    BY <1>1, <1>4
<1>7. \A p \in Tasks : frame'[p] = [w \in FrameWords |-> frame'[p][w]]
    BY <1>1, <1>5, <1>6
<1>8. frame' = [p \in Tasks |-> [w \in FrameWords |-> frame'[p][w]]]
    BY <1>6, <1>7
<1>9. \A w \in FrameWords : f[w] = IF w \in first .. first + b - a THEN regs[a + w - first]
                                    ELSE frame[runs][w]
    BY <1>3
<1>10. QED
    BY <1>6, <1>8, <1>9

\* A step of isave, which stores part of the context of the process.
LEMMA SavingKeeps ==
    ASSUME ContextInv, UNCHANGED <<chip, runs, own>>,
           regs' = [r \in Registers |-> regs'[r]], at' \in {"high", "chosen"},
           frame' = [p \in Tasks |-> [w \in FrameWords |-> frame'[p][w]]],
           \A p \in Tasks \ {runs} : frame'[p] = frame[p], Stages'
    PROVE  ContextInv'
<1>1. ContextTypes'
    BY DEF ContextInv, ContextTypes
<1>2. \A p \in Tasks \ {runs'} : SavedFrame(p)'
    BY SameFrame DEF ContextInv
<1>3. QED
    BY <1>1, <1>2 DEF ContextInv

LEMMA SaveAllKeeps == ASSUME ContextInv, SaveAll PROVE ContextInv'
<1>1. /\ at' = "chosen" /\ UNCHANGED <<chip, runs, own>>
      /\ HardwarePart(runs) /\ Still(Kept) /\ regs[3] = MAGIC /\ regs[0] = Pointer(9)
      /\ regs = [r \in Registers |-> regs[r]]
    BY DEF SaveAll, Step, ContextInv, ContextTypes, Stages
<1>2. frame' = Stored(runs, 0, 3, 11) /\ regs' = [r \in Registers |-> regs'[r]]
    <2>1. regs[0][3] - 9 = 0
        BY <1>1, PointerFacts
    <2>2. QED
        BY <1>1, <2>1 DEF SaveAll
<1>3. /\ \A w \in FrameWords : frame'[runs][w] = IF w \in 0 .. 8 THEN regs[w + 3] ELSE frame[runs][w]
      /\ \A p \in Tasks \ {runs} : frame'[p] = frame[p]
      /\ frame' = [p \in Tasks |-> [w \in FrameWords |-> frame'[p][w]]]
    <2>1. 0 + 11 - 3 = 8 /\ \A w \in FrameWords : 3 + w - 0 = w + 3
        BY DEF FrameWords
    <2>2. 0 \in 0 .. 8 /\ 3 \in 3 .. 4 /\ 11 \in 7 .. 11
        OBVIOUS
    <2>3. /\ \A w \in FrameWords :
                frame'[runs][w] = IF w \in 0 .. 0 + 11 - 3 THEN regs[3 + w - 0] ELSE frame[runs][w]
          /\ \A p \in Tasks \ {runs} : frame'[p] = frame[p]
          /\ frame' = [p \in Tasks |-> [w \in FrameWords |-> frame'[p][w]]]
        BY <1>2, <2>1, <2>2, StoredFacts
    <2>4. QED
        BY <2>1, <2>3
<1>4. SavedFrame(runs)'
    <2>1. frame'[runs][ERV_SAVE] = MAGIC
        BY <1>1, <1>3 DEF ERV_SAVE, FrameWords
    <2>2. ASSUME NEW r \in Kept PROVE frame'[runs][r - 3] = own[runs][r]
        <3>1. PICK w : w = r - 3
            OBVIOUS
        <3>2. w \in 0 .. 8 /\ w \in FrameWords /\ w + 3 = r
            BY <3>1 DEF Kept, FrameWords
        <3>3. frame'[runs][w] = regs[r]
            BY <1>3, <3>2
        <3>4. QED
            BY <1>1, <3>1, <3>3 DEF Still
    <2>3. ASSUME NEW i \in 1 .. 8 PROVE frame'[runs][i + 8] = own[runs][HardwareSaved[i]]
        <3>1. PICK w : w = i + 8
            OBVIOUS
        <3>2. w \in FrameWords /\ w \notin 0 .. 8
            BY <3>1 DEF FrameWords
        <3>3. frame'[runs][w] = frame[runs][w]
            BY <1>3, <3>2
        <3>4. frame[runs][i + 8] = own[runs][HardwareSaved[i]]
            BY <1>1 DEF HardwarePart
        <3>5. QED
            BY <3>1, <3>3, <3>4
    <2>4. QED
        BY <1>1, <2>1, <2>2, <2>3 DEF SavedFrame, HardwarePart
<1>5. Stages'
    BY <1>1, <1>4 DEF Stages
<1>6. QED
    BY <1>1, <1>2, <1>3, <1>5, SavingKeeps

LEMMA SaveLowKeeps == ASSUME ContextInv, SaveLow PROVE ContextInv'
<1>1. /\ at' = "high" /\ UNCHANGED <<chip, runs, own>>
      /\ HardwarePart(runs) /\ Still(Kept) /\ regs[3] = MAGIC /\ regs[1] = Pointer(0)
      /\ regs = [r \in Registers |-> regs[r]]
    BY DEF SaveLow, Step, ContextInv, ContextTypes, Stages
<1>2. /\ frame' = Stored(runs, 0, 3, 7)
      /\ regs' = [r \in Registers |-> regs'[r]] /\ regs'[1] = Pointer(5)
      /\ \A r \in 4 .. 7 : regs'[r] = regs[r + 4]
    <2>1. regs[1][3] = 0
        BY <1>1, PointerFacts
    <2>2. PICK m : m = Moved(4, 8)
        OBVIOUS
    <2>3. /\ m = [r \in Registers |-> m[r]] /\ m[1] = regs[1]
          /\ \A r \in 4 .. 7 : m[r] = regs[r + 4]
        <3>1. \A r \in 4 .. 7 : r \in Registers /\ 8 + r - 4 = r + 4
            BY DEF Registers
        <3>2. 1 \in Registers /\ 1 \notin 4 .. 4 + 3 /\ 4 .. 7 = 4 .. 4 + 3
            BY DEF Registers
        <3>3. QED
            BY <2>2, <3>1, <3>2 DEF Moved
    <2>4. m[1][3] + 5 = 5
        BY <2>1, <2>3
    <2>5. regs' = [m EXCEPT ![1] = Pointer(5)] /\ 1 \in Registers
        BY <2>2, <2>4, RegisterFacts DEF SaveLow
    <2>6. /\ regs' = [r \in Registers |-> regs'[r]] /\ regs'[1] = Pointer(5)
          /\ \A r \in Registers \ {1} : regs'[r] = m[r]
        BY <2>3, <2>5
    <2>7. \A r \in 4 .. 7 : r \in Registers \ {1}
        BY DEF Registers
    <2>8. frame' = Stored(runs, 0, 3, 7)
        BY <2>1 DEF SaveLow
    <2>9. QED
        BY <2>3, <2>6, <2>7, <2>8
<1>3. /\ \A w \in FrameWords : frame'[runs][w] = IF w \in 0 .. 4 THEN regs[w + 3] ELSE frame[runs][w]
      /\ \A p \in Tasks \ {runs} : frame'[p] = frame[p]
      /\ frame' = [p \in Tasks |-> [w \in FrameWords |-> frame'[p][w]]]
    <2>1. 0 + 7 - 3 = 4 /\ \A w \in FrameWords : 3 + w - 0 = w + 3
        BY DEF FrameWords
    <2>2. 0 \in 0 .. 8 /\ 3 \in 3 .. 4 /\ 7 \in 7 .. 11
        OBVIOUS
    <2>3. /\ \A w \in FrameWords :
                frame'[runs][w] = IF w \in 0 .. 0 + 7 - 3 THEN regs[3 + w - 0] ELSE frame[runs][w]
          /\ \A p \in Tasks \ {runs} : frame'[p] = frame[p]
          /\ frame' = [p \in Tasks |-> [w \in FrameWords |-> frame'[p][w]]]
        BY <1>2, <2>1, <2>2, StoredFacts
    <2>4. QED
        BY <2>1, <2>3
<1>4. frame'[runs][ERV_SAVE] = MAGIC
    BY <1>1, <1>3 DEF ERV_SAVE, FrameWords
<1>5. ASSUME NEW r \in 4 .. 7
      PROVE  frame'[runs][r - 3] = own[runs][r] /\ regs'[r] = own[runs][r + 4]
    <2>1. PICK w : w = r - 3
        OBVIOUS
    <2>2. w \in 0 .. 4 /\ w \in FrameWords /\ w + 3 = r /\ r \in Kept /\ r + 4 \in Kept
        BY <2>1 DEF Kept, FrameWords
    <2>3. frame'[runs][w] = regs[r]
        BY <1>3, <2>2
    <2>4. regs[r] = own[runs][r] /\ regs[r + 4] = own[runs][r + 4] /\ regs'[r] = regs[r + 4]
        BY <1>1, <1>2, <2>2 DEF Still
    <2>5. QED
        BY <2>1, <2>3, <2>4
<1>6. ASSUME NEW i \in 1 .. 8 PROVE frame'[runs][i + 8] = own[runs][HardwareSaved[i]]
    <2>1. i + 8 \in FrameWords /\ i + 8 \notin 0 .. 4
        BY DEF FrameWords
    <2>2. QED
        BY <1>1, <1>3, <2>1 DEF HardwarePart
<1>7. Stages'
    BY <1>1, <1>2, <1>4, <1>5, <1>6 DEF Stages, HardwarePart
<1>8. QED
    BY <1>1, <1>2, <1>3, <1>7, SavingKeeps

LEMMA SaveHighKeeps == ASSUME ContextInv, SaveHigh PROVE ContextInv'
<1>1. /\ at' = "chosen" /\ UNCHANGED <<chip, runs, own>> /\ regs' = regs
      /\ HardwarePart(runs) /\ frame[runs][ERV_SAVE] = MAGIC /\ regs[1] = Pointer(5)
      /\ \A r \in 4 .. 7 : frame[runs][r - 3] = own[runs][r] /\ regs[r] = own[runs][r + 4]
      /\ regs = [r \in Registers |-> regs[r]]
    BY DEF SaveHigh, Step, ContextInv, ContextTypes, Stages
<1>2. frame' = Stored(runs, 5, 4, 7)
    BY <1>1, PointerFacts DEF SaveHigh
<1>3. /\ \A w \in FrameWords : frame'[runs][w] = IF w \in 5 .. 8 THEN regs[4 + w - 5] ELSE frame[runs][w]
      /\ \A p \in Tasks \ {runs} : frame'[p] = frame[p]
      /\ frame' = [p \in Tasks |-> [w \in FrameWords |-> frame'[p][w]]]
    BY <1>2, StoredFacts
<1>4. SavedFrame(runs)'
    <2>1. frame'[runs][ERV_SAVE] = MAGIC
        BY <1>1, <1>3 DEF ERV_SAVE, FrameWords
    <2>2. ASSUME NEW r \in Kept PROVE frame'[runs][r - 3] = own[runs][r]
        <3>1. CASE r \in 4 .. 7
            <4>1. PICK w : w = r - 3
                OBVIOUS
            <4>2. w \in FrameWords /\ w \notin 5 .. 8
                BY <3>1, <4>1 DEF FrameWords
            <4>3. frame'[runs][w] = frame[runs][w]
                BY <1>3, <4>2
            <4>4. frame[runs][w] = own[runs][r]
                BY <1>1, <3>1, <4>1
            <4>5. QED
                BY <4>1, <4>3, <4>4
        <3>2. CASE r \in 8 .. 11
            <4>1. PICK w, v : w = r - 3 /\ v = r - 4
                OBVIOUS
            <4>2. /\ w \in FrameWords /\ w \in 5 .. 8 /\ 4 + w - 5 = v
                  /\ v \in 4 .. 7 /\ v + 4 = r
                BY <3>2, <4>1 DEF FrameWords
            <4>3. frame'[runs][w] = regs[4 + w - 5]
                BY <1>3, <4>2
            <4>4. regs[v] = own[runs][v + 4]
                BY <1>1, <4>2
            <4>5. QED
                BY <4>1, <4>2, <4>3, <4>4
        <3>3. QED
            BY <3>1, <3>2 DEF Kept
    <2>3. ASSUME NEW i \in 1 .. 8 PROVE frame'[runs][i + 8] = own[runs][HardwareSaved[i]]
        <3>1. PICK w : w = i + 8
            OBVIOUS
        <3>2. w \in FrameWords /\ w \notin 5 .. 8
            BY <3>1 DEF FrameWords
        <3>3. frame'[runs][w] = frame[runs][w]
            BY <1>3, <3>2
        <3>4. frame[runs][i + 8] = own[runs][HardwareSaved[i]]
            BY <1>1 DEF HardwarePart
        <3>5. QED
            BY <3>1, <3>3, <3>4
    <2>4. QED
        BY <1>1, <2>1, <2>2, <2>3 DEF SavedFrame, HardwarePart
<1>5. Stages'
    BY <1>1, <1>4 DEF Stages
<1>6. QED
    BY <1>1, <1>3, <1>5, SavingKeeps

LEMMA ChooseKeeps == ASSUME ContextInv, NEW q \in Tasks, Choose(q) PROVE ContextInv'
<1>1. /\ at = "chosen" /\ at' = "restore" /\ runs' = q /\ UNCHANGED <<chip, frame, own>>
      /\ \A p \in Tasks : SavedFrame(p)
    BY DEF Choose, ContextInv, Stages
<1>2. \A p \in Tasks : SavedFrame(p)'
    BY <1>1, SameFrame
<1>3. regs' = [r \in Registers |-> regs'[r]] /\ regs'[0] = Pointer(0)
    BY RegisterFacts DEF Choose, Clobbered
<1>4. ContextTypes'
    BY <1>1, <1>3 DEF ContextInv, ContextTypes
<1>5. Stages'
    BY <1>1, <1>2, <1>3 DEF Stages
<1>6. QED
    BY <1>2, <1>4, <1>5 DEF ContextInv

LEMMA RestoreAllKeeps == ASSUME ContextInv, RestoreAll PROVE ContextInv'
<1>1. /\ at' = "return" /\ UNCHANGED <<chip, runs, own, frame>>
      /\ SavedFrame(runs) /\ regs[0] = Pointer(0) /\ regs[0][3] = 0
    BY PointerFacts DEF RestoreAll, Step, ContextInv, Stages
<1>2. PICK m : m = Loaded(runs, 0, 3, 11)
    OBVIOUS
<1>3. /\ m = [r \in Registers |-> m[r]] /\ m[0] = regs[0]
      /\ m[3] = frame[runs][0] /\ \A r \in Kept : m[r] = frame[runs][r - 3]
    <2>1. 0 \in Registers /\ 0 \notin 3 .. 11 /\ 3 \in Registers /\ 3 \in 3 .. 11
        BY RegisterFacts
    <2>2. \A r \in Kept : r \in Registers /\ r \in 3 .. 11 /\ 0 + r - 3 = r - 3
        BY RegisterFacts
    <2>3. 0 + 3 - 3 = 0
        OBVIOUS
    <2>4. QED
        BY <1>2, <2>1, <2>2, <2>3 DEF Loaded
<1>4. regs' = [m EXCEPT ![0] = Pointer(9)]
    <2>1. m[0][3] + 9 = 9
        BY <1>1, <1>3
    <2>2. QED
        BY <1>1, <1>2, <2>1 DEF RestoreAll
<1>5. /\ regs' = [r \in Registers |-> regs'[r]] /\ regs'[0] = Pointer(9) /\ regs'[3] = MAGIC
      /\ \A r \in Kept : regs'[r] = own[runs][r]
    <2>1. 0 \in Registers /\ 3 \in Registers /\ Kept \subseteq Registers /\ 0 \notin Kept
        BY RegisterFacts DEF Kept
    <2>2. QED
        BY <1>1, <1>3, <1>4, <2>1 DEF SavedFrame, ERV_SAVE
<1>6. Stages'
    BY <1>1, <1>5 DEF Stages, SavedFrame, HardwarePart, Still
<1>7. QED
    BY <1>1, <1>5, <1>6, RegistersMove

LEMMA RestoreHighKeeps == ASSUME ContextInv, RestoreHigh PROVE ContextInv'
<1>1. /\ at' = "low again" /\ UNCHANGED <<chip, runs, own, frame>>
      /\ SavedFrame(runs) /\ regs[0] = Pointer(0) /\ regs[0][3] = 0
    BY PointerFacts DEF RestoreHigh, Step, ContextInv, Stages
<1>2. PICK h : h = Loaded(runs, 5, 4, 7)
    OBVIOUS
<1>3. \A r \in 8 .. 11 : h[r - 4] = frame[runs][r - 3]
    <2>1. \A r \in 8 .. 11 : r - 4 \in Registers /\ r - 4 \in 4 .. 7 /\ 5 + (r - 4) - 4 = r - 3
        BY DEF Registers
    <2>2. QED
        BY <1>2, <2>1 DEF Loaded
<1>4. /\ regs' = [r \in Registers |-> regs'[r]]
      /\ regs'[0] = Pointer(9) /\ regs'[1] = regs[0]
      /\ \A r \in 8 .. 11 : regs'[r] = h[r - 4]
    <2>1. PICK z : z = regs[0][3]
        OBVIOUS
    <2>2. z = 0
        BY <1>1, <2>1
    <2>3. z + 5 = 5 /\ z + 9 = 9
        BY <2>2
    <2>4. h = Loaded(runs, regs[0][3] + 5, 4, 7) /\ regs[0][3] + 9 = 9
        BY <1>2, <2>1, <2>3
    <2>5. /\ 0 \in Registers /\ 1 \in Registers
          /\ \A r \in 8 .. 11 : r \in Registers /\ r # 0 /\ r # 1
        BY DEF Registers
    <2>6. PICK y : y = Pointer(regs[0][3] + 9)
        OBVIOUS
    <2>7. regs' = [r \in Registers |->
                      CASE r = 0       -> Pointer(regs[0][3] + 9)
                        [] r = 1       -> regs[0]
                        [] r \in 8 .. 11 -> Loaded(runs, regs[0][3] + 5, 4, 7)[r - 4]
                        [] OTHER       -> Loaded(runs, regs[0][3] + 5, 4, 7)[r]]
        BY Zenon DEF RestoreHigh
    <2>8. regs' = [r \in Registers |->
                      CASE r = 0       -> y
                        [] r = 1       -> regs[0]
                        [] r \in 8 .. 11 -> h[r - 4]
                        [] OTHER       -> h[r]]
        BY <2>4, <2>6, <2>7, SMT
    <2>9. y = Pointer(9)
        BY <2>4, <2>6
    <2>10. QED
        BY <2>5, <2>8, <2>9
<1>5. /\ regs' = [r \in Registers |-> regs'[r]]
      /\ regs'[0] = Pointer(9) /\ regs'[1] = Pointer(0)
      /\ \A r \in 8 .. 11 : regs'[r] = own[runs][r]
    <2>1. /\ 0 \in Registers /\ 1 \in Registers
          /\ \A r \in 8 .. 11 : r \in Registers /\ r \in Kept /\ r # 0 /\ r # 1
        BY RegisterFacts DEF Registers
    <2>2. regs' = [r \in Registers |-> regs'[r]] /\ regs'[0] = Pointer(9) /\ regs'[1] = Pointer(0)
        BY <1>1, <1>4, <2>1
    <2>3. \A r \in 8 .. 11 : regs'[r] = h[r - 4]
        BY <1>4, <2>1
    <2>4. \A r \in 8 .. 11 : frame[runs][r - 3] = own[runs][r]
        BY <1>1, <2>1 DEF SavedFrame
    <2>5. QED
        BY <1>3, <2>2, <2>3, <2>4
<1>6. Stages'
    BY <1>1, <1>5 DEF Stages, SavedFrame, HardwarePart, Still
<1>7. QED
    BY <1>1, <1>5, <1>6, RegistersMove

LEMMA RestoreLowKeeps == ASSUME ContextInv, RestoreLow PROVE ContextInv'
<1>1. /\ at' = "return" /\ UNCHANGED <<chip, runs, own, frame>>
      /\ SavedFrame(runs) /\ regs[0] = Pointer(9) /\ regs[1][3] = 0
      /\ \A r \in 8 .. 11 : regs[r] = own[runs][r]
    BY PointerFacts DEF RestoreLow, Step, ContextInv, Stages, Still
<1>2. regs' = Loaded(runs, 0, 3, 7)
    BY <1>1 DEF RestoreLow
<1>3. /\ regs' = [r \in Registers |-> regs'[r]]
      /\ regs'[0] = regs[0] /\ regs'[3] = frame[runs][0]
      /\ \A r \in 4 .. 7 : regs'[r] = frame[runs][r - 3]
      /\ \A r \in 8 .. 11 : regs'[r] = regs[r]
    <2>1. 0 \in Registers /\ 0 \notin 3 .. 7 /\ 3 \in Registers /\ 3 \in 3 .. 7 /\ 0 + 3 - 3 = 0
        BY RegisterFacts
    <2>2. /\ \A r \in 4 .. 7 : r \in Registers /\ r \in 3 .. 7 /\ 0 + r - 3 = r - 3
          /\ \A r \in 8 .. 11 : r \in Registers /\ r \notin 3 .. 7
        BY DEF Registers
    <2>3. QED
        BY <1>2, <2>1, <2>2 DEF Loaded
<1>4. \A r \in Kept : regs'[r] = own[runs][r]
    BY <1>1, <1>3 DEF SavedFrame, Kept
<1>5. Stages'
    BY <1>1, <1>3, <1>4 DEF Stages, SavedFrame, HardwarePart, Still, ERV_SAVE
<1>6. QED
    BY <1>1, <1>3, <1>5, RegistersMove

\* The process finds all its registers as it left them.
LEMMA ReturnRestores == ASSUME ContextInv, ExceptionReturn PROVE regs' = own[runs]
<1>1. /\ SavedFrame(runs) /\ regs[0][3] - 1 = 8
      /\ \A r \in Kept : regs[r] = own[runs][r]
      /\ own[runs] = [r \in Registers |-> own[runs][r]]
    <2>1. own[runs] = [r \in Registers |-> own[runs][r]]
        BY DEF ContextInv, ContextTypes
    <2>2. /\ SavedFrame(runs) /\ regs[0] = Pointer(9)
          /\ \A r \in Kept : regs[r] = own[runs][r]
        BY DEF ExceptionReturn, ContextInv, Stages, Still
    <2>3. regs[0][3] - 1 = 8
        BY <2>2, PointerFacts
    <2>4. QED
        BY <2>1, <2>2, <2>3
<1>2. regs' = [r \in Registers |->
                  IF \E i \in 1 .. 8 : HardwareSaved[i] = r
                  THEN frame[runs][8 + CHOOSE i \in 1 .. 8 : HardwareSaved[i] = r]
                  ELSE regs[r]]
    BY <1>1 DEF ExceptionReturn
<1>3. ASSUME NEW r \in Registers
      PROVE  regs'[r] = own[runs][r]
    <2>1. CASE r \in Kept
        BY <1>1, <1>2, <2>1, RegisterFacts
    <2>2. CASE r \notin Kept
        <3>1. \E i \in 1 .. 8 : HardwareSaved[i] = r
            BY <2>2, RegisterFacts
        <3>2. PICK j : j = CHOOSE i \in 1 .. 8 : HardwareSaved[i] = r
            OBVIOUS
        <3>3. j \in 1 .. 8 /\ HardwareSaved[j] = r
            BY <3>1, <3>2
        <3>4. regs'[r] = frame[runs][8 + j]
            BY <1>2, <3>1, <3>2
        <3>5. 8 + j = j + 8
            BY <3>3
        <3>6. QED
            BY <1>1, <3>3, <3>4, <3>5 DEF SavedFrame, HardwarePart
    <2>3. QED
        BY <2>1, <2>2
<1>4. QED
    BY <1>1, <1>2, <1>3

LEMMA ExceptionReturnKeeps == ASSUME ContextInv, ExceptionReturn PROVE ContextInv'
<1>1. regs' = [r \in Registers |-> regs'[r]]
    BY DEF ExceptionReturn
<1>2. Stages'
    BY DEF ExceptionReturn, Stages
<1>3. QED
    BY <1>1, <1>2, RegistersMove DEF ExceptionReturn

-----------------------------------------------------------------------------
(* The theorems *)

\* Where each word of each context is, is known at every step of isave and
\* irestore, on both chips.
THEOREM ContextInvariance == ContextSpec => []ContextInv
<1>1. ContextInv /\ [ContextNext]_contextVars => ContextInv'
    <2> SUFFICES ASSUME ContextInv, [ContextNext]_contextVars PROVE ContextInv'
        OBVIOUS
    <2>1. CASE UNCHANGED contextVars
        BY <2>1 DEF contextVars, ContextInv, ContextTypes, Stages, SavedFrame, HardwarePart, Still
    <2>2. QED
        BY <2>1, ComputeKeeps, ExceptionKeeps, IntervenesKeeps, BeginSaveKeeps, SaveAllKeeps,
           SaveLowKeeps, SaveHighKeeps, ChooseKeeps, RestoreAllKeeps, RestoreHighKeeps,
           RestoreLowKeeps, ExceptionReturnKeeps DEF ContextNext
<1>2. QED
    BY StartContext, <1>1, PTL DEF ContextSpec

\* A process that is resumed finds every register as it left it, a system call
\* reads the arguments that its caller gave, and each saved frame begins with
\* the magic value: for any number of processes, on both chips, through any
\* mix of system calls and interrupts (mpx-m0.s, mpx-m4.s, start()).
THEOREM ContextsKept == ContextSpec => FramesKept
<1>1. ContextInv => MagicSaved
    BY DEF ContextInv, Stages, SavedFrame, MagicSaved
<1>2. ContextInv /\ [ContextNext]_contextVars =>
          [at' = "process" /\ at # "process" => regs' = own[runs]]_contextVars
    <2> SUFFICES ASSUME ContextInv, ContextNext, at' = "process", at # "process"
                 PROVE  regs' = own[runs]
        OBVIOUS
    <2>1. ExceptionReturn
        BY DEF ContextNext, Compute, Exception, Intervene, BeginSave, SaveAll, SaveLow, SaveHigh,
               Choose, RestoreAll, RestoreHigh, RestoreLow, Step
    <2>2. QED
        BY <2>1, ReturnRestores
<1>3. ContextInv /\ [ContextNext]_contextVars =>
          [at = "chosen" /\ called /\ at' = "restore" =>
              sysargs' = <<own[runs][0], own[runs][1], own[runs][2]>>]_contextVars
    <2> SUFFICES ASSUME ContextInv, ContextNext, at = "chosen", called, at' = "restore"
                 PROVE  sysargs' = <<own[runs][0], own[runs][1], own[runs][2]>>
        OBVIOUS
    <2>1. sysargs' = <<sysarg(0), sysarg(1), sysarg(2)>>
        BY DEF ContextNext, Compute, Exception, Intervene, BeginSave, SaveAll, SaveLow, SaveHigh,
               Choose, RestoreAll, RestoreHigh, RestoreLow, ExceptionReturn, Step
    <2>2. \A i \in 1 .. 8 : frame[runs][i + 8] = own[runs][HardwareSaved[i]]
        BY DEF ContextInv, Stages, SavedFrame, HardwarePart
    <2>3. HardwareSaved[1] = 0 /\ HardwareSaved[2] = 1 /\ HardwareSaved[3] = 2
        BY DEF HardwareSaved
    <2>4. sysarg(0) = own[runs][0] /\ sysarg(1) = own[runs][1] /\ sysarg(2) = own[runs][2]
        BY <2>2, <2>3 DEF sysarg, R0_SAVE
    <2>5. QED
        BY <2>1, <2>4
<1>4. ContextSpec => []MagicSaved /\ ResumesWithOwn /\ ArgumentsSurvive
    BY <1>1, <1>2, <1>3, ContextInvariance, PTL DEF ContextSpec, ResumesWithOwn, ArgumentsSurvive
<1>5. QED
    BY <1>4 DEF FramesKept

-----------------------------------------------------------------------------
(***************************************************************************)
(* Theorem of Kprintf: printing in an emergency waits for no character     *)
(* that will not come, and leaves the driver to find its own event, unless *)
(* it printed while the driver waited with nothing sent.                   *)
(*                                                                         *)
(* The inductive invariant balances the characters and events on the way   *)
(* with those that the driver and a printer wait for.                      *)
(***************************************************************************)

\* Characters and events that are on the way to the driver or a printer.
OnTheWay == sending + (IF TXDRDY THEN 1 ELSE 0)

\* One is on the way for the driver as long as it waits for its transmitter,
\* unless it was lost, and one for a printer that waits.
Wanted ==
    (IF txidle \/ lost THEN 0 ELSE 1) + (IF who # "driver" /\ printing = "wait" THEN 1 ELSE 0)

KprintfInv ==
    /\ sending \in Nat
    /\ txidle \in BOOLEAN /\ TXDRDY \in BOOLEAN /\ primask \in BOOLEAN
    /\ saved \in BOOLEAN /\ busy \in BOOLEAN /\ lost \in BOOLEAN
    /\ OnTheWay = Wanted
    /\ lost => ~txidle
    /\ who # "driver" => primask /\ busy = ~txidle
    /\ who # "driver" /\ printing = "setup" => sending = 0
    /\ who = "driver" => printing = "put"

\* What the invariant is made of, apart from the balance of what is on the way
\* and what is due.
LEMMA Balance ==
    KprintfInv =>
        /\ sending \in Nat /\ TXDRDY \in BOOLEAN /\ txidle \in BOOLEAN /\ lost \in BOOLEAN
        /\ OnTheWay = IF TXDRDY THEN sending + 1 ELSE sending
        /\ Wanted \in Nat /\ OnTheWay = Wanted
        /\ Wanted = IF who # "driver" /\ printing = "wait"
                 THEN IF txidle \/ lost THEN 1 ELSE 2
                 ELSE IF txidle \/ lost THEN 0 ELSE 1
    BY DEF KprintfInv, OnTheWay, Wanted

LEMMA StartKprintf == KprintfInit => KprintfInv
<1> SUFFICES ASSUME KprintfInit PROVE KprintfInv
    OBVIOUS
<1>1. OnTheWay = 0 /\ Wanted = 0
    BY DEF KprintfInit, OnTheWay, Wanted
<1>2. QED
    BY <1>1 DEF KprintfInit, KprintfInv

LEMMA DriverSendsKeeps == KprintfInv /\ DriverSends => KprintfInv'
<1> SUFFICES ASSUME KprintfInv, DriverSends PROVE KprintfInv'
    OBVIOUS
<1>1. who = "driver" /\ txidle = TRUE /\ who' = who /\ printing' = printing /\ txidle' = FALSE
    BY DEF DriverSends, KprintfInv
<1>2. sending = 0 /\ TXDRDY = FALSE
    BY <1>1, Balance
<1>3. lost = FALSE
    BY <1>1 DEF KprintfInv
<1>4. sending' = 1 /\ lost' = FALSE /\ TXDRDY' = FALSE
    BY <1>2, <1>3 DEF DriverSends, Write
<1>5. OnTheWay' = 1 /\ Wanted' = 1
    BY <1>1, <1>4 DEF OnTheWay, Wanted
<1>6. QED
    BY <1>1, <1>4, <1>5 DEF KprintfInv, DriverSends

LEMMA serial_interruptKeeps == KprintfInv /\ serial_interrupt => KprintfInv'
<1> SUFFICES ASSUME KprintfInv, serial_interrupt PROVE KprintfInv'
    OBVIOUS
<1>1. who = "driver" /\ printing = "put" /\ who' = who /\ printing' = printing
      /\ sending' = sending /\ lost' = lost
    BY DEF serial_interrupt, KprintfInv, ghosts
<1>2. CASE TXDRDY
    <2>1. TXDRDY' = FALSE /\ txidle' = TRUE
        BY <1>2 DEF serial_interrupt
    <2>2. sending = 0 /\ lost = FALSE
        BY <1>1, <1>2, Balance
    <2>3. OnTheWay' = 0 /\ Wanted' = 0
        BY <1>1, <2>1, <2>2 DEF OnTheWay, Wanted
    <2>4. QED
        BY <1>1, <2>1, <2>2, <2>3 DEF KprintfInv, serial_interrupt, ghosts
<1>3. CASE ~TXDRDY
    <2>1. TXDRDY' = TXDRDY /\ txidle' = txidle
        BY <1>3 DEF serial_interrupt
    <2>2. OnTheWay' = OnTheWay /\ Wanted' = Wanted
        BY <1>1, <2>1 DEF OnTheWay, Wanted
    <2>3. QED
        BY <1>1, <2>1, <2>2 DEF KprintfInv, serial_interrupt, ghosts
<1>4. QED
    BY <1>2, <1>3

LEMMA PutKeeps == KprintfInv /\ Put => KprintfInv'
<1> SUFFICES ASSUME KprintfInv, Put PROVE KprintfInv'
    OBVIOUS
<1>1. who # "driver" /\ who' = who /\ printing = "put" /\ printing' = "wait"
      /\ txidle' = txidle /\ TXDRDY' = TXDRDY
    BY DEF Put
<1>2. CASE sending' = sending + 1 /\ lost' = lost
    <2>1. OnTheWay' = OnTheWay + 1
        BY <1>1, <1>2, Balance DEF OnTheWay
    <2>2. Wanted' = Wanted + 1
        BY <1>1, <1>2 DEF Wanted
    <2>3. sending' \in Nat /\ OnTheWay' = Wanted'
        BY <1>2, <2>1, <2>2, Balance
    <2>4. QED
        BY <1>1, <1>2, <2>3 DEF KprintfInv, Put
<1>3. CASE sending > 0 /\ lost' = TRUE /\ sending' = sending
    <2>1. sending = 1 /\ TXDRDY = FALSE /\ txidle = FALSE /\ lost = FALSE
        BY <1>1, <1>3, Balance
    <2>2. OnTheWay' = 1 /\ Wanted' = 1
        BY <1>1, <1>3, <2>1 DEF OnTheWay, Wanted
    <2>3. QED
        BY <1>1, <1>3, <2>1, <2>2 DEF KprintfInv, Put
<1>4. QED
    BY <1>2, <1>3 DEF Put, Write

LEMMA AnsweredKeeps == KprintfInv /\ Answered => KprintfInv'
<1> SUFFICES ASSUME KprintfInv, Answered PROVE KprintfInv'
    OBVIOUS
<1>1. who # "driver" /\ who' = who /\ printing = "wait" /\ printing' = "put"
      /\ TXDRDY = TRUE /\ TXDRDY' = FALSE
      /\ UNCHANGED <<txidle, sending, lost>>
    BY DEF Answered, KprintfInv, ghosts
<1>2. OnTheWay = sending + 1 /\ OnTheWay' = sending
    BY <1>1, Balance DEF OnTheWay
<1>3. Wanted = Wanted' + 1 /\ Wanted' \in Nat
    BY <1>1 DEF Wanted
<1>4. OnTheWay' = Wanted'
    BY <1>2, <1>3, Balance
<1>5. UNCHANGED <<primask, saved, busy>>
    BY DEF Answered, ghosts
<1>6. QED
    BY <1>1, <1>4, <1>5, Zenon DEF KprintfInv

LEMMA EndKeeps == KprintfInv /\ End => KprintfInv'
<1> SUFFICES ASSUME KprintfInv, End PROVE KprintfInv'
    OBVIOUS
<1>1. printing = "put" /\ UNCHANGED <<txidle, sending, TXDRDY, lost, printing>>
      /\ who' = "driver"
    BY DEF End, uart
<1>2. OnTheWay' = OnTheWay /\ Wanted' = Wanted
    BY <1>1 DEF OnTheWay, Wanted
<1>3. primask' = saved /\ saved' = saved /\ busy' = FALSE
    BY DEF End, Restored
<1>4. QED
    BY <1>1, <1>2, <1>3, Zenon DEF KprintfInv

LEMMA CharacterSentKeeps == KprintfInv /\ CharacterSent => KprintfInv'
    BY DEF KprintfInv, OnTheWay, Wanted, CharacterSent, uart, ghosts

LEMMA KeyKeeps == KprintfInv /\ Key => KprintfInv'
    BY DEF KprintfInv, OnTheWay, Wanted, Key, uart, ghosts

LEMMA ToggleMaskKeeps == KprintfInv /\ ToggleMask => KprintfInv'
    BY DEF KprintfInv, OnTheWay, Wanted, ToggleMask, uart, ghosts

LEMMA DelayKeeps == KprintfInv /\ Delay => KprintfInv'
    BY DEF KprintfInv, OnTheWay, Wanted, Delay, uart, ghosts

LEMMA SetupKeeps == KprintfInv /\ Setup => KprintfInv'
    BY DEF KprintfInv, OnTheWay, Wanted, Setup, uart, ghosts

LEMMA BeginPrintingKeeps ==
    ASSUME KprintfInv, NEW printer \in Printers, NEW n \in 1 .. MAXTEXT, BeginPrinting(printer, n)
    PROVE  KprintfInv'
    BY DEF KprintfInv, OnTheWay, Wanted, BeginPrinting, Printers, uart

\* The balance of what is on the way to the driver and to a printer, and of
\* what is due to them, is kept at all times.
THEOREM KprintfInvariance == KprintfSpec => []KprintfInv
<1>1. KprintfInv /\ [KprintfNext]_kprintfVars => KprintfInv'
    <2> SUFFICES ASSUME KprintfInv, [KprintfNext]_kprintfVars PROVE KprintfInv'
        OBVIOUS
    <2>1. CASE UNCHANGED kprintfVars
        BY <2>1 DEF KprintfInv, OnTheWay, Wanted, kprintfVars
    <2>2. QED
        BY <2>1, CharacterSentKeeps, KeyKeeps, DriverSendsKeeps, serial_interruptKeeps,
           ToggleMaskKeeps, BeginPrintingKeeps, DelayKeeps, SetupKeeps, PutKeeps, AnsweredKeeps,
           EndKeeps DEF KprintfNext
<1>2. QED
    BY StartKprintf, <1>1, PTL DEF KprintfSpec

\* The kernel prints without harm at any moment, for texts of any length: the
\* driver is not left waiting, characters overlap only if the driver was
\* transmitting, and interrupts are masked meanwhile and then as before
\* (kprintf(), kprintf_internal() and panic() of microbian.c).
THEOREM PrintingDoesNoHarm == KprintfSpec => PrintingHarmless
<1>1. KprintfInv => DriverGoesOn /\ OverlapsOnlyDriver
    <2> SUFFICES ASSUME KprintfInv PROVE DriverGoesOn /\ OverlapsOnlyDriver
        OBVIOUS
    <2>1. DriverGoesOn
        BY Balance DEF DriverGoesOn
    <2>2. sending = 2 => who # "driver" /\ ~txidle
        BY Balance
    <2>3. OverlapsOnlyDriver
        BY <2>2 DEF KprintfInv, OverlapsOnlyDriver
    <2>4. QED
        BY <2>1, <2>3
<1>2. KprintfInv /\ [KprintfNext]_kprintfVars =>
          [/\ who # "driver" => primask /\ txidle' = txidle
           /\ who # "driver" /\ who' = "driver" => primask' = saved]_kprintfVars
    BY DEF KprintfInv, KprintfNext, CharacterSent, Key, DriverSends, serial_interrupt, ToggleMask,
           BeginPrinting, Delay, Setup, Put, Answered, End, Restored
<1>3. KprintfSpec => [](DriverGoesOn /\ OverlapsOnlyDriver) /\ MaskKept
    BY <1>1, <1>2, KprintfInvariance, PTL DEF KprintfSpec, MaskKept
<1>4. QED
    BY <1>3 DEF PrintingHarmless

-----------------------------------------------------------------------------
(***************************************************************************)
(* Theorem of Interrupts: each device that a driver uses has its interrupt *)
(* enabled, at the priority it asked for, and taken by its own handler, on *)
(* either board.                                                           *)
(*                                                                         *)
(* The inductive invariant says where the interrupt of a device can be     *)
(* while its driver is in each state, and that each byte of a priority     *)
(* register holds what was last asked for its interrupt.                   *)
(***************************************************************************)

\* Only two devices are used, and one of them is the UART.
InterruptTypes ==
    /\ board \in BoardNames /\ used \subseteq Devices(board)
    /\ \A d, e \in used : IRQ(board, d) = IRQ(board, e) => d = e
    /\ event \in [used -> BOOLEAN]
    /\ driver \in [used -> {"setup", "waiting", "told", "cleared", "ready"}]

\* Where the interrupt of a device can be while its driver is in each state.
Served(d) ==
    LET i == IRQ(board, d)
    IN /\ i \in enabled <=> driver[d] = "waiting"
       /\ i \in pending /\ driver[d] # "cleared" => event[d]
       /\ active = i => driver[d] = "waiting" /\ event[d]
       /\ driver[d] = "told" => event[d]

Running == active # -16 => \E d \in used : active = IRQ(board, d)

ServiceInv == InterruptTypes /\ Running /\ \A d \in used : Served(d)

\* The bytes hold the priorities that were set.
PriorityInv ==
    /\ IPR = [i \in 0 .. 63 |-> IPR[i]] /\ SHPR = [i \in -4 .. 11 |-> SHPR[i]]
    /\ sets = <<>> \/ (\E irq \in Int : sets = << <<irq, 64>> >>) \/ Len(sets) = 2
    /\ \A i \in 0 .. 63 : IPR[i] = LastSet(i)
    /\ board = "V1" => \A i \in {-5, -2, -1} : SHPR[i + 12] = LastSet(i)

InterruptsInv ==
    /\ ServiceInv /\ PriorityInv /\ OwnVector

\* LastSet(i) after the calls of s.
Latest(s, i) ==
    LET calls == {n \in DOMAIN s : s[n][1] = i}
    IN IF calls = {} THEN 0
       ELSE s[CHOOSE n \in calls : \A m \in calls : m <= n][2]

-----------------------------------------------------------------------------
(* The tables and the registers *)

\* Each device has a number of its own but for those that share one on V2;
\* the UART shares its with none.
LEMMA NumbersV1 ==
    \A d \in DOMAIN InterruptsV1 :
        InterruptsV1[d] \in 0 .. 31 /\ (InterruptsV1[d] = 2 <=> d = "UART")
    BY DEF InterruptsV1

LEMMA NumbersV2 ==
    \A d \in DOMAIN InterruptsV2 :
        InterruptsV2[d] \in 0 .. 63 /\ (InterruptsV2[d] = 2 <=> d = "UART")
    BY DEF InterruptsV2

LEMMA DeviceNumbers ==
    ASSUME board \in BoardNames
    PROVE  /\ \A d \in Devices(board) :
                 /\ IRQ(board, d) \in 0 .. 63 /\ (board = "V1" => IRQ(board, d) \in 0 .. 31)
                 /\ IRQ(board, d) = 2 <=> d = "UART"
           /\ "UART" \in Devices(board)
<1>1. "UART" \in DOMAIN InterruptsV1 /\ "UART" \in DOMAIN InterruptsV2
    BY DEF InterruptsV1, InterruptsV2
<1>2. QED
    BY <1>1, NumbersV1, NumbersV2 DEF BoardNames, Devices, IRQ

\* The vector of each device is a handler for it.
LEMMA VectorsOfV1 == \A d \in DOMAIN InterruptsV1 : d \in VectorsV1[InterruptsV1[d] + 1]
    BY DEF InterruptsV1, VectorsV1

LEMMA VectorsOfV2 == \A d \in DOMAIN InterruptsV2 : d \in VectorsV2[InterruptsV2[d] + 1]
<1>1. DOMAIN InterruptsV2 =
          {"RADIO", "UART", "I2C0", "SPI0", "I2C1", "SPI1",
           "GPIOTE", "ADC", "TIMER0", "TIMER1", "TIMER2", "RTC0",
           "TEMP", "RNG", "RTC1", "TIMER3", "TIMER4", "PWM0",
           "PWM1", "PWM2", "SPI2", "UART1", "PWM3", "SPI3"}
    BY DEF InterruptsV2
<1>2. /\ InterruptsV2["RADIO"] = 1 /\ InterruptsV2["UART"] = 2 /\ InterruptsV2["I2C0"] = 3
      /\ InterruptsV2["SPI0"] = 3 /\ InterruptsV2["I2C1"] = 4 /\ InterruptsV2["SPI1"] = 4
      /\ InterruptsV2["GPIOTE"] = 6 /\ InterruptsV2["ADC"] = 7 /\ InterruptsV2["TIMER0"] = 8
      /\ InterruptsV2["TIMER1"] = 9 /\ InterruptsV2["TIMER2"] = 10 /\ InterruptsV2["RTC0"] = 11
      /\ InterruptsV2["TEMP"] = 12 /\ InterruptsV2["RNG"] = 13 /\ InterruptsV2["RTC1"] = 17
      /\ InterruptsV2["TIMER3"] = 26 /\ InterruptsV2["TIMER4"] = 27 /\ InterruptsV2["PWM0"] = 28
      /\ InterruptsV2["PWM1"] = 33 /\ InterruptsV2["PWM2"] = 34 /\ InterruptsV2["SPI2"] = 35
      /\ InterruptsV2["UART1"] = 40 /\ InterruptsV2["PWM3"] = 45 /\ InterruptsV2["SPI3"] = 47
    BY DEF InterruptsV2
<1>3. /\ VectorsV2[2] = {"RADIO"} /\ VectorsV2[3] = {"UART"} /\ VectorsV2[4] = {"I2C0", "SPI0"}
      /\ VectorsV2[5] = {"I2C1", "SPI1"} /\ VectorsV2[7] = {"GPIOTE"} /\ VectorsV2[8] = {"ADC"}
    BY DEF VectorsV2
<1>4. /\ VectorsV2[9] = {"TIMER0"} /\ VectorsV2[10] = {"TIMER1"} /\ VectorsV2[11] = {"TIMER2"}
      /\ VectorsV2[12] = {"RTC0"} /\ VectorsV2[13] = {"TEMP"} /\ VectorsV2[14] = {"RNG"}
    BY DEF VectorsV2
<1>5. /\ VectorsV2[18] = {"RTC1"} /\ VectorsV2[27] = {"TIMER3"} /\ VectorsV2[28] = {"TIMER4"}
      /\ VectorsV2[29] = {"PWM0"} /\ VectorsV2[34] = {"PWM1"} /\ VectorsV2[35] = {"PWM2"}
    BY DEF VectorsV2
<1>6. /\ VectorsV2[36] = {"SPI2"} /\ VectorsV2[41] = {"UART1"} /\ VectorsV2[46] = {"PWM3"}
      /\ VectorsV2[48] = {"SPI3"}
    BY DEF VectorsV2
<1>7. ASSUME NEW d \in DOMAIN InterruptsV2 PROVE d \in VectorsV2[InterruptsV2[d] + 1]
    BY <1>1, <1>2, <1>3, <1>4, <1>5, <1>6
<1>8. QED
    BY <1>7

LEMMA DeviceVectors ==
    ASSUME board \in BoardNames, NEW d \in Devices(board)
    PROVE  d \in Vector(board, IRQ(board, d))
    BY VectorsOfV1, VectorsOfV2 DEF BoardNames, Devices, IRQ, Vector

\* A write to a register of the NVIC concerns one interrupt, ...
LEMMA BitFacts ==
    ASSUME board \in BoardNames, NEW i \in 0 .. 63, board = "V1" => i \in 0 .. 31
    PROVE  Bit(i) = {i}
<1>1. CASE board = "V1"
    <2>1. i < 32 /\ 32 * 0 + i = i
        BY <1>1
    <2>2. QED
        BY <1>1, <2>1 DEF Bit, BIT
<1>2. CASE board # "V1"
    <2>1. 32 * (i \div 32) + (i % 32) = i /\ i % 32 < 32
        OBVIOUS
    <2>2. QED
        BY <1>2, <2>1 DEF Bit, BIT
<1>3. QED
    BY <1>1, <1>2

\* ... and one to a priority register one byte.
LEMMA ByteFacts ==
    /\ \A i \in 0 .. 63 : 4 * (i \div 4) + (i % 4) = i
    /\ \A i \in {-5, -2, -1} : 4 * ((i + 12) \div 4) + (i % 4) = i + 12
<1>1. \A i \in 0 .. 63 : 4 * (i \div 4) + (i % 4) = i
    OBVIOUS
<1>2. \A i \in {-5, -2, -1} : 4 * ((i + 12) \div 4) + (i % 4) = i + 12
    OBVIOUS
<1>3. QED
    BY <1>1, <1>2

\* The latest call counts.
LEMMA LatestFacts ==
    ASSUME NEW s, NEW i
    PROVE  /\ s = <<>> => Latest(s, i) = 0
           /\ \A j, p : s = << <<j, p>> >> => Latest(s, i) = IF i = j THEN p ELSE 0
           /\ \A j, p, k, q : s = << <<j, p>>, <<k, q>> >> =>
                 Latest(s, i) = IF i = k THEN q ELSE IF i = j THEN p ELSE 0
<1>1. ASSUME s = <<>> PROVE Latest(s, i) = 0
    BY <1>1 DEF Latest
<1>2. ASSUME NEW j, NEW p, s = << <<j, p>> >>
      PROVE  Latest(s, i) = IF i = j THEN p ELSE 0
    <2>1. DOMAIN s = {1} /\ s[1][1] = j /\ s[1][2] = p
        BY <1>2
    <2>2. CASE i = j
        <3>1. {n \in DOMAIN s : s[n][1] = i} = {1}
            BY <2>1, <2>2
        <3>2. (CHOOSE n \in {1} : \A m \in {1} : m <= n) = 1
            OBVIOUS
        <3>3. QED
            BY <2>1, <2>2, <3>1, <3>2 DEF Latest
    <2>3. CASE i # j
        <3>1. {n \in DOMAIN s : s[n][1] = i} = {}
            BY <2>1, <2>3
        <3>2. QED
            BY <2>3, <3>1 DEF Latest
    <2>4. QED
        BY <2>2, <2>3
<1>3. ASSUME NEW j, NEW p, NEW k, NEW q, s = << <<j, p>>, <<k, q>> >>
      PROVE  Latest(s, i) = IF i = k THEN q ELSE IF i = j THEN p ELSE 0
    <2>1. /\ DOMAIN s = {1, 2} /\ s[1][1] = j /\ s[1][2] = p
          /\ s[2][1] = k /\ s[2][2] = q
        BY <1>3
    <2>2. CASE i = k
        <3>1. PICK S : S = {n \in DOMAIN s : s[n][1] = i}
            OBVIOUS
        <3>2. 2 \in S /\ S \subseteq {1, 2}
            BY <2>1, <2>2, <3>1
        <3>3. PICK c : c = CHOOSE n \in S : \A m \in S : m <= n
            OBVIOUS
        <3>4. c \in S /\ 2 <= c
            <4>1. 2 \in S /\ \A m \in S : m <= 2
                BY <3>2
            <4>2. QED
                BY <3>3, <4>1
        <3>5. c = 2 /\ S # {}
            BY <3>2, <3>4
        <3>6. Latest(s, i) = IF S = {} THEN 0 ELSE s[c][2]
            BY <3>1, <3>3 DEF Latest
        <3>7. QED
            BY <2>1, <2>2, <3>5, <3>6
    <2>3. CASE i # k /\ i = j
        <3>1. {n \in DOMAIN s : s[n][1] = i} = {1}
            BY <2>1, <2>3
        <3>2. (CHOOSE n \in {1} : \A m \in {1} : m <= n) = 1
            OBVIOUS
        <3>3. QED
            BY <2>1, <2>3, <3>1, <3>2 DEF Latest
    <2>4. CASE i # k /\ i # j
        <3>1. {n \in DOMAIN s : s[n][1] = i} = {}
            BY <2>1, <2>4
        <3>2. QED
            BY <2>4, <3>1 DEF Latest
    <2>5. QED
        BY <2>2, <2>3, <2>4
<1>4. QED
    BY <1>1, <1>2, <1>3

LEMMA LastSetFacts == \A i : LastSet(i) = Latest(sets, i) /\ LastSet(i)' = Latest(sets', i)
    BY DEF LastSet, Latest

\* Another call changes what it is for and nothing else.
LEMMA CallFacts ==
    ASSUME PriorityInv, Len(sets) < 2, NEW k \in Int, NEW prio,
           prio = IF sets = <<>> THEN 64 ELSE 192, sets' = Append(sets, <<k, prio>>), NEW i
    PROVE  /\ LastSet(i)' = IF i = k THEN prio ELSE LastSet(i)
           /\ sets' = << <<k, 64>> >> \/ Len(sets') = 2
<1>1. CASE sets = <<>>
    <2>1. sets' = << <<k, prio>> >> /\ prio = 64
        BY <1>1
    <2>2. Latest(sets', i) = IF i = k THEN prio ELSE 0
        BY <2>1, LatestFacts
    <2>3. Latest(sets, i) = 0
        BY <1>1, LatestFacts
    <2>4. QED
        BY <2>1, <2>2, <2>3, LastSetFacts
<1>2. ASSUME NEW j \in Int, sets = << <<j, 64>> >>
      PROVE  /\ LastSet(i)' = IF i = k THEN prio ELSE LastSet(i)
             /\ sets' = << <<k, 64>> >> \/ Len(sets') = 2
    <2>1. sets' = << <<j, 64>>, <<k, prio>> >>
        <3>1. PICK x, y : x = <<j, 64>> /\ y = <<k, prio>>
            OBVIOUS
        <3>2. <<x>> \in Seq({x, y}) /\ y \in {x, y} /\ <<x, y>> \in Seq({x, y})
            OBVIOUS
        <3>3. Append(<<x>>, y) = <<x, y>>
            <4>1. Len(<<x>>) = 1 /\ <<x>>[1] = x
                OBVIOUS
            <4>2. Len(<<x, y>>) = 2 /\ <<x, y>>[1] = x /\ <<x, y>>[2] = y
                OBVIOUS
            <4>3. PICK z : z = Append(<<x>>, y)
                OBVIOUS
            <4>4. z \in Seq({x, y}) /\ Len(z) = 2 /\ z[1] = x /\ z[2] = y
                BY <3>2, <4>1, <4>3, AppendProperties
            <4>5. z = <<x, y>>
                BY <3>2, <4>2, <4>4, SeqEqual
            <4>6. QED
                BY <4>3, <4>5
        <3>4. QED
            BY <1>2, <3>1, <3>3, Zenon
    <2>2. Latest(sets', i) = IF i = k THEN prio ELSE IF i = j THEN 64 ELSE 0
        <3>1. \A s : s = << <<j, 64>>, <<k, prio>> >> =>
                  Latest(s, i) = IF i = k THEN prio ELSE IF i = j THEN 64 ELSE 0
            BY LatestFacts
        <3>2. QED
            BY <2>1, <3>1
    <2>3. Latest(sets, i) = IF i = j THEN 64 ELSE 0
        BY <1>2, LatestFacts
    <2>4. Len(sets') = 2
        <3>1. \A x, y : Len(<<x, y>>) = 2
            OBVIOUS
        <3>2. QED
            BY <2>1, <3>1
    <2>5. QED
        BY <2>2, <2>3, <2>4, LastSetFacts
<1>3. sets = <<>> \/ \E j \in Int : sets = << <<j, 64>> >>
    <2>1. Len(sets) # 2
        OBVIOUS
    <2>2. QED
        BY <2>1, Zenon DEF PriorityInv
<1>4. QED
    BY <1>1, <1>2, <1>3

-----------------------------------------------------------------------------
(* Steps *)

LEMMA StartInterrupts == InterruptsInit => InterruptsInv
<1> SUFFICES ASSUME InterruptsInit PROVE InterruptsInv
    OBVIOUS
<1>1. PICK d \in Devices(board) : used = {d, "UART"}
    BY DEF InterruptsInit
<1>2. board \in BoardNames
    BY DEF InterruptsInit
<1>3. InterruptTypes
    <2>1. used \subseteq Devices(board)
        BY <1>1, <1>2, DeviceNumbers
    <2>2. \A e \in used : IRQ(board, e) = 2 <=> e = "UART"
        BY <1>2, <2>1, DeviceNumbers
    <2>3. \A e, f \in used : IRQ(board, e) = IRQ(board, f) => e = f
        BY <1>1, <2>2
    <2>4. event \in [used -> BOOLEAN] /\ driver \in [used -> {"setup"}]
        BY DEF InterruptsInit
    <2>5. QED
        BY <1>2, <2>1, <2>3, <2>4 DEF InterruptTypes
<1>4. ASSUME NEW e \in used PROVE Served(e)
    <2>1. IRQ(board, e) \in 0 .. 63
        BY <1>2, <1>3, DeviceNumbers DEF InterruptTypes
    <2>2. IRQ(board, e) # -16
        BY <2>1
    <2>3. driver[e] = "setup" /\ enabled = {} /\ pending = {} /\ active = -16
        BY DEF InterruptsInit
    <2>4. QED
        BY <2>2, <2>3, Zenon DEF Served
<1>5. PriorityInv
    <2>1. \A i : LastSet(i) = 0
        BY LatestFacts, LastSetFacts DEF InterruptsInit
    <2>2. /\ IPR = [i \in 0 .. 63 |-> IPR[i]] /\ SHPR = [i \in -4 .. 11 |-> SHPR[i]]
          /\ sets = <<>>
        BY DEF InterruptsInit
    <2>3. /\ \A i \in 0 .. 63 : IPR[i] = 0
          /\ \A i \in {-5, -2, -1} : SHPR[i + 12] = 0
        BY DEF InterruptsInit
    <2>4. QED
        BY <2>1, <2>2, <2>3, Zenon DEF PriorityInv
<1>6. OwnVector
    BY DEF InterruptsInit, OwnVector
<1>7. QED
    BY <1>3, <1>4, <1>5, <1>6 DEF InterruptsInv, ServiceInv, Running, InterruptsInit

\* Priorities that nobody sets stay as they were.
LEMMA SamePriorities ==
    ASSUME PriorityInv, UNCHANGED <<board, SHPR, IPR, sets>>
    PROVE  PriorityInv'
<1>1. \A i : LastSet(i)' = LastSet(i)
    BY DEF LastSet
<1>2. QED
    BY <1>1 DEF PriorityInv

\* The service does not depend on priorities.
LEMMA SameService ==
    ASSUME ServiceInv, UNCHANGED <<board, enabled, pending, active, used, event, driver>>
    PROVE  ServiceInv'
    BY DEF ServiceInv, InterruptTypes, Running, Served

LEMMA SetPriorityKeeps == ASSUME InterruptsInv, SetPriority PROVE InterruptsInv'
<1>1. /\ board \in BoardNames /\ board' = board /\ PriorityInv
      /\ \A d \in used : IRQ(board, d) \in 0 .. 63
    BY DeviceNumbers DEF SetPriority, InterruptsInv, ServiceInv, InterruptTypes
<1>2. PICK k \in Exceptions(board) \cup {IRQ(board, d) : d \in used}, prio \in {64, 192} :
          /\ prio = IF sets = <<>> THEN 64 ELSE 192
          /\ irq_priority(k, prio) /\ sets' = Append(sets, <<k, prio>>)
    BY DEF SetPriority
<1>3. /\ k \in Int /\ (k >= 0 => k \in 0 .. 63) /\ prio % 256 = prio
      /\ board = "V1" /\ k < 0 => k \in {-5, -2, -1}
    <2>1. prio \in {64, 192}
        BY <1>2
    <2>2. prio % 256 = prio
        BY <2>1
    <2>3. k \in {-12, -11, -10, -5, -4, -2, -1} \/ k \in 0 .. 63
        BY <1>1, <1>2 DEF Exceptions
    <2>4. board = "V1" => k \in {-5, -2, -1} \/ k \in 0 .. 63
        BY <1>1, <1>2 DEF Exceptions
    <2>5. QED
        BY <2>2, <2>3, <2>4
<1>4. Len(sets) < 2
    BY DEF SetPriority, MAXSET
<1>5. /\ \A i : LastSet(i)' = IF i = k THEN prio ELSE LastSet(i)
      /\ sets' = << <<k, 64>> >> \/ Len(sets') = 2
    BY <1>1, <1>2, <1>3, <1>4, CallFacts
<1>6. /\ IPR' = [i \in 0 .. 63 |-> IPR'[i]] /\ SHPR' = [i \in -4 .. 11 |-> SHPR'[i]]
      /\ \A i \in 0 .. 63 : IPR'[i] = IF i = k THEN prio ELSE IPR[i]
      /\ board = "V1" => \A i \in {-5, -2, -1} : SHPR'[i + 12] = IF i = k THEN prio ELSE SHPR[i + 12]
    <2>1. IPR = [i \in 0 .. 63 |-> IPR[i]] /\ SHPR = [i \in -4 .. 11 |-> SHPR[i]]
        BY <1>1 DEF PriorityInv
    <2>2. CASE k >= 0
        <3>1. IPR' = [IPR EXCEPT ![k] = prio] /\ SHPR' = SHPR /\ k \in 0 .. 63
            <4>1. 4 * (k \div 4) + (k % 4) = k
                BY <1>3, <2>2, ByteFacts
            <4>2. QED
                BY <1>2, <1>3, <2>2, <4>1 DEF irq_priority, SET_BYTE, Byte
        <3>2. IPR' = [i \in 0 .. 63 |-> IPR'[i]] /\ \A i \in 0 .. 63 : IPR'[i] = IF i = k THEN prio ELSE IPR[i]
            BY <2>1, <3>1
        <3>3. \A i \in {-5, -2, -1} : i # k
            BY <2>2
        <3>4. QED
            BY <2>1, <3>1, <3>2, <3>3
    <2>3. CASE k < 0
        <3>1. PICK a : a = 4 * SystemWord(k) + Byte(k)
            OBVIOUS
        <3>2. SHPR' = [SHPR EXCEPT ![a] = prio] /\ IPR' = IPR
            BY <1>2, <1>3, <2>3, <3>1 DEF irq_priority, SET_BYTE
        <3>3. SHPR' = [i \in -4 .. 11 |-> SHPR'[i]]
            BY <2>1, <3>2
        <3>4. \A i \in 0 .. 63 : i # k
            BY <2>3
        <3>5. ASSUME board = "V1", NEW i \in {-5, -2, -1}
              PROVE  SHPR'[i + 12] = IF i = k THEN prio ELSE SHPR[i + 12]
            <4>1. a = k + 12
                BY <1>3, <2>3, <3>1, <3>5, ByteFacts DEF SystemWord, Byte
            <4>2. i + 12 \in -4 .. 11 /\ (i + 12 = a <=> i = k)
                BY <1>3, <2>3, <4>1
            <4>3. QED
                BY <2>1, <3>2, <4>2
        <3>6. QED
            BY <2>1, <3>2, <3>3, <3>4, <3>5
    <2>4. QED
        BY <1>3, <2>2, <2>3
<1>7. PriorityInv'
    BY <1>1, <1>3, <1>5, <1>6 DEF PriorityInv
<1>8. ServiceInv' /\ OwnVector'
    BY SameService DEF InterruptsInv, SetPriority, OwnVector
<1>9. QED
    BY <1>7, <1>8 DEF InterruptsInv

\* A step of the service, of the NVIC or of a device.
LEMMA ServiceKeeps ==
    ASSUME InterruptsInv, UNCHANGED <<board, SHPR, IPR, used, sets, taken>>,
           event' \in [used -> BOOLEAN],
           driver' \in [used -> {"setup", "waiting", "told", "cleared", "ready"}],
           active' \in {active, -16}, \A e \in used : Served(e)'
    PROVE  InterruptsInv'
<1>1. PriorityInv'
    BY SamePriorities DEF InterruptsInv
<1>2. OwnVector'
    BY DEF InterruptsInv, OwnVector
<1>3. ServiceInv'
    BY DEF InterruptsInv, ServiceInv, InterruptTypes, Running
<1>4. QED
    BY <1>1, <1>2, <1>3 DEF InterruptsInv

\* What every device can rely on.
LEMMA ServiceFacts ==
    ASSUME InterruptsInv, NEW d \in used
    PROVE  /\ Bit(IRQ(board, d)) = {IRQ(board, d)} /\ IRQ(board, d) # -16
           /\ \A e \in used : IRQ(board, e) = IRQ(board, d) => e = d
           /\ Served(d) /\ d \in Devices(board) /\ board \in BoardNames
           /\ event \in [used -> BOOLEAN]
           /\ driver \in [used -> {"setup", "waiting", "told", "cleared", "ready"}]
<1>1. /\ board \in BoardNames /\ d \in Devices(board)
      /\ \A e \in used : IRQ(board, e) = IRQ(board, d) => e = d
      /\ Served(d) /\ event \in [used -> BOOLEAN]
      /\ driver \in [used -> {"setup", "waiting", "told", "cleared", "ready"}]
    BY DEF InterruptsInv, ServiceInv, InterruptTypes
<1>2. IRQ(board, d) \in 0 .. 63 /\ (board = "V1" => IRQ(board, d) \in 0 .. 31)
    BY <1>1, DeviceNumbers
<1>3. Bit(IRQ(board, d)) = {IRQ(board, d)}
    BY <1>1, <1>2, BitFacts
<1>4. IRQ(board, d) # -16
    BY <1>2
<1>5. QED
    BY <1>1, <1>3, <1>4

LEMMA RaiseKeeps == ASSUME InterruptsInv, NEW d \in used, Raise(d) PROVE InterruptsInv'
<1>1. PICK i : i = IRQ(board, d)
    OBVIOUS
<1>2. /\ Bit(i) = {i} /\ i # -16 /\ Served(d)
      /\ \A e \in used : IRQ(board, e) = i => e = d
      /\ event \in [used -> BOOLEAN]
      /\ driver \in [used -> {"setup", "waiting", "told", "cleared", "ready"}]
    BY <1>1, ServiceFacts
<1>3. /\ driver[d] # "setup"
      /\ event' = [event EXCEPT ![d] = TRUE]
      /\ UNCHANGED <<board, used, driver, enabled, pending, active>>
    BY <1>1, <1>2 DEF Raise, enable_irq, clear_pending
<1>4. event' \in [used -> BOOLEAN]
    BY <1>2, <1>3
<1>5. driver' \in [used -> {"setup", "waiting", "told", "cleared", "ready"}]
    BY <1>2, <1>3
<1>6. Served(d)'
    <2>1. event'[d] = TRUE
        BY <1>2, <1>3
    <2>2. driver'[d] = driver[d]
        BY <1>2, <1>3
    <2>3. QED
        BY <1>1, <1>2, <1>3, <2>1, <2>2 DEF Served
<1>7. ASSUME NEW e \in used \ {d} PROVE Served(e)'
    <2>1. Served(e) /\ IRQ(board, e) # i
        BY <1>2, ServiceFacts
    <2>2. event'[e] = event[e] /\ driver'[e] = driver[e]
        BY <1>2, <1>3
    <2>3. QED
        BY <1>3, <2>1, <2>2 DEF Served
<1>8. QED
    BY <1>4, <1>5, <1>6, <1>7, ServiceKeeps DEF Raise

LEMMA PendKeeps == ASSUME InterruptsInv, NEW d \in used, Pend(d) PROVE InterruptsInv'
<1>1. PICK i : i = IRQ(board, d)
    OBVIOUS
<1>2. /\ Bit(i) = {i} /\ i # -16 /\ Served(d)
      /\ \A e \in used : IRQ(board, e) = i => e = d
      /\ event \in [used -> BOOLEAN]
      /\ driver \in [used -> {"setup", "waiting", "told", "cleared", "ready"}]
    BY <1>1, ServiceFacts
<1>3. /\ event[d] /\ active # i
      /\ pending' = pending \cup {i}
      /\ UNCHANGED <<board, used, event, driver, enabled, active>>
    BY <1>1, <1>2 DEF Pend, enable_irq, clear_pending
<1>4. event' \in [used -> BOOLEAN]
    BY <1>2, <1>3
<1>5. driver' \in [used -> {"setup", "waiting", "told", "cleared", "ready"}]
    BY <1>2, <1>3
<1>6. Served(d)'
    <2>1. event'[d] = event[d]
        BY <1>2, <1>3
    <2>2. driver'[d] = driver[d]
        BY <1>2, <1>3
    <2>3. QED
        BY <1>1, <1>2, <1>3, <2>1, <2>2 DEF Served
<1>7. ASSUME NEW e \in used \ {d} PROVE Served(e)'
    <2>1. Served(e) /\ IRQ(board, e) # i
        BY <1>2, ServiceFacts
    <2>2. event'[e] = event[e] /\ driver'[e] = driver[e]
        BY <1>2, <1>3
    <2>3. QED
        BY <1>3, <2>1, <2>2 DEF Served
<1>8. QED
    BY <1>4, <1>5, <1>6, <1>7, ServiceKeeps DEF Pend

LEMMA StartDriverKeeps == ASSUME InterruptsInv, NEW d \in used, StartDriver(d) PROVE InterruptsInv'
<1>1. PICK i : i = IRQ(board, d)
    OBVIOUS
<1>2. /\ Bit(i) = {i} /\ i # -16 /\ Served(d)
      /\ \A e \in used : IRQ(board, e) = i => e = d
      /\ event \in [used -> BOOLEAN]
      /\ driver \in [used -> {"setup", "waiting", "told", "cleared", "ready"}]
    BY <1>1, ServiceFacts
<1>3. /\ active = -16 /\ driver[d] = "setup"
      /\ enabled' = enabled \cup {i} /\ driver' = [driver EXCEPT ![d] = "waiting"]
      /\ UNCHANGED <<board, used, event, pending, active>>
    BY <1>1, <1>2 DEF StartDriver, enable_irq, clear_pending
<1>4. event' \in [used -> BOOLEAN]
    BY <1>2, <1>3
<1>5. driver' \in [used -> {"setup", "waiting", "told", "cleared", "ready"}]
    BY <1>2, <1>3
<1>6. Served(d)'
    <2>1. event'[d] = event[d]
        BY <1>2, <1>3
    <2>2. driver'[d] = "waiting"
        BY <1>2, <1>3
    <2>3. QED
        BY <1>1, <1>2, <1>3, <2>1, <2>2 DEF Served
<1>7. ASSUME NEW e \in used \ {d} PROVE Served(e)'
    <2>1. Served(e) /\ IRQ(board, e) # i
        BY <1>2, ServiceFacts
    <2>2. event'[e] = event[e] /\ driver'[e] = driver[e]
        BY <1>2, <1>3
    <2>3. QED
        BY <1>3, <2>1, <2>2 DEF Served
<1>8. QED
    BY <1>4, <1>5, <1>6, <1>7, ServiceKeeps DEF StartDriver

LEMMA ClearEventKeeps == ASSUME InterruptsInv, NEW d \in used, ClearEvent(d) PROVE InterruptsInv'
<1>1. PICK i : i = IRQ(board, d)
    OBVIOUS
<1>2. /\ Bit(i) = {i} /\ i # -16 /\ Served(d)
      /\ \A e \in used : IRQ(board, e) = i => e = d
      /\ event \in [used -> BOOLEAN]
      /\ driver \in [used -> {"setup", "waiting", "told", "cleared", "ready"}]
    BY <1>1, ServiceFacts
<1>3. /\ active = -16 /\ driver[d] = "told"
      /\ event' = [event EXCEPT ![d] = FALSE] /\ driver' = [driver EXCEPT ![d] = "cleared"]
      /\ UNCHANGED <<board, used, enabled, pending, active>>
    BY <1>1, <1>2 DEF ClearEvent, enable_irq, clear_pending
<1>4. event' \in [used -> BOOLEAN]
    BY <1>2, <1>3
<1>5. driver' \in [used -> {"setup", "waiting", "told", "cleared", "ready"}]
    BY <1>2, <1>3
<1>6. Served(d)'
    <2>1. event'[d] = FALSE
        BY <1>2, <1>3
    <2>2. driver'[d] = "cleared"
        BY <1>2, <1>3
    <2>3. QED
        BY <1>1, <1>2, <1>3, <2>1, <2>2 DEF Served
<1>7. ASSUME NEW e \in used \ {d} PROVE Served(e)'
    <2>1. Served(e) /\ IRQ(board, e) # i
        BY <1>2, ServiceFacts
    <2>2. event'[e] = event[e] /\ driver'[e] = driver[e]
        BY <1>2, <1>3
    <2>3. QED
        BY <1>3, <2>1, <2>2 DEF Served
<1>8. QED
    BY <1>4, <1>5, <1>6, <1>7, ServiceKeeps DEF ClearEvent

LEMMA ClearPendingKeeps == ASSUME InterruptsInv, NEW d \in used, ClearPending(d) PROVE InterruptsInv'
<1>1. PICK i : i = IRQ(board, d)
    OBVIOUS
<1>2. /\ Bit(i) = {i} /\ i # -16 /\ Served(d)
      /\ \A e \in used : IRQ(board, e) = i => e = d
      /\ event \in [used -> BOOLEAN]
      /\ driver \in [used -> {"setup", "waiting", "told", "cleared", "ready"}]
    BY <1>1, ServiceFacts
<1>3. /\ active = -16 /\ driver[d] = "cleared"
      /\ pending' = pending \ {i} /\ driver' = [driver EXCEPT ![d] = "ready"]
      /\ UNCHANGED <<board, used, event, enabled, active>>
    BY <1>1, <1>2 DEF ClearPending, enable_irq, clear_pending
<1>4. event' \in [used -> BOOLEAN]
    BY <1>2, <1>3
<1>5. driver' \in [used -> {"setup", "waiting", "told", "cleared", "ready"}]
    BY <1>2, <1>3
<1>6. Served(d)'
    <2>1. event'[d] = event[d]
        BY <1>2, <1>3
    <2>2. driver'[d] = "ready"
        BY <1>2, <1>3
    <2>3. QED
        BY <1>1, <1>2, <1>3, <2>1, <2>2 DEF Served
<1>7. ASSUME NEW e \in used \ {d} PROVE Served(e)'
    <2>1. Served(e) /\ IRQ(board, e) # i
        BY <1>2, ServiceFacts
    <2>2. event'[e] = event[e] /\ driver'[e] = driver[e]
        BY <1>2, <1>3
    <2>3. QED
        BY <1>3, <2>1, <2>2 DEF Served
<1>8. QED
    BY <1>4, <1>5, <1>6, <1>7, ServiceKeeps DEF ClearPending

LEMMA EnableAgainKeeps == ASSUME InterruptsInv, NEW d \in used, EnableAgain(d) PROVE InterruptsInv'
<1>1. PICK i : i = IRQ(board, d)
    OBVIOUS
<1>2. /\ Bit(i) = {i} /\ i # -16 /\ Served(d)
      /\ \A e \in used : IRQ(board, e) = i => e = d
      /\ event \in [used -> BOOLEAN]
      /\ driver \in [used -> {"setup", "waiting", "told", "cleared", "ready"}]
    BY <1>1, ServiceFacts
<1>3. /\ active = -16 /\ driver[d] = "ready"
      /\ enabled' = enabled \cup {i} /\ driver' = [driver EXCEPT ![d] = "waiting"]
      /\ UNCHANGED <<board, used, event, pending, active>>
    BY <1>1, <1>2 DEF EnableAgain, enable_irq, clear_pending
<1>4. event' \in [used -> BOOLEAN]
    BY <1>2, <1>3
<1>5. driver' \in [used -> {"setup", "waiting", "told", "cleared", "ready"}]
    BY <1>2, <1>3
<1>6. Served(d)'
    <2>1. event'[d] = event[d]
        BY <1>2, <1>3
    <2>2. driver'[d] = "waiting"
        BY <1>2, <1>3
    <2>3. QED
        BY <1>1, <1>2, <1>3, <2>1, <2>2 DEF Served
<1>7. ASSUME NEW e \in used \ {d} PROVE Served(e)'
    <2>1. Served(e) /\ IRQ(board, e) # i
        BY <1>2, ServiceFacts
    <2>2. event'[e] = event[e] /\ driver'[e] = driver[e]
        BY <1>2, <1>3
    <2>3. QED
        BY <1>3, <2>1, <2>2 DEF Served
<1>8. QED
    BY <1>4, <1>5, <1>6, <1>7, ServiceKeeps DEF EnableAgain

LEMMA TakeKeeps == ASSUME InterruptsInv, NEW d \in used, Take(d) PROVE InterruptsInv'
<1>1. PICK i : i = IRQ(board, d)
    OBVIOUS
<1>2. /\ i # -16 /\ Served(d) /\ d \in Devices(board) /\ board \in BoardNames
      /\ \A e \in used : IRQ(board, e) = i => e = d
    BY <1>1, ServiceFacts
<1>3. /\ active = -16 /\ i \in pending /\ i \in enabled
      /\ active' = i /\ pending' = pending \ {i} /\ taken' = <<d, Vector(board, i)>>
      /\ UNCHANGED <<board, SHPR, IPR, enabled, used, event, driver, sets>>
    BY <1>1 DEF Take
<1>4. Served(d)'
    BY <1>1, <1>2, <1>3 DEF Served
<1>5. ASSUME NEW e \in used \ {d} PROVE Served(e)'
    <2>1. Served(e) /\ IRQ(board, e) # i
        BY <1>2, ServiceFacts
    <2>2. QED
        BY <1>3, <2>1 DEF Served
<1>6. ServiceInv'
    BY <1>1, <1>3, <1>4, <1>5 DEF InterruptsInv, ServiceInv, InterruptTypes, Running
<1>7. PriorityInv'
    BY <1>3, SamePriorities DEF InterruptsInv
<1>8. OwnVector'
    <2>1. d \in Vector(board, i)
        BY <1>1, <1>2, DeviceVectors
    <2>2. taken'[1] = d /\ taken'[2] = Vector(board, i)
        BY <1>3
    <2>3. QED
        BY <2>1, <2>2 DEF OwnVector
<1>9. QED
    BY <1>6, <1>7, <1>8 DEF InterruptsInv

LEMMA DefaultHandlerKeeps == ASSUME InterruptsInv, DefaultHandler PROVE InterruptsInv'
<1>1. /\ active # -16 /\ active' = -16 /\ enabled' = enabled \ Bit(active)
      /\ driver' = [d \in used |-> IF IRQ(board, d) = active THEN "told" ELSE driver[d]]
      /\ UNCHANGED <<board, SHPR, IPR, pending, used, event, sets, taken>>
    BY DEF DefaultHandler, disable_irq
<1>2. PICK d \in used : IRQ(board, d) = active
    BY <1>1 DEF InterruptsInv, ServiceInv, Running
<1>3. enabled' = enabled \ {active}
    BY <1>1, <1>2, ServiceFacts
<1>4. event \in [used -> BOOLEAN]
    BY <1>2, ServiceFacts
<1>5. driver' \in [used -> {"setup", "waiting", "told", "cleared", "ready"}]
    BY <1>1 DEF InterruptsInv, ServiceInv, InterruptTypes
<1>6. ASSUME NEW e \in used PROVE Served(e)'
    <2>1. Served(e) /\ IRQ(board, e) # -16
        BY ServiceFacts
    <2>2. driver'[e] = IF IRQ(board, e) = active THEN "told" ELSE driver[e]
        BY <1>1
    <2>3. CASE IRQ(board, e) = active
        BY <1>1, <1>3, <2>1, <2>2, <2>3 DEF Served
    <2>4. CASE IRQ(board, e) # active
        BY <1>1, <1>3, <2>1, <2>2, <2>4 DEF Served
    <2>5. QED
        BY <2>3, <2>4
<1>7. QED
    BY <1>1, <1>4, <1>5, <1>6, ServiceKeeps

-----------------------------------------------------------------------------
(* The theorems *)

\* At every stage of its service an interrupt is pending, enabled and active
\* only as its driver's state says, and the bytes hold the priorities set.
THEOREM InterruptsInvariance == InterruptsSpec => []InterruptsInv
<1>1. InterruptsInv /\ [InterruptsNext]_interruptVars => InterruptsInv'
    <2> SUFFICES ASSUME InterruptsInv, [InterruptsNext]_interruptVars PROVE InterruptsInv'
        OBVIOUS
    <2>1. CASE UNCHANGED interruptVars
        <3>1. UNCHANGED <<board, SHPR, IPR, enabled, pending, active, used, event, driver,
                          sets, taken>>
            BY <2>1 DEF interruptVars
        <3>2. QED
            BY <3>1, SamePriorities, SameService DEF InterruptsInv, OwnVector
    <2>2. CASE \E d \in used :
                  \/ Raise(d) \/ Pend(d) \/ Take(d)
                  \/ StartDriver(d) \/ ClearEvent(d) \/ ClearPending(d) \/ EnableAgain(d)
        BY <2>2, RaiseKeeps, PendKeeps, TakeKeeps, StartDriverKeeps, ClearEventKeeps,
           ClearPendingKeeps, EnableAgainKeeps
    <2>3. QED
        BY <2>1, <2>2, SetPriorityKeeps, DefaultHandlerKeeps DEF InterruptsNext
<1>2. QED
    BY StartInterrupts, <1>1, PTL DEF InterruptsSpec

\* An interrupt is never taken to an empty vector or to that of another
\* device, a driver is never told of an event that was served before, and one
\* that waits can always be reached: for every device of either board, in any
\* order of events and steps (enable_irq, disable_irq, clear_pending,
\* irq_priority, __vectors, default_handler).
THEOREM EveryInterruptIsServed == InterruptsSpec => []InterruptsReachDrivers
<1>1. InterruptsInv => DevicePrioritySet
    <2> SUFFICES ASSUME InterruptsInv PROVE DevicePrioritySet
        OBVIOUS
    <2>1. PriorityInv
        BY DEF InterruptsInv
    <2>2. \A i \in DOMAIN IPR : IPR[i] = LastSet(i)
        BY <2>1 DEF PriorityInv
    <2>3. ASSUME board = "V1" PROVE PrioritySet
        <3>1. ASSUME NEW d \in used PROVE PriorityOf(IRQ(board, d)) = LastSet(IRQ(board, d))
            <4>1. PICK i : i = IRQ(board, d)
                OBVIOUS
            <4>2. i \in 0 .. 63
                BY <4>1, ServiceFacts, DeviceNumbers
            <4>3. IPR[i] = LastSet(i)
                BY <2>1, <4>2 DEF PriorityInv
            <4>4. PriorityOf(i) = IPR[i]
                BY <4>2 DEF PriorityOf
            <4>5. QED
                BY <4>1, <4>3, <4>4
        <3>2. ASSUME NEW i \in {-5, -2, -1} PROVE PriorityOf(i) = LastSet(i)
            <4>1. SHPR[i + 12] = LastSet(i)
                BY <2>1, <2>3 DEF PriorityInv
            <4>2. i < 0
                OBVIOUS
            <4>3. QED
                BY <4>1, <4>2 DEF PriorityOf
        <3>3. Exceptions(board) = {-5, -2, -1}
            BY <2>3 DEF Exceptions
        <3>4. QED
            BY <3>1, <3>2, <3>3 DEF PrioritySet
    <2>4. QED
        BY <2>2, <2>3 DEF DevicePrioritySet
<1>2. InterruptsInv => OwnVector /\ NoStaleInterrupt /\ EnabledWhileWaiting
    BY DEF InterruptsInv, ServiceInv, Served, NoStaleInterrupt, EnabledWhileWaiting
<1>3. InterruptsInv => InterruptsReachDrivers
    BY <1>1, <1>2 DEF InterruptsReachDrivers
<1>4. QED
    BY <1>3, InterruptsInvariance, PTL
=============================================================================
