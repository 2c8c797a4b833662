---------------------------- MODULE TimeoutFacts ----------------------------
(***************************************************************************)
(* The operations of the timeout service preserve its invariant, and what  *)
(* each of them does to the processes that have a timeout set.  The proofs *)
(* about TickClock and about Kernel rest on these lemmas.                  *)
(***************************************************************************)
EXTENDS Timeouts, ListFacts, FiniteSetTheorems

\* The constants and the assumption under which every sum fits an int.
LEMMA Constants ==
    ASSUME SmallDelays
    PROVE  /\ TICK \in Nat \ {0} /\ Half \in Nat \ {0} /\ NO_TIME = -Half
           /\ Half \in Int /\ TICK \in Int
           /\ 2*TICK < Half
           /\ \A ms \in Delays : ms \in Nat \ {0} /\ 2*(ms + TICK) < Half
BY TimeoutsAssumption DEF SmallDelays, NO_TIME

\* Within the range of an int, wrapping changes nothing.
LEMMA WrapInRange ==
    ASSUME NEW x \in Int, Half \in Nat \ {0}, -Half <= x, x < Half
    PROVE  Wrap(x) = x
BY DEF Wrap

LEMMA ListedIsTimed ==
    ASSUME ArrayMatchesFields
    PROVE  Listed = Timed
BY DEF ArrayMatchesFields, Lists, Listed

\* A list is no longer than the set it lists.
LEMMA TimeoutsFit ==
    ASSUME ArrayMatchesFields
    PROVE  Len(timeouts) < NPROCS
<1>1. Len(timeouts) \in Nat /\ Timed \subseteq Proc
  BY ListsDomain DEF ArrayMatchesFields, Timed
<1>2. IsFiniteSet(Timed) /\ Cardinality(Timed) <= Cardinality(Proc)
  BY <1>1, RoomForAll, FS_Subset
<1>3. timeouts \in Injection(1 .. Len(timeouts), Timed)
  <2>1. timeouts \in [1 .. Len(timeouts) -> Timed]
    BY LenProperties DEF ArrayMatchesFields, Lists
  <2>2. IsInjective(timeouts)
    BY DEF ArrayMatchesFields, Lists
  <2> QED BY <2>1, <2>2 DEF Injection
<1>4. Cardinality(1 .. Len(timeouts)) <= Cardinality(Timed)
  BY <1>2, <1>3, FS_Injection
<1>5. Cardinality(1 .. Len(timeouts)) = Len(timeouts)
  <2>1. 1 \in Int /\ Len(timeouts) \in Int
    BY <1>1
  <2>2. Cardinality(1 .. Len(timeouts))
           = IF 1 > Len(timeouts) THEN 0 ELSE Len(timeouts) - 1 + 1
    BY <2>1, FS_Interval
  <2> QED BY <1>1, <2>2
<1>6. Cardinality(Timed) \in Nat /\ Cardinality(Proc) \in Nat
  BY <1>2, RoomForAll, FS_CardinalityType
<1> QED BY <1>1, <1>2, <1>4, <1>5, <1>6, RoomForAll, TimeoutsAssumption

LEMMA TimeoutsInitInv ==
    ASSUME SmallDelays, TimeoutsInit
    PROVE  TimeoutsInv /\ Timed = {}
<1>1. timeout = [p \in Proc |-> NO_TIME] /\ Timed = {}
  BY DEF TimeoutsInit, Timed
<1>2. ArrayMatchesFields
  BY <1>1, ListsNone DEF TimeoutsInit, ArrayMatchesFields
<1> QED
  BY <1>1, <1>2, Constants
  DEF TimeoutsInit, TimeoutsInv, TimesTyped, NextTimeIsEarly, TimesFit

-----------------------------------------------------------------------------
(* set_timeout *)

LEMMA SetTimeoutStep ==
    ASSUME SmallDelays, TimeoutsInv, NEW p \in Proc, NEW ms \in Delays,
           timeout[p] = NO_TIME, SetTimeout(p, ms)
    PROVE  /\ TimeoutsInv'
           /\ Timed' = Timed \cup {p} /\ p \notin Timed
           /\ timeout' = [timeout EXCEPT ![p] = ticks + ms]
           /\ ticks' = ticks
<1>1. /\ ticks \in Nat /\ 2*ticks < Half /\ timeout \in [Proc -> Int]
      /\ p \notin Timed
  BY DEF TimeoutsInv, TimesTyped, TimesFit, Timed
<1>2. Due(ms) = ticks + ms /\ ticks + ms # NO_TIME
  BY <1>1, Constants, WrapInRange DEF Due
<1>3. /\ timeout' = [timeout EXCEPT ![p] = ticks + ms]
      /\ timeouts' = Append(timeouts, p)
      /\ next_time' = Earliest(ticks + ms)
      /\ ticks' = ticks
  BY <1>2 DEF SetTimeout
<1>4. Timed' = Timed \cup {p}
  BY <1>1, <1>2, <1>3 DEF Timed
<1>5. ArrayMatchesFields'
  BY <1>1, <1>3, <1>4, ListsAppend DEF TimeoutsInv, ArrayMatchesFields
<1>6. TimesTyped'
  BY <1>1, <1>3, Constants DEF TimeoutsInv, TimesTyped, Earliest
<1>7. /\ ms \in Nat \ {0} /\ 2*(ms + TICK) < Half /\ ticks + ms \in Int
      /\ next_time \in Int /\ next_time' \in {ticks + ms, next_time}
      /\ next_time' <= ticks + ms
      /\ next_time # NO_TIME => next_time' <= next_time
      /\ next_time = NO_TIME => next_time' = ticks + ms
      /\ next_time = NO_TIME => ticks = 0
  <2>1. ms \in Nat \ {0} /\ 2*(ms + TICK) < Half /\ ticks + ms \in Int
    BY <1>1, Constants
  <2>2. next_time \in Int /\ (next_time = NO_TIME => ticks = 0)
    BY DEF TimeoutsInv, TimesTyped, NextTimeIsEarly
  <2>3. next_time' = IF next_time = NO_TIME \/ ticks + ms < next_time
                     THEN ticks + ms ELSE next_time
    BY <1>3 DEF Earliest
  <2> QED BY <2>1, <2>2, <2>3
<1>8. \A q \in Timed : q # p /\ timeout'[q] = timeout[q] /\ timeout[q] \in Int
  BY <1>1, <1>3 DEF Timed
<1>9. timeout'[p] = ticks + ms
  BY <1>1, <1>3
<1>10. next_time' # NO_TIME /\ -TICK <= next_time' /\ 2*(next_time' + TICK) < Half
  <2>1. CASE next_time = NO_TIME
    BY <1>1, <1>2, <1>7, <2>1, Constants
  <2>2. CASE next_time # NO_TIME
    <3>1. /\ 2*(next_time + TICK) < Half /\ -TICK <= next_time
          /\ next_time' <= next_time /\ next_time' \in Int
      BY <1>7, <2>2 DEF TimeoutsInv, TimesFit
    <3>2. next_time' = next_time \/ next_time' = ticks + ms
      BY <1>7
    <3> QED BY <1>1, <1>2, <1>7, <3>1, <3>2, Constants
  <2> QED BY <2>1, <2>2
<1>11. TimesFit'
  <2>1. \A q \in Timed : /\ timeout'[q] - ticks' >= -TICK
                         /\ 2*(timeout'[q] - ticks' + TICK) < Half
    BY <1>3, <1>8 DEF TimeoutsInv, TimesFit
  <2>2. /\ timeout'[p] - ticks' >= -TICK
        /\ 2*(timeout'[p] - ticks' + TICK) < Half
    BY <1>1, <1>3, <1>7, <1>9, Constants
  <2> QED BY <1>1, <1>3, <1>4, <1>10, <2>1, <2>2 DEF TimesFit
<1>12. NextTimeIsEarly'
  <2>1. \A q \in Timed : next_time' <= next_time /\ next_time <= timeout'[q]
                         /\ timeout'[q] \in Int
    BY <1>7, <1>8 DEF TimeoutsInv, NextTimeIsEarly
  <2>2. next_time' \in Int /\ next_time' <= timeout'[p]
    BY <1>7, <1>9
  <2> QED BY <1>4, <1>7, <1>10, <2>1, <2>2 DEF NextTimeIsEarly
<1> QED BY <1>1, <1>3, <1>4, <1>5, <1>6, <1>11, <1>12 DEF TimeoutsInv

-----------------------------------------------------------------------------
(* cancel_timeout *)

LEMMA CancelTimeoutStep ==
    ASSUME SmallDelays, TimeoutsInv, NEW p \in Timed, CancelTimeout(p)
    PROVE  /\ TimeoutsInv'
           /\ Timed' = Timed \ {p}
           /\ timeout' = [timeout EXCEPT ![p] = NO_TIME]
           /\ ticks' = ticks
<1>1. timeout \in [Proc -> Int] /\ p \in Proc
  BY DEF TimeoutsInv, TimesTyped, Timed
<1>2. /\ timeout' = [timeout EXCEPT ![p] = NO_TIME]
      /\ next_time' = next_time /\ ticks' = ticks
  BY DEF CancelTimeout
<1>3. Timed' = Timed \ {p}
  BY <1>1, <1>2 DEF Timed
<1>4. ArrayMatchesFields'
  <2>1. PICK i \in DOMAIN timeouts :
           timeouts[i] = p /\ timeouts' = SwapOut(timeouts, i)
    BY DEF CancelTimeout
  <2> QED BY <1>3, <2>1, ListsSwapOut DEF TimeoutsInv, ArrayMatchesFields
<1>5. TimesTyped'
  BY <1>1, <1>2, Constants DEF TimeoutsInv, TimesTyped
<1>6. \A q \in Timed' : q \in Timed /\ timeout'[q] = timeout[q]
  BY <1>1, <1>2, <1>3 DEF Timed
<1>7. TimesFit' /\ NextTimeIsEarly'
  BY <1>2, <1>6 DEF TimeoutsInv, TimesFit, NextTimeIsEarly
<1> QED BY <1>2, <1>3, <1>4, <1>5, <1>7 DEF TimeoutsInv

-----------------------------------------------------------------------------
(* mini_tick *)

\* What is left of a timeout that an update keeps.
LEMMA UpdateRemaining ==
    ASSUME SmallDelays, TimeoutsInv, NEW p \in Timed, ~Expired(p)
    PROVE  /\ Remaining(p, TICK) = timeout[p] - ticks - TICK
           /\ Remaining(p, TICK) \in Int
           /\ Remaining(p, TICK) >= -TICK
           /\ Remaining(p, TICK) # NO_TIME
           /\ 2*(Remaining(p, TICK) + TICK) < Half
<1>1. /\ timeout[p] \in Int /\ ticks \in Nat /\ 2*ticks < Half
      /\ timeout[p] - ticks >= 0
      /\ 2*(timeout[p] - ticks + TICK) < Half
  <2>1. timeout[p] \in Int /\ ticks \in Nat
    BY DEF TimeoutsInv, TimesTyped, Timed
  <2> QED BY <2>1 DEF TimeoutsInv, TimesFit, Expired
<1>2. Wrap(ticks + TICK) = ticks + TICK
  BY <1>1, Constants, WrapInRange
<1>3. -Half <= timeout[p] - (ticks + TICK) /\ timeout[p] - (ticks + TICK) < Half
  BY <1>1, Constants
<1>4. Wrap(timeout[p] - (ticks + TICK)) = timeout[p] - (ticks + TICK)
  BY <1>1, <1>3, Constants, WrapInRange
<1> QED BY <1>1, <1>2, <1>4, Constants DEF Remaining

\* An update fires the expired timeouts and keeps the others.
LEMMA UpdateStep ==
    ASSUME SmallDelays, TimeoutsInv, NEW f, Update(TICK, f)
    PROVE  LET kept == {p \in Timed : ~Expired(p)}
           IN  /\ Lists(f, Timed \ kept)
               /\ Lists(timeouts', kept)
               /\ ticks' = 0
               /\ timeout' \in [Proc -> Int]
               /\ Timed' = kept
               /\ \A p \in kept : timeout'[p] = Remaining(p, TICK)
<1> DEFINE kept == {p \in Timed : ~Expired(p)}
<1>1. Listed = Timed /\ Lists(timeouts, Timed)
  BY ListedIsTimed DEF TimeoutsInv, ArrayMatchesFields
<1>2. kept \subseteq Timed /\ Timed \subseteq Proc
  BY DEF Timed
<1>3. /\ f \in InOrder(Timed \ kept, timeouts)
      /\ timeouts' \in InOrder(kept, timeouts)
      /\ timeout' = [p \in Proc |->
                        CASE p \in kept -> Remaining(p, TICK)
                          [] p \in Timed \ kept -> NO_TIME
                          [] OTHER -> timeout[p]]
      /\ ticks' = 0
  BY <1>1 DEF Update
<1>4. Lists(f, Timed \ kept) /\ Lists(timeouts', kept)
  BY <1>1, <1>2, <1>3, ListsInOrder
<1>5. \A p \in kept : /\ timeout'[p] = Remaining(p, TICK)
                      /\ timeout'[p] \in Int
                      /\ timeout'[p] # NO_TIME
  BY <1>2, <1>3, UpdateRemaining
<1>6. \A p \in Proc \ kept : timeout'[p] = NO_TIME
  BY <1>2, <1>3 DEF Timed
<1>7. timeout' \in [Proc -> Int]
  <2>1. \A p \in Proc : timeout'[p] \in Int
    BY <1>5, <1>6, Constants
  <2>2. timeout' = [p \in Proc |-> timeout'[p]]
    BY <1>3
  <2> QED BY <2>1, <2>2
<1>8. Timed' = kept
  BY <1>2, <1>5, <1>6 DEF Timed
<1> QED BY <1>3, <1>4, <1>5, <1>7, <1>8

\* The least remaining time becomes next_time.
LEMMA UpdateNextTime ==
    ASSUME SmallDelays, TimeoutsInv, NEW f, Update(TICK, f)
    PROVE  /\ next_time' \in Int
           /\ \A p \in Timed' : next_time' # NO_TIME /\ next_time' <= timeout'[p]
           /\ next_time' # NO_TIME => /\ -TICK <= next_time'
                                      /\ 2*(next_time' + TICK) < Half
<1> DEFINE kept == {p \in Timed : ~Expired(p)}
<1>1. Listed = Timed
  BY ListedIsTimed DEF TimeoutsInv
<1>2. Timed' = kept /\ \A p \in kept : timeout'[p] = Remaining(p, TICK)
  BY UpdateStep
<1>3. next_time' \in NextTimes(kept, TICK)
  BY <1>1 DEF Update
<1>4. CASE kept = {}
  BY <1>2, <1>3, <1>4, Constants DEF NextTimes
<1>5. CASE kept # {}
  <2>1. PICK p \in kept : next_time' = Remaining(p, TICK)
    BY <1>3, <1>5 DEF NextTimes
  <2>2. \A q \in kept : next_time' <= Remaining(q, TICK)
    BY <1>3, <1>5 DEF NextTimes
  <2>3. /\ next_time' \in Int /\ -TICK <= next_time' /\ next_time' # NO_TIME
        /\ 2*(next_time' + TICK) < Half
    BY <2>1, UpdateRemaining, Constants
  <2> QED BY <1>2, <2>2, <2>3
<1> QED BY <1>4, <1>5

\* A call of tick() fires the timeouts already overrun and takes TICK from
\* what is left of the others, whichever way mini_tick() goes.
LEMMA MiniTickStep ==
    ASSUME SmallDelays, TimeoutsInv, NEW f, MiniTick(TICK, f)
    PROVE  /\ TimeoutsInv'
           /\ Lists(f, {p \in Timed : timeout[p] < ticks})
           /\ Timed' = {p \in Timed : ~(timeout[p] < ticks)}
           /\ \A p \in Timed' :
                 timeout'[p] - ticks' = timeout[p] - ticks - TICK
<1>1. /\ timeout \in [Proc -> Int] /\ ticks \in Nat /\ next_time \in Int
      /\ \A p \in Timed : p \in Proc /\ timeout[p] \in Int
  BY DEF TimeoutsInv, TimesTyped, Timed
<1>2. CASE NoneActive(f)
  <2>1. /\ UNCHANGED <<timeout, timeouts, ticks, next_time>> /\ f = <<>>
        /\ next_time = NO_TIME
    BY <1>2 DEF NoneActive, timeoutVars
  <2>2. Timed = {} /\ Timed' = {}
    BY <2>1 DEF TimeoutsInv, NextTimeIsEarly, Timed
  <2>3. TimeoutsInv'
    BY <2>1, <2>2
    DEF TimeoutsInv, TimesTyped, ArrayMatchesFields, NextTimeIsEarly, TimesFit
  <2> QED BY <2>1, <2>2, <2>3, ListsNone
<1>3. CASE NoneExpired(TICK, f)
  <2>1. /\ UNCHANGED <<timeout, timeouts, next_time>> /\ f = <<>>
        /\ next_time # NO_TIME /\ ticks <= next_time
        /\ ticks' = Wrap(ticks + TICK)
    BY <1>3 DEF NoneExpired
  <2>2. 2*(ticks + TICK) < Half
    <3>1. 2*(next_time + TICK) < Half
      BY <2>1 DEF TimeoutsInv, TimesFit
    <3> QED BY <1>1, <2>1, <3>1, Constants
  <2>3. ticks' = ticks + TICK
    <3>1. ticks + TICK \in Int /\ -Half <= ticks + TICK /\ ticks + TICK < Half
      BY <1>1, <2>2, Constants
    <3> QED BY <2>1, <3>1, Constants, WrapInRange
  <2>4. Timed' = Timed
    BY <2>1 DEF Timed
  <2>5. \A p \in Timed : timeout[p] >= ticks
    <3>1. \A p \in Timed : next_time <= timeout[p]
      BY DEF TimeoutsInv, NextTimeIsEarly
    <3> QED BY <1>1, <2>1, <3>1
  <2>6. TimesTyped' /\ ArrayMatchesFields' /\ NextTimeIsEarly'
    BY <1>1, <2>1, <2>3, <2>4, Constants
    DEF TimeoutsInv, TimesTyped, ArrayMatchesFields, NextTimeIsEarly
  <2>7. TimesFit'
    <3>1. \A p \in Timed : 2*(timeout[p] - ticks + TICK) < Half
      BY DEF TimeoutsInv, TimesFit
    <3>2. \A p \in Timed : /\ timeout[p] - (ticks + TICK) >= -TICK
                           /\ 2*(timeout[p] - (ticks + TICK) + TICK) < Half
      BY <1>1, <2>5, <3>1, Constants
    <3>3. -TICK <= next_time /\ 2*(next_time + TICK) < Half
      BY <2>1 DEF TimeoutsInv, TimesFit
    <3> QED BY <2>1, <2>2, <2>3, <2>4, <3>2, <3>3 DEF TimesFit
  <2>8. Lists(f, {p \in Timed : timeout[p] < ticks})
    <3>1. {p \in Timed : timeout[p] < ticks} = {}
      BY <1>1, <2>5
    <3> QED BY <2>1, <3>1, ListsNone
  <2>9. Timed' = {p \in Timed : ~(timeout[p] < ticks)}
    BY <1>1, <2>4, <2>5
  <2>10. \A p \in Timed : timeout'[p] - ticks' = timeout[p] - ticks - TICK
    BY <1>1, <2>1, <2>3, Constants
  <2> QED BY <2>4, <2>6, <2>7, <2>8, <2>9, <2>10 DEF TimeoutsInv
<1>4. CASE Update(TICK, f)
  <2> DEFINE kept == {p \in Timed : ~Expired(p)}
  <2>1. /\ Lists(f, Timed \ kept) /\ Lists(timeouts', kept)
        /\ ticks' = 0 /\ timeout' \in [Proc -> Int] /\ Timed' = kept
        /\ \A p \in kept : timeout'[p] = Remaining(p, TICK)
    BY <1>4, UpdateStep
  <2>2. /\ next_time' \in Int
        /\ \A p \in Timed' : next_time' # NO_TIME /\ next_time' <= timeout'[p]
        /\ next_time' # NO_TIME => /\ -TICK <= next_time'
                                   /\ 2*(next_time' + TICK) < Half
    BY <1>4, UpdateNextTime
  <2>3. \A p \in kept : /\ timeout'[p] = timeout[p] - ticks - TICK
                        /\ timeout'[p] \in Int /\ timeout'[p] >= -TICK
                        /\ 2*(timeout'[p] + TICK) < Half
    BY <2>1, UpdateRemaining
  <2>4. Timed \ kept = {p \in Timed : timeout[p] < ticks}
    BY DEF Expired
  <2>5. kept = {p \in Timed : ~(timeout[p] < ticks)}
    BY DEF Expired
  <2> HIDE DEF kept
  <2>6. TimesTyped' /\ ArrayMatchesFields' /\ NextTimeIsEarly'
    BY <2>1, <2>2, Constants DEF TimesTyped, ArrayMatchesFields, NextTimeIsEarly
  <2>7. TimesFit'
    <3>1. \A p \in kept : /\ timeout'[p] - ticks' >= -TICK
                          /\ 2*(timeout'[p] - ticks' + TICK) < Half
      BY <2>1, <2>3
    <3>2. 2*ticks' < Half
      BY <2>1, Constants
    <3> QED BY <2>1, <2>2, <3>1, <3>2 DEF TimesFit
  <2>8. \A p \in kept : timeout'[p] - ticks' = timeout[p] - ticks - TICK
    BY <1>1, <2>1, <2>3, Constants
  <2> QED BY <2>1, <2>4, <2>5, <2>6, <2>7, <2>8 DEF TimeoutsInv
<1> QED BY <1>2, <1>3, <1>4 DEF MiniTick
=============================================================================
