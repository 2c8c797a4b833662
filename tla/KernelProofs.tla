---------------------------- MODULE KernelProofs ----------------------------
(***************************************************************************)
(* Theorems of Kernel, for any number of processes, interrupts, messages   *)
(* and filters, when the programs are disciplined and delays are small.    *)
(*                                                                         *)
(* Each handler changes the states of a few processes and the queues they  *)
(* stand in.  The invariant is stated for both at once: Queued and Waits   *)
(* say which processes a family of queues holds, and one lemma for each    *)
(* operation on queues says how that set changes.  Then come messages and  *)
(* buffers: the type invariant, and that no receiver misses a message.     *)
(* The last two parts are about steps: what a process finds when it wakes, *)
(* and which process runs when a handler of interrupts wakes.              *)
(***************************************************************************)
EXTENDS Kernel, TimeoutFacts

\* The ready queues rq hold the processes of A, each in its priority's queue.
Queued(rq, A) ==
    /\ rq = [k \in Prio |-> rq[k]]
    /\ \A k \in Prio : Lists(rq[k], {q \in A : prio[q] = k})

\* The senders' queues wq hold the processes of B, each once in one queue.
Waits(wq, B) ==
    /\ wq = [d \in Dest |-> wq[d]]
    /\ \A d \in Dest : Lists(wq[d], ToSet(wq[d])) /\ ToSet(wq[d]) \subseteq B
    /\ \A p \in B : \E d \in Dest : p \in ToSet(wq[d])
    /\ \A d, e \in Dest : d # e => ToSet(wq[d]) \cap ToSet(wq[e]) = {}

Active == {p \in Proc : state[p] = "ACTIVE"}

Senders == {p \in Proc : Blocked(p)}

KernelTyped ==
    /\ state \in [Proc -> States]
    /\ prio \in [Proc -> Prio]
    /\ filter \in [Proc -> Int]
    /\ handler \in [Irqs -> Dest]
    /\ current \in Dest \cup {NULL}

\* Before the system runs no process is current.
CurrentActive ==
    /\ current \in Proc => state[current] = "ACTIVE" /\ phase = "run"
    /\ phase = "run" => current # NULL

\* A process with a timeout waits in a receive with a timeout.
TimedFiltered == \A p \in Timed : filter[p] \in TimedFilters

KInv ==
    /\ KernelTyped
    /\ Queued(readyq, Active \ {current})
    /\ Waits(waiting, Senders)
    /\ CurrentActive
    /\ IdleOnlyWhenNothingToDo
    /\ TimeoutsInv
    /\ TimedOnlyWaiting
    /\ TimedFiltered
    /\ AssertionsHold

-----------------------------------------------------------------------------
(* Queues *)

LEMMA ListsConcat ==
    ASSUME NEW S, NEW s, Lists(s, S), NEW T, NEW t, Lists(t, T), S \cap T = {}
    PROVE  Lists(s \o t, S \cup T)
<1> DEFINE U == S \cup T
           u == s \o t
<1>1. /\ s \in Seq(U) /\ t \in Seq(U)
      /\ Len(s) \in Nat /\ Len(t) \in Nat
  <2>1. s \in [1 .. Len(s) -> U] /\ t \in [1 .. Len(t) -> U]
    BY LenProperties DEF Lists
  <2>2. Len(s) \in Nat /\ Len(t) \in Nat
    BY ListsDomain
  <2> QED BY <2>1, <2>2
<1>2. /\ u \in Seq(U) /\ Len(u) = Len(s) + Len(t)
      /\ \A i \in 1 .. Len(u) : u[i] = IF i <= Len(s) THEN s[i] ELSE t[i - Len(s)]
  BY <1>1, ConcatProperties
<1> HIDE DEF u
<1>3. \A p \in U : \E i \in 1 .. Len(u) : u[i] = p
  <2>1. ASSUME NEW p \in S PROVE \E i \in 1 .. Len(u) : u[i] = p
    <3>1. PICK i \in 1 .. Len(s) : s[i] = p
      BY ListsDomain
    <3> QED BY <1>1, <1>2, <3>1
  <2>2. ASSUME NEW p \in T PROVE \E i \in 1 .. Len(u) : u[i] = p
    <3>1. PICK i \in 1 .. Len(t) : t[i] = p
      BY ListsDomain
    <3>2. i + Len(s) \in 1 .. Len(u) /\ u[i + Len(s)] = t[i]
      BY <1>1, <1>2
    <3> QED BY <3>1, <3>2
  <2> QED BY <2>1, <2>2
<1>4. ASSUME NEW i \in 1 .. Len(u), NEW j \in 1 .. Len(u), u[i] = u[j]
      PROVE  i = j
  <2>1. CASE i <= Len(s) /\ j <= Len(s)
    BY <1>1, <1>2, <1>4, <2>1, ListsDomain
  <2>2. CASE ~(i <= Len(s)) /\ ~(j <= Len(s))
    <3>1. /\ i - Len(s) \in 1 .. Len(t) /\ j - Len(s) \in 1 .. Len(t)
          /\ t[i - Len(s)] = t[j - Len(s)]
      BY <1>1, <1>2, <1>4, <2>2
    <3>2. i - Len(s) = j - Len(s)
      BY <3>1, ListsDomain
    <3> QED BY <1>1, <1>2, <3>2
  <2>3. CASE i <= Len(s) /\ ~(j <= Len(s))
    <3>1. s[i] \in S /\ t[j - Len(s)] \in T
      BY <1>1, <1>2, <2>3, ListsDomain
    <3> QED BY <1>2, <1>4, <2>3, <3>1
  <2>4. CASE ~(i <= Len(s)) /\ j <= Len(s)
    <3>1. s[j] \in S /\ t[i - Len(s)] \in T
      BY <1>1, <1>2, <2>4, ListsDomain
    <3> QED BY <1>2, <1>4, <2>4, <3>1
  <2> QED BY <2>1, <2>2, <2>3, <2>4
<1>5. Lists(u, U)
  <2> HIDE DEF U
  <2> QED BY <1>2, <1>3, <1>4, ListsIntro
<1> QED BY <1>5 DEF u

LEMMA EnqueueStep ==
    ASSUME prio \in [Proc -> Prio], NEW rq, NEW A, A \subseteq Proc,
           Queued(rq, A), NEW p \in Proc, p \notin A
    PROVE  Queued(Enqueue(rq, p), A \cup {p})
<1> DEFINE r == Enqueue(rq, p)
           S(k) == {q \in A : prio[q] = k}
           T(k) == {q \in A \cup {p} : prio[q] = k}
<1>1. /\ r = [k \in Prio |-> r[k]]
      /\ r[prio[p]] = Append(rq[prio[p]], p)
      /\ \A k \in Prio : k # prio[p] => r[k] = rq[k]
  BY DEF Queued, Enqueue
<1>2. ASSUME NEW k \in Prio PROVE Lists(r[k], T(k))
  <2>1. CASE k = prio[p]
    <3>1. Lists(rq[k], S(k)) /\ p \notin S(k) /\ T(k) = S(k) \cup {p}
      BY <2>1 DEF Queued
    <3>2. Lists(Append(rq[k], p), S(k) \cup {p})
      <4> HIDE DEF S
      <4> QED BY <3>1, ListsAppend
    <3> QED BY <1>1, <2>1, <3>1, <3>2
  <2>2. CASE k # prio[p]
    <3>1. Lists(rq[k], S(k)) /\ T(k) = S(k)
      BY <2>2 DEF Queued
    <3> QED BY <1>1, <2>2, <3>1
  <2> QED BY <2>1, <2>2
<1> QED BY <1>1, <1>2 DEF Queued

\* The process chosen leaves the ready queues, and only if they are empty it
\* is the idle process.
LEMMA ChooseStep ==
    ASSUME prio \in [Proc -> Prio], NEW rq, NEW A, A \subseteq Proc,
           Queued(rq, A), ChooseProc(rq)
    PROVE  /\ Queued(readyq', A \ {current'})
           /\ current' \in A \/ (current' = IDLE /\ A = {})
<1>1. CASE \E k \in Prio :
              /\ First(rq, k) /\ current' = Head(rq[k])
              /\ readyq' = [rq EXCEPT ![k] = Tail(rq[k])]
  <2>1. PICK k \in Prio : /\ First(rq, k) /\ current' = Head(rq[k])
                          /\ readyq' = [rq EXCEPT ![k] = Tail(rq[k])]
    BY <1>1
  <2> DEFINE S(j) == {q \in A : prio[q] = j}
             T(j) == {q \in A \ {current'} : prio[q] = j}
  <2>2. /\ readyq' = [j \in Prio |-> readyq'[j]]
        /\ readyq'[k] = Tail(rq[k])
        /\ \A j \in Prio : j # k => readyq'[j] = rq[j]
    BY <2>1 DEF Queued
  <2>3. Lists(rq[k], S(k)) /\ rq[k] # <<>>
    BY <2>1 DEF Queued, First
  <2>4. current' \in S(k) /\ Lists(readyq'[k], S(k) \ {current'})
    BY <2>1, <2>2, <2>3, ListsTail
  <2>5. T(k) = S(k) \ {current'} /\ \A j \in Prio : j # k => T(j) = S(j)
    BY <2>4
  <2>6. ASSUME NEW j \in Prio PROVE Lists(readyq'[j], T(j))
    BY <2>2, <2>4, <2>5 DEF Queued
  <2>7. Queued(readyq', A \ {current'})
    BY <2>2, <2>6 DEF Queued
  <2>8. current' \in A
    BY <2>4
  <2> QED BY <2>7, <2>8
<1>2. CASE (\A k \in Prio : rq[k] = <<>>) /\ current' = IDLE /\ readyq' = rq
  <2>1. ASSUME NEW q \in A PROVE FALSE
    <3>1. prio[q] \in Prio /\ q \in {r \in A : prio[r] = prio[q]}
      OBVIOUS
    <3>2. Lists(rq[prio[q]], {r \in A : prio[r] = prio[q]})
      BY <3>1 DEF Queued
    <3> QED BY <1>2, <3>1, <3>2, ListsEmpty
  <2>2. A = {} /\ A \ {current'} = A
    BY <2>1
  <2> QED BY <1>2, <2>2
<1> QED BY <1>1, <1>2 DEF ChooseProc

\* A sender joins the queue of a receiver.
LEMMA WaitsAppend ==
    ASSUME NEW wq, NEW B, Waits(wq, B), NEW d \in Dest, NEW p, p \notin B
    PROVE  Waits([wq EXCEPT ![d] = Append(wq[d], p)], B \cup {p})
<1> DEFINE w == [wq EXCEPT ![d] = Append(wq[d], p)]
<1>1. /\ w = [e \in Dest |-> w[e]]
      /\ w[d] = Append(wq[d], p)
      /\ \A e \in Dest : e # d => w[e] = wq[e]
  BY DEF Waits
<1> HIDE DEF w
<1>2. Lists(wq[d], ToSet(wq[d])) /\ p \notin ToSet(wq[d])
  BY DEF Waits
<1>3. Lists(w[d], ToSet(wq[d]) \cup {p})
  <2>1. Lists(Append(wq[d], p), ToSet(wq[d]) \cup {p})
    BY <1>2, ListsAppend
  <2> QED BY <1>1, <2>1
<1>4. ToSet(w[d]) = ToSet(wq[d]) \cup {p}
  BY <1>3 DEF Lists
<1>5. \A e \in Dest : ToSet(w[e]) = IF e = d THEN ToSet(wq[d]) \cup {p} ELSE ToSet(wq[e])
  BY <1>1, <1>4
<1>6. \A e \in Dest : Lists(w[e], ToSet(w[e])) /\ ToSet(w[e]) \subseteq B \cup {p}
  BY <1>1, <1>3, <1>4, <1>5 DEF Waits
<1>7. \A q \in B \cup {p} : \E e \in Dest : q \in ToSet(w[e])
  BY <1>5 DEF Waits
<1>8. \A e, f \in Dest : e # f => ToSet(w[e]) \cap ToSet(w[f]) = {}
  <2> SUFFICES ASSUME NEW e \in Dest, NEW f \in Dest, e # f
               PROVE  ToSet(w[e]) \cap ToSet(w[f]) = {}
    OBVIOUS
  <2>1. /\ ToSet(wq[e]) \cap ToSet(wq[f]) = {}
        /\ p \notin ToSet(wq[e]) /\ p \notin ToSet(wq[f])
    BY DEF Waits
  <2> QED BY <1>5, <2>1
<1>9. Waits(w, B \cup {p})
  BY <1>1, <1>6, <1>7, <1>8 DEF Waits
<1> QED BY <1>9 DEF w

\* A sender leaves the queue of a receiver, wherever it stood.
LEMMA WaitsRemove ==
    ASSUME NEW wq, NEW B, Waits(wq, B), NEW d \in Dest, NEW i \in DOMAIN wq[d]
    PROVE  /\ wq[d][i] \in B
           /\ Waits([wq EXCEPT ![d] = RemoveAt(wq[d], i)], B \ {wq[d][i]})
<1> DEFINE w == [wq EXCEPT ![d] = RemoveAt(wq[d], i)]
           p == wq[d][i]
<1>1. /\ w = [e \in Dest |-> w[e]]
      /\ w[d] = RemoveAt(wq[d], i)
      /\ \A e \in Dest : e # d => w[e] = wq[e]
  BY DEF Waits
<1> HIDE DEF w
<1>2. Lists(wq[d], ToSet(wq[d])) /\ p \in ToSet(wq[d]) /\ p \in B
  BY DEF Waits, ToSet
<1>3. Lists(w[d], ToSet(wq[d]) \ {p})
  BY <1>1, <1>2, ListsRemoveAt
<1> HIDE DEF p
<1>4. ToSet(w[d]) = ToSet(wq[d]) \ {p}
  BY <1>3 DEF Lists
<1>5. \A e \in Dest : e # d => p \notin ToSet(wq[e])
  BY <1>2 DEF Waits
<1>6. \A e \in Dest : ToSet(w[e]) = ToSet(wq[e]) \ {p}
  BY <1>1, <1>4, <1>5
<1>7. \A e \in Dest : Lists(w[e], ToSet(w[e])) /\ ToSet(w[e]) \subseteq B \ {p}
  BY <1>1, <1>3, <1>4, <1>6 DEF Waits
<1>8. \A q \in B \ {p} : \E e \in Dest : q \in ToSet(w[e])
  BY <1>6 DEF Waits
<1>9. \A e, f \in Dest : e # f => ToSet(w[e]) \cap ToSet(w[f]) = {}
  BY <1>6 DEF Waits
<1>10. Waits(w, B \ {p})
  BY <1>1, <1>7, <1>8, <1>9 DEF Waits
<1> QED BY <1>2, <1>10 DEF w, p

-----------------------------------------------------------------------------
(* What the handlers have in common *)

\* A handler that ends in choose_proc(), with all that are active queued.
LEMMA Dispatch ==
    ASSUME KernelTyped, UNCHANGED prio, phase' = "run",
           NEW rq, Queued(rq, Active'), ChooseProc(rq)
    PROVE  /\ Queued(readyq, Active \ {current})'
           /\ CurrentActive'
           /\ IdleOnlyWhenNothingToDo'
           /\ current' \in Dest
<1>1. Active' \subseteq Proc /\ prio \in [Proc -> Prio]
  BY DEF Active, KernelTyped
<1>2. /\ Queued(readyq', Active' \ {current'})
      /\ current' \in Active' \/ (current' = IDLE /\ Active' = {})
  BY <1>1, ChooseStep
<1>3. Queued(readyq, Active \ {current})'
  BY <1>2 DEF Queued
<1>4. CurrentActive' /\ IdleOnlyWhenNothingToDo' /\ current' \in Dest
  BY <1>2, KernelAssumption
  DEF CurrentActive, IdleOnlyWhenNothingToDo, Active, Dest
<1> QED BY <1>3, <1>4

\* A handler that touches no process with a timeout.
LEMMA TimeoutsKept ==
    ASSUME KInv, UNCHANGED timeoutVars,
           \A q \in Timed : state'[q] = state[q] /\ filter'[q] = filter[q]
    PROVE  TimeoutsInv' /\ TimedOnlyWaiting' /\ TimedFiltered'
<1>1. Timed' = Timed
  BY DEF timeoutVars, Timed
<1>2. TimeoutsInv'
  BY <1>1 DEF KInv, timeoutVars, TimeoutsInv, TimesTyped, ArrayMatchesFields,
              NextTimeIsEarly, TimesFit
<1>3. TimedOnlyWaiting' /\ TimedFiltered'
  BY <1>1 DEF KInv, TimedOnlyWaiting, TimedFiltered
<1> QED BY <1>2, <1>3

\* The process that makes a call.
LEMMA Caller ==
    ASSUME KInv, NEW p \in Proc, Calls(p)
    PROVE  /\ current = p /\ phase = "run" /\ state[p] = "ACTIVE"
           /\ p \in Active /\ p \notin Timed /\ p \notin Senders
           /\ p \in Dest
           /\ Queued(readyq, Active \ {p})
           /\ Queued(Enqueue(readyq, p), Active)
<1>1. /\ current = p /\ phase = "run" /\ state[p] = "ACTIVE"
      /\ p \in Active /\ p \notin Timed /\ p \notin Senders /\ p \in Dest
  BY DEF KInv, Calls, CurrentActive, TimedOnlyWaiting, Active, Senders, Blocked, Dest
<1>2. Queued(readyq, Active \ {p})
  BY <1>1 DEF KInv
<1>3. Queued(Enqueue(readyq, p), (Active \ {p}) \cup {p})
  BY <1>2, EnqueueStep DEF KInv, KernelTyped, Active
<1>4. (Active \ {p}) \cup {p} = Active
  BY <1>1
<1> QED BY <1>1, <1>2, <1>3, <1>4

\* A process that waits is in no queue, and can join the ready ones.
LEMMA Receiver ==
    ASSUME KInv, NEW d, NEW t, Accepts(d, t), d \in Dest
    PROVE  /\ d \in Proc /\ state[d] = "RECEIVING"
           /\ filter[d] \in {ANY, t}
           /\ d \notin Active /\ d \notin Senders /\ d # current
<1>1. StateOf(d) = "RECEIVING" /\ filter[d] \in {ANY, t}
  BY DEF Accepts
<1>2. d \in Proc /\ state[d] = "RECEIVING"
  BY <1>1 DEF StateOf, Dest
<1> QED BY <1>1, <1>2 DEF Active, Senders, Blocked, KInv, CurrentActive

\* A process that waits for a call or an interrupt has no timeout.
LEMMA NoTimeout ==
    ASSUME Disciplined, KInv, NEW d \in Proc, NEW t \in SendrecTypes \cup {INTERRUPT},
           filter[d] \in {ANY, t}
    PROVE  d \notin Timed
BY DEF Disciplined, KInv, TimedFiltered

-----------------------------------------------------------------------------
(* The initial state, and steps that change no queue *)

LEMMA KInvInit ==
    ASSUME SmallDelays, Init
    PROVE  KInv
<1>1. TimeoutsInv /\ Timed = {}
  BY TimeoutsInitInv DEF Init
<1>2. Active = {} /\ Senders = {}
  BY DEF Init, Active, Senders, Blocked
<1>3. Queued(readyq, Active \ {current})
  <2>1. \A k \in Prio : {q \in Active \ {current} : prio[q] = k} = {}
    BY <1>2
  <2> QED BY <2>1, ListsNone DEF Init, Queued
<1>4. Waits(waiting, Senders)
  <2>1. \A d \in Dest : ToSet(waiting[d]) = {}
    BY DEF Init, ToSet
  <2> QED BY <1>2, <2>1, ListsNone DEF Init, Waits
<1>5. KernelTyped
  <2>1. P_LOW \in Prio /\ ANY \in Int
    BY DEF Prio, P_LOW, ANY
  <2>2. state \in [Proc -> States]
    BY DEF Init, States
  <2>3. prio \in [Proc -> Prio] /\ filter \in [Proc -> Int]
    BY <2>1 DEF Init
  <2> QED BY <2>2, <2>3 DEF Init, KernelTyped, Dest
<1>6. CurrentActive /\ IdleOnlyWhenNothingToDo /\ AssertionsHold
  BY KernelAssumption DEF Init, CurrentActive, IdleOnlyWhenNothingToDo, AssertionsHold,
      Assertions
<1>7. TimedOnlyWaiting /\ TimedFiltered
  BY <1>1 DEF TimedOnlyWaiting, TimedFiltered
<1> QED BY <1>1, <1>3, <1>4, <1>5, <1>6, <1>7 DEF KInv

\* All that KInv speaks of, but for handler[] and panic.
quietVars == <<state, prio, filter, waiting, readyq, current, phase, timeoutVars>>

LEMMA QuietInv ==
    ASSUME KInv, UNCHANGED quietVars, handler' \in [Irqs -> Dest], AssertionsHold'
    PROVE  KInv'
<1>1. /\ UNCHANGED <<state, prio, filter, waiting, readyq, current, phase>>
      /\ UNCHANGED timeoutVars
  BY DEF quietVars
<1>2. Active' = Active /\ Senders' = Senders
  BY <1>1 DEF Active, Senders, Blocked
<1>3. KernelTyped'
  BY <1>1 DEF KInv, KernelTyped
<1>4. Queued(readyq, Active \ {current})' /\ Waits(waiting, Senders)'
  BY <1>1, <1>2 DEF KInv, Queued, Waits
<1>5. CurrentActive' /\ IdleOnlyWhenNothingToDo'
  BY <1>1 DEF KInv, CurrentActive, IdleOnlyWhenNothingToDo
<1>6. TimeoutsInv' /\ TimedOnlyWaiting' /\ TimedFiltered'
  BY <1>1, TimeoutsKept
<1> QED BY <1>3, <1>4, <1>5, <1>6 DEF KInv

\* A panic that is not a failed assertion.
LEMMA PanicInv ==
    ASSUME KInv, NEW why, Panic(why),
           why \notin Assertions
    PROVE  KInv'
<1>1. UNCHANGED quietVars /\ handler' = handler /\ panic' = why
  BY DEF Panic, quietVars, processVars, schedVars, irqVars
<1> QED BY <1>1, QuietInv DEF KInv, KernelTyped, AssertionsHold

\* Calls that only write a buffer, take the pending interrupt, name a handler
\* or enable an interrupt.
LEMMA ReceiveInterruptInv ==
    ASSUME KInv, NEW p, NEW f, NEW b, ReceiveInterrupt(p, f, b) \/ ReceivePoll(p, f, b)
    PROVE  KInv'
<1>1. UNCHANGED quietVars /\ handler' = handler /\ panic' = panic
  BY DEF ReceiveInterrupt, ReceivePoll, quietVars, schedVars, irqVars
<1> QED BY <1>1, QuietInv DEF KInv, KernelTyped, AssertionsHold

LEMMA EnableIrqInv ==
    ASSUME KInv, NEW p, NEW irq, EnableIrq(p, irq)
    PROVE  KInv'
<1>1. UNCHANGED quietVars /\ handler' = handler /\ panic' = panic
  BY DEF EnableIrq, quietVars, processVars, schedVars, irqVars
<1> QED BY <1>1, QuietInv DEF KInv, KernelTyped, AssertionsHold

\* The current process changes its priority: it stands in no queue.
LEMMA PriorityInv ==
    ASSUME KInv, NEW p \in Proc, Calls(p), NEW k \in Prio,
           prio' = [prio EXCEPT ![p] = k], handler' \in [Irqs -> Dest],
           UNCHANGED <<state, filter, waiting, readyq, current, phase, panic, timeoutVars>>
    PROVE  KInv'
<1>1. /\ UNCHANGED <<state, filter, waiting, readyq, current, phase, panic>>
      /\ UNCHANGED timeoutVars
  OBVIOUS
<1>2. current = p /\ Queued(readyq, Active \ {p})
  BY Caller
<1>3. Active' = Active /\ Senders' = Senders
  BY <1>1 DEF Active, Senders, Blocked
<1>4. prio \in [Proc -> Prio] /\ Active \subseteq Proc
  BY DEF KInv, KernelTyped, Active
<1>5. \A q \in Active \ {p} : prio'[q] = prio[q]
  BY <1>4
<1>6. \A j \in Prio : {q \in Active \ {p} : prio'[q] = j} = {q \in Active \ {p} : prio[q] = j}
  BY <1>5
<1>7. Queued(readyq, Active \ {current})'
  BY <1>1, <1>2, <1>3, <1>6 DEF Queued
<1>8. KernelTyped' /\ AssertionsHold'
  BY <1>1, <1>4 DEF KInv, KernelTyped, AssertionsHold
<1>9. Waits(waiting, Senders)'
  BY <1>1, <1>3 DEF KInv, Waits
<1>10. CurrentActive' /\ IdleOnlyWhenNothingToDo'
  BY <1>1 DEF KInv, CurrentActive, IdleOnlyWhenNothingToDo
<1>11. TimeoutsInv' /\ TimedOnlyWaiting' /\ TimedFiltered'
  BY <1>1, TimeoutsKept
<1> QED BY <1>7, <1>8, <1>9, <1>10, <1>11 DEF KInv

LEMMA ConnectInv ==
    ASSUME KInv, NEW p \in Proc, NEW irq \in Irqs, Connect(p, irq)
    PROVE  KInv'
<1>1. /\ Calls(p) /\ handler' = [handler EXCEPT ![irq] = p]
      /\ prio' = IF irq \in OwnIrqs THEN prio ELSE [prio EXCEPT ![p] = P_HANDLER]
      /\ UNCHANGED <<state, filter, waiting, readyq, current, phase, panic, timeoutVars>>
  BY DEF Connect, schedVars
<1>2. handler' \in [Irqs -> Dest] /\ P_HANDLER \in Prio
  BY <1>1 DEF KInv, KernelTyped, Dest, Prio, P_HANDLER, P_LOW
<1>3. CASE irq \in OwnIrqs
  <2>1. UNCHANGED quietVars /\ AssertionsHold'
    BY <1>1, <1>3 DEF quietVars, KInv, AssertionsHold
  <2> QED BY <1>2, <2>1, QuietInv
<1>4. CASE irq \notin OwnIrqs
  BY <1>1, <1>2, <1>4, PriorityInv
<1> QED BY <1>3, <1>4

LEMMA SetPriorityInv ==
    ASSUME KInv, NEW p \in Proc, NEW k, SetPriority(p, k)
    PROVE  KInv'
<1>1. /\ Calls(p) /\ k \in Prio /\ handler' = handler
      /\ prio' = [prio EXCEPT ![p] = k]
      /\ UNCHANGED <<state, filter, waiting, readyq, current, phase, panic, timeoutVars>>
  BY DEF SetPriority, schedVars, irqVars
<1> QED BY <1>1, PriorityInv DEF KInv, KernelTyped

-----------------------------------------------------------------------------
(* Starting up, and calls that involve one process *)

LEMMA StartInv ==
    ASSUME KInv, NEW p \in Proc, Start(p)
    PROVE  KInv'
<1>1. /\ phase = "init" /\ state[p] = "ABSENT"
      /\ state' = [state EXCEPT ![p] = "ACTIVE"]
      /\ readyq' = Enqueue(readyq, p)
      /\ UNCHANGED <<prio, waiting, filter, current, handler, phase, panic, timeoutVars>>
  BY DEF Start, irqVars
<1>2. state \in [Proc -> States] /\ prio \in [Proc -> Prio]
  BY DEF KInv, KernelTyped
<1>3. current \notin Proc /\ p \notin Active
  BY <1>1 DEF KInv, CurrentActive, Active
<1>4. Active \ {current} = Active /\ Active' \ {current} = Active \cup {p}
  BY <1>1, <1>2, <1>3 DEF Active
<1>5. Queued(Enqueue(readyq, p), Active \cup {p})
  BY <1>2, <1>3, <1>4, EnqueueStep DEF KInv, Active
<1>6. Queued(readyq, Active \ {current})'
  BY <1>1, <1>4, <1>5 DEF Queued
<1>7. Senders' = Senders
  BY <1>1, <1>2 DEF Senders, Blocked
<1>8. Waits(waiting, Senders)'
  BY <1>1, <1>7 DEF KInv, Waits
<1>9. KernelTyped' /\ AssertionsHold'
  BY <1>1, <1>2 DEF KInv, KernelTyped, AssertionsHold, States
<1>10. CurrentActive' /\ IdleOnlyWhenNothingToDo'
  BY <1>1, <1>3 DEF KInv, CurrentActive, IdleOnlyWhenNothingToDo
<1>11. TimeoutsInv' /\ TimedOnlyWaiting' /\ TimedFiltered'
  <2>1. \A q \in Timed : state'[q] = state[q]
    BY <1>1, <1>2 DEF KInv, TimedOnlyWaiting, Timed
  <2>2. UNCHANGED timeoutVars /\ filter' = filter
    BY <1>1
  <2> QED BY <2>1, <2>2, TimeoutsKept
<1> QED BY <1>6, <1>8, <1>9, <1>10, <1>11 DEF KInv

LEMMA BootInv ==
    ASSUME KInv, Boot
    PROVE  KInv'
<1>1. /\ phase = "init" /\ phase' = "boot" /\ current' = IDLE
      /\ UNCHANGED <<state, prio, waiting, filter, readyq, handler, panic>>
      /\ UNCHANGED timeoutVars
  BY DEF Boot, irqVars, processVars
<1>2. current \notin Proc /\ IDLE \notin Proc
  BY <1>1, KernelAssumption DEF KInv, CurrentActive
<1>3. Active' = Active /\ Senders' = Senders
  BY <1>1 DEF Active, Senders, Blocked
<1>4. Active \ {current} = Active /\ Active' \ {current'} = Active
  BY <1>1, <1>2, <1>3 DEF Active
<1>5. Queued(readyq, Active \ {current})' /\ Waits(waiting, Senders)'
  BY <1>1, <1>3, <1>4 DEF KInv, Queued, Waits
<1>6. /\ KernelTyped' /\ AssertionsHold'
      /\ CurrentActive' /\ IdleOnlyWhenNothingToDo'
  BY <1>1, <1>2
  DEF KInv, KernelTyped, AssertionsHold, CurrentActive, IdleOnlyWhenNothingToDo, Dest
<1>7. TimeoutsInv' /\ TimedOnlyWaiting' /\ TimedFiltered'
  BY <1>1, TimeoutsKept
<1> QED BY <1>5, <1>6, <1>7 DEF KInv

\* A choice of the next process by one that stays ready, or by idle.
LEMMA RescheduleInv ==
    ASSUME KInv, NEW rq, Queued(rq, Active), ChooseProc(rq), phase' = "run",
           UNCHANGED <<processVars, irqVars, panic, timeoutVars>>
    PROVE  KInv'
<1>1. /\ UNCHANGED <<state, prio, waiting, filter, handler, panic>>
      /\ UNCHANGED timeoutVars
  BY DEF processVars, irqVars
<1>2. Active' = Active /\ Senders' = Senders
  BY <1>1 DEF Active, Senders, Blocked
<1>3. /\ Queued(readyq, Active \ {current})' /\ CurrentActive'
      /\ IdleOnlyWhenNothingToDo' /\ current' \in Dest
  BY <1>1, <1>2, Dispatch DEF KInv
<1>4. KernelTyped' /\ AssertionsHold' /\ Waits(waiting, Senders)'
  BY <1>1, <1>2, <1>3 DEF KInv, KernelTyped, AssertionsHold, Waits
<1>5. TimeoutsInv' /\ TimedOnlyWaiting' /\ TimedFiltered'
  BY <1>1, TimeoutsKept
<1> QED BY <1>3, <1>4, <1>5 DEF KInv

\* The current process stops being active: it dies, sends or receives.
LEMMA StopsStep ==
    ASSUME KInv, NEW p \in Proc, Calls(p), NEW how \in States, how # "ACTIVE",
           state' = [state EXCEPT ![p] = how], UNCHANGED <<prio, phase>>,
           ChooseProc(readyq)
    PROVE  /\ Queued(readyq, Active \ {current})' /\ CurrentActive'
           /\ IdleOnlyWhenNothingToDo' /\ current' \in Dest
           /\ state' \in [Proc -> States]
           /\ Senders' = IF how \in {"SENDING", "SENDREC"} THEN Senders \cup {p}
                         ELSE Senders
           /\ \A q \in Timed : q # p /\ state'[q] = state[q]
<1>1. /\ phase = "run" /\ p \notin Timed /\ p \in Active /\ p \notin Senders
      /\ Queued(readyq, Active \ {p})
  BY Caller
<1>2. state \in [Proc -> States]
  BY DEF KInv, KernelTyped
<1>3. Active' = Active \ {p}
  BY <1>2 DEF Active
<1>4. /\ Queued(readyq, Active \ {current})' /\ CurrentActive'
      /\ IdleOnlyWhenNothingToDo' /\ current' \in Dest
  BY <1>1, <1>3, Dispatch DEF KInv
<1>5. Senders' = IF how \in {"SENDING", "SENDREC"} THEN Senders \cup {p} ELSE Senders
  BY <1>1, <1>2 DEF Senders, Blocked
<1>6. \A q \in Timed : q # p /\ state'[q] = state[q]
  BY <1>1, <1>2 DEF Timed
<1> QED BY <1>2, <1>4, <1>5, <1>6

LEMMA ExitInv ==
    ASSUME KInv, NEW p \in Proc, Exit(p)
    PROVE  KInv'
<1>1. /\ Calls(p) /\ state' = [state EXCEPT ![p] = "DEAD"] /\ ChooseProc(readyq)
      /\ UNCHANGED <<prio, phase>>
      /\ UNCHANGED <<filter, waiting, handler, panic>> /\ UNCHANGED timeoutVars
  BY DEF Exit, irqVars
<1>2. /\ Queued(readyq, Active \ {current})' /\ CurrentActive'
      /\ IdleOnlyWhenNothingToDo' /\ current' \in Dest
      /\ state' \in [Proc -> States] /\ Senders' = Senders
      /\ \A q \in Timed : state'[q] = state[q]
  <2>1. "DEAD" \in States /\ "DEAD" # "ACTIVE" /\ "DEAD" \notin {"SENDING", "SENDREC"}
    BY DEF States
  <2> QED BY <1>1, <2>1, StopsStep
<1>3. KernelTyped' /\ AssertionsHold' /\ Waits(waiting, Senders)'
  BY <1>1, <1>2 DEF KInv, KernelTyped, AssertionsHold, Waits
<1>4. TimeoutsInv' /\ TimedOnlyWaiting' /\ TimedFiltered'
  BY <1>1, <1>2, TimeoutsKept
<1> QED BY <1>2, <1>3, <1>4 DEF KInv

\* The current process joins the queue of the process it sends to.
LEMMA QueueSenderInv ==
    ASSUME KInv, NEW p \in Proc, Calls(p), NEW d \in Dest, NEW m,
           NEW how \in {"SENDING", "SENDREC"}, QueueSender(p, d, m, how),
           UNCHANGED <<prio, phase>>, UNCHANGED <<handler, panic>>
    PROVE  KInv'
<1>1. /\ state' = [state EXCEPT ![p] = how] /\ ChooseProc(readyq)
      /\ waiting' = [waiting EXCEPT ![d] = Append(waiting[d], p)]
      /\ filter' = filter /\ UNCHANGED timeoutVars
  BY DEF QueueSender
<1>2. /\ Queued(readyq, Active \ {current})' /\ CurrentActive'
      /\ IdleOnlyWhenNothingToDo' /\ current' \in Dest
      /\ state' \in [Proc -> States] /\ Senders' = Senders \cup {p}
      /\ \A q \in Timed : state'[q] = state[q]
  <2>1. how \in States /\ how # "ACTIVE"
    BY DEF States
  <2> QED BY <1>1, <2>1, StopsStep
<1>3. Waits(waiting', Senders \cup {p})
  <2>1. Waits(waiting, Senders) /\ p \notin Senders
    BY Caller DEF KInv
  <2> QED BY <1>1, <2>1, WaitsAppend
<1>4. Waits(waiting, Senders)'
  BY <1>2, <1>3 DEF Waits
<1>5. KernelTyped' /\ AssertionsHold'
  BY <1>1, <1>2 DEF KInv, KernelTyped, AssertionsHold
<1>6. TimeoutsInv' /\ TimedOnlyWaiting' /\ TimedFiltered'
  BY <1>1, <1>2, TimeoutsKept
<1> QED BY <1>2, <1>4, <1>5, <1>6 DEF KInv

\* The current process waits for a message, without a timeout or with one.
LEMMA BlockStep ==
    ASSUME KInv, NEW p \in Proc, Calls(p), NEW f \in Int, NEW b, Block(p, f, b)
    PROVE  /\ Queued(readyq, Active \ {current})' /\ CurrentActive'
           /\ IdleOnlyWhenNothingToDo' /\ KernelTyped' /\ AssertionsHold'
           /\ Waits(waiting, Senders)'
           /\ \A q \in Timed : /\ q # p
                               /\ state'[q] = state[q] /\ filter'[q] = filter[q]
           /\ state'[p] = "RECEIVING" /\ filter'[p] = f
<1>1. /\ state' = [state EXCEPT ![p] = "RECEIVING"]
      /\ filter' = [filter EXCEPT ![p] = f]
      /\ ChooseProc(readyq)
      /\ UNCHANGED <<prio, phase>> /\ UNCHANGED <<waiting, handler, panic>>
  BY DEF Block, irqVars
<1>2. /\ Queued(readyq, Active \ {current})' /\ CurrentActive'
      /\ IdleOnlyWhenNothingToDo' /\ current' \in Dest
      /\ state' \in [Proc -> States] /\ Senders' = Senders
      /\ \A q \in Timed : q # p /\ state'[q] = state[q]
  <2>1. /\ "RECEIVING" \in States /\ "RECEIVING" # "ACTIVE"
        /\ "RECEIVING" \notin {"SENDING", "SENDREC"}
    BY DEF States
  <2> QED BY <1>1, <2>1, StopsStep
<1>3. state \in [Proc -> States] /\ filter \in [Proc -> Int]
  BY DEF KInv, KernelTyped
<1>4. \A q \in Timed : filter'[q] = filter[q]
  BY <1>1, <1>2, <1>3
<1>5. KernelTyped' /\ AssertionsHold' /\ Waits(waiting, Senders)'
  BY <1>1, <1>2, <1>3 DEF KInv, KernelTyped, AssertionsHold, Waits
<1>6. state'[p] = "RECEIVING" /\ filter'[p] = f
  BY <1>1, <1>3
<1> QED BY <1>2, <1>4, <1>5, <1>6

LEMMA ReceiveWaitInv ==
    ASSUME KInv, NEW p \in Proc, NEW f \in Int, NEW b, ReceiveWait(p, f, b)
    PROVE  KInv'
<1>1. Calls(p) /\ Block(p, f, b) /\ UNCHANGED timeoutVars
  BY DEF ReceiveWait, NoMessage
<1>2. /\ Queued(readyq, Active \ {current})' /\ CurrentActive'
      /\ IdleOnlyWhenNothingToDo' /\ KernelTyped' /\ AssertionsHold'
      /\ Waits(waiting, Senders)'
      /\ \A q \in Timed : state'[q] = state[q] /\ filter'[q] = filter[q]
  BY <1>1, BlockStep
<1>3. TimeoutsInv' /\ TimedOnlyWaiting' /\ TimedFiltered'
  BY <1>1, <1>2, TimeoutsKept
<1> QED BY <1>2, <1>3 DEF KInv

LEMMA ReceiveTimedInv ==
    ASSUME SmallDelays, KInv, NEW p \in Proc, NEW f \in TimedFilters, f \in Int,
           NEW b, NEW ms \in Delays, ReceiveTimed(p, f, b, ms)
    PROVE  KInv'
<1>1. Calls(p)
  BY DEF ReceiveTimed, NoMessage
<1>2. timeout[p] = NO_TIME /\ MaySet(p)
  BY <1>1, Caller, TimeoutsFit DEF Timed, MaySet, KInv, TimeoutsInv
<1>3. SetTimeout(p, ms) /\ Block(p, f, b)
  BY <1>2 DEF ReceiveTimed
<1>4. /\ Queued(readyq, Active \ {current})' /\ CurrentActive'
      /\ IdleOnlyWhenNothingToDo' /\ KernelTyped' /\ AssertionsHold'
      /\ Waits(waiting, Senders)'
      /\ \A q \in Timed : state'[q] = state[q] /\ filter'[q] = filter[q]
      /\ state'[p] = "RECEIVING" /\ filter'[p] = f
  BY <1>1, <1>3, BlockStep
<1>5. TimeoutsInv' /\ Timed' = Timed \cup {p}
  BY <1>2, <1>3, SetTimeoutStep DEF KInv
<1>6. TimedOnlyWaiting' /\ TimedFiltered'
  BY <1>4, <1>5 DEF KInv, TimedOnlyWaiting, TimedFiltered
<1> QED BY <1>4, <1>5, <1>6 DEF KInv

LEMMA YieldInv ==
    ASSUME KInv, IdleYield \/ \E p \in Proc : Yield(p)
    PROVE  KInv'
<1>1. CASE IdleYield
  <2>1. current \notin Proc
    BY <1>1 DEF KInv, CurrentActive, IdleYield
  <2>2. Active \ {current} = Active
    BY <2>1 DEF Active
  <2>3. Queued(readyq, Active)
    BY <2>2 DEF KInv
  <2>4. /\ ChooseProc(readyq) /\ phase' = "run"
        /\ UNCHANGED <<processVars, irqVars, panic, timeoutVars>>
    BY <1>1 DEF IdleYield
  <2> QED BY <2>3, <2>4, RescheduleInv
<1>2. ASSUME NEW p \in Proc, Yield(p) PROVE KInv'
  <2>1. /\ Calls(p) /\ ChooseProc(Enqueue(readyq, p))
        /\ UNCHANGED <<processVars, irqVars, panic, timeoutVars>> /\ phase' = phase
    BY <1>2 DEF Yield
  <2>2. Queued(Enqueue(readyq, p), Active) /\ phase = "run"
    BY <2>1, Caller
  <2> QED BY <2>1, <2>2, RescheduleInv
<1> QED BY <1>1, <1>2

-----------------------------------------------------------------------------
(* Calls that involve two processes *)

\* A sender finds its receiver waiting: the receiver's timeout is cancelled.
LEMMA MeetInv ==
    ASSUME SmallDelays, KInv, NEW p \in Proc, Calls(p), NEW d \in Dest, NEW t,
           Accepts(d, t), Meet(p, d, t)
    PROVE  KInv'
<1>1. /\ Cancel(d)
      /\ state' = [state EXCEPT ![d] = "ACTIVE"]
      /\ ChooseProc(Enqueue(Enqueue(readyq, d), p))
      /\ UNCHANGED <<prio, waiting, filter, handler, phase, panic>>
  BY DEF Meet, irqVars
<1>2. /\ d \in Proc /\ state[d] = "RECEIVING"
      /\ d \notin Active /\ d \notin Senders /\ d # current
  BY Receiver
<1>3. /\ current = p /\ phase = "run" /\ p \in Active
      /\ Queued(readyq, Active \ {p})
  BY Caller
<1>4. state \in [Proc -> States] /\ prio \in [Proc -> Prio] /\ Active \subseteq Proc
  BY DEF KInv, KernelTyped, Active
<1>5. Active' = Active \cup {d} /\ Senders' = Senders
  BY <1>1, <1>2, <1>4 DEF Active, Senders, Blocked
<1>6. Queued(Enqueue(Enqueue(readyq, d), p), Active')
  <2>1. Queued(Enqueue(readyq, d), (Active \ {p}) \cup {d})
    BY <1>2, <1>3, <1>4, EnqueueStep
  <2>2. Queued(Enqueue(Enqueue(readyq, d), p), ((Active \ {p}) \cup {d}) \cup {p})
    BY <1>2, <1>3, <1>4, <2>1, EnqueueStep
  <2>3. ((Active \ {p}) \cup {d}) \cup {p} = Active'
    BY <1>3, <1>5
  <2> QED BY <2>2, <2>3
<1>7. /\ Queued(readyq, Active \ {current})' /\ CurrentActive'
      /\ IdleOnlyWhenNothingToDo' /\ current' \in Dest
  BY <1>1, <1>3, <1>6, Dispatch DEF KInv
<1>8. KernelTyped' /\ AssertionsHold' /\ Waits(waiting, Senders)'
  BY <1>1, <1>2, <1>4, <1>5, <1>7 DEF KInv, KernelTyped, AssertionsHold, States, Waits
<1>9. TimeoutsInv' /\ Timed' = Timed \ {d}
  <2>1. CASE timeout[d] # NO_TIME
    <3>1. d \in Timed /\ CancelTimeout(d)
      BY <1>1, <1>2, <2>1 DEF Cancel, Timed
    <3> QED BY <3>1, CancelTimeoutStep DEF KInv
  <2>2. CASE timeout[d] = NO_TIME
    <3>1. UNCHANGED timeoutVars /\ d \notin Timed
      BY <1>1, <2>2 DEF Cancel, Timed
    <3>2. Timed' = Timed
      BY <3>1 DEF timeoutVars, Timed
    <3>3. TimeoutsInv'
      BY <3>1, <3>2 DEF KInv, timeoutVars, TimeoutsInv, TimesTyped,
                        ArrayMatchesFields, NextTimeIsEarly, TimesFit
    <3> QED BY <3>1, <3>2, <3>3
  <2> QED BY <2>1, <2>2
<1>10. TimedOnlyWaiting' /\ TimedFiltered'
  <2>1. \A q \in Timed' : q \in Timed /\ q # d /\ q \in Proc
    BY <1>9 DEF Timed
  <2>2. \A q \in Timed' : state'[q] = state[q] /\ filter'[q] = filter[q]
    BY <1>1, <1>4, <2>1
  <2> QED BY <2>1, <2>2 DEF KInv, TimedOnlyWaiting, TimedFiltered
<1> QED BY <1>7, <1>8, <1>9, <1>10 DEF KInv

LEMMA SendInv ==
    ASSUME SmallDelays, KInv, NEW p \in Proc, NEW d \in Dest, NEW t,
           SendNow(p, d, t) \/ SendLater(p, d, t) \/ SendrecLater(p, d, t)
    PROVE  KInv'
<1>1. CASE SendNow(p, d, t)
  <2>1. Calls(p) /\ Accepts(d, t)
    BY <1>1 DEF SendNow
  <2>2. d \in Proc
    BY <2>1, Receiver
  <2>3. timeout[d] # NO_TIME => MayCancel(d)
    BY <2>2, ListedIsTimed DEF KInv, TimeoutsInv, MayCancel, Timed
  <2>4. Meet(p, d, t)
    BY <1>1, <2>3 DEF SendNow
  <2> QED BY <2>1, <2>4, MeetInv
<1>2. CASE SendLater(p, d, t)
  <2>1. /\ Calls(p) /\ QueueSender(p, d, [Blank EXCEPT !.type = t], "SENDING")
        /\ UNCHANGED <<prio, phase>> /\ UNCHANGED <<handler, panic>>
    BY <1>2 DEF SendLater, irqVars
  <2> QED BY <2>1, QueueSenderInv
<1>3. CASE SendrecLater(p, d, t)
  <2>1. /\ Calls(p) /\ QueueSender(p, d, [Blank EXCEPT !.type = t], "SENDREC")
        /\ UNCHANGED <<prio, phase>> /\ UNCHANGED <<handler, panic>>
    BY <1>3 DEF SendrecLater, irqVars
  <2> QED BY <2>1, QueueSenderInv
<1> QED BY <1>1, <1>2, <1>3

\* await_reply(p): A and B are the other processes that are active and those
\* that wait to send, when it is called.
LEMMA AwaitReplyStep ==
    ASSUME KernelTyped, UNCHANGED prio, phase' = "run",
           NEW p \in Proc, NEW st \in [Proc -> States], NEW wq, NEW buf, NEW rq,
           NEW A, A = {q \in Proc \ {p} : st[q] = "ACTIVE"}, Queued(rq, A),
           NEW B, B = {q \in Proc \ {p} : st[q] \in {"SENDING", "SENDREC"}},
           Waits(wq, B), wq[p] = waiting[p],
           AwaitReply(p, st, wq, buf, rq)
    PROVE  /\ Queued(readyq, Active \ {current})' /\ CurrentActive'
           /\ IdleOnlyWhenNothingToDo' /\ current' \in Dest
           /\ state' \in [Proc -> States] /\ filter' \in [Proc -> Int]
           /\ Waits(waiting, Senders)'
           /\ \A q \in Proc : q # p /\ st[q] \notin {"SENDING", "SENDREC"} =>
                 state'[q] = st[q] /\ filter'[q] = filter[q]
<1>1. /\ prio \in [Proc -> Prio] /\ filter \in [Proc -> Int]
      /\ A \subseteq Proc /\ p \notin A /\ p \notin B
  BY DEF KernelTyped
<1>2. CASE FirstSender(p, REPLY) # {}
  <2>1. PICK i \in FirstSender(p, REPLY) :
            /\ state' = [st EXCEPT ![p] = "ACTIVE", ![waiting[p][i]] = "ACTIVE"]
            /\ waiting' = [wq EXCEPT ![p] = RemoveAt(wq[p], i)]
            /\ ChooseProc(Enqueue(Enqueue(rq, p), waiting[p][i]))
            /\ UNCHANGED filter
    BY <1>2 DEF AwaitReply
  <2> DEFINE src == waiting[p][i]
  <2>2. i \in DOMAIN wq[p] /\ src = wq[p][i] /\ p \in Dest
    BY DEF FirstSender, Dest
  <2>3. src \in B /\ Waits(waiting', B \ {src})
    <3>1. /\ wq[p][i] \in B
          /\ Waits([wq EXCEPT ![p] = RemoveAt(wq[p], i)], B \ {wq[p][i]})
      <4>1. Waits(wq, B) /\ p \in Dest /\ i \in DOMAIN wq[p]
        BY <2>2
      <4> QED BY <4>1, WaitsRemove
    <3> QED BY <2>1, <2>2, <3>1
  <2>4. src \in Proc /\ src # p /\ src \notin A /\ st[src] \in {"SENDING", "SENDREC"}
    BY <2>3
  <2>5. state' = [st EXCEPT ![p] = "ACTIVE", ![src] = "ACTIVE"]
    BY <2>1
  <2>6. ChooseProc(Enqueue(Enqueue(rq, p), src))
    BY <2>1
  <2> HIDE DEF src
  <2>7. Active' = (A \cup {p}) \cup {src} /\ Senders' = B \ {src}
    BY <2>4, <2>5 DEF Active, Senders, Blocked
  <2>8. Queued(Enqueue(Enqueue(rq, p), src), Active')
    <3>1. Queued(Enqueue(rq, p), A \cup {p})
      BY <1>1, EnqueueStep
    <3>2. Queued(Enqueue(Enqueue(rq, p), src), (A \cup {p}) \cup {src})
      BY <1>1, <2>4, <3>1, EnqueueStep
    <3> QED BY <2>7, <3>2
  <2>9. /\ Queued(readyq, Active \ {current})' /\ CurrentActive'
        /\ IdleOnlyWhenNothingToDo' /\ current' \in Dest
    BY <2>6, <2>8, Dispatch
  <2>10. /\ state' \in [Proc -> States] /\ filter' \in [Proc -> Int]
         /\ Waits(waiting, Senders)'
    <3>1. state' \in [Proc -> States] /\ filter' \in [Proc -> Int]
      BY <1>1, <2>1, <2>5 DEF States
    <3>2. Waits(waiting, Senders)'
      BY <2>3, <2>7 DEF Waits
    <3> QED BY <3>1, <3>2
  <2>11. \A q \in Proc : q # p /\ st[q] \notin {"SENDING", "SENDREC"} =>
            state'[q] = st[q] /\ filter'[q] = filter[q]
    BY <2>1, <2>4, <2>5
  <2> QED BY <2>9, <2>10, <2>11
<1>3. CASE FirstSender(p, REPLY) = {}
  <2>1. /\ state' = [st EXCEPT ![p] = "RECEIVING"]
        /\ filter' = [filter EXCEPT ![p] = REPLY]
        /\ waiting' = wq
        /\ ChooseProc(rq)
    BY <1>3 DEF AwaitReply
  <2>2. Active' = A /\ Senders' = B
    BY <2>1 DEF Active, Senders, Blocked
  <2>3. /\ Queued(readyq, Active \ {current})' /\ CurrentActive'
        /\ IdleOnlyWhenNothingToDo' /\ current' \in Dest
    BY <2>1, <2>2, Dispatch
  <2>4. /\ state' \in [Proc -> States] /\ filter' \in [Proc -> Int]
        /\ Waits(waiting, Senders)'
    BY <1>1, <2>1, <2>2 DEF States, Waits, REPLY
  <2>5. \A q \in Proc : q # p => state'[q] = st[q] /\ filter'[q] = filter[q]
    BY <1>1, <2>1
  <2> QED BY <2>3, <2>4, <2>5
<1> QED BY <1>2, <1>3

LEMMA SendrecNowInv ==
    ASSUME Disciplined, KInv, NEW p \in Proc, NEW d \in Dest,
           NEW t \in SendrecTypes, SendrecNow(p, d, t)
    PROVE  KInv'
<1> DEFINE st == [state EXCEPT ![d] = "ACTIVE"]
           rq == Enqueue(readyq, d)
           A == {q \in Proc \ {p} : st[q] = "ACTIVE"}
           B == {q \in Proc \ {p} : st[q] \in {"SENDING", "SENDREC"}}
<1>1. PICK buf : /\ Calls(p) /\ Accepts(d, t)
                 /\ AwaitReply(p, st, waiting, buf, rq)
                 /\ UNCHANGED <<prio, handler, phase, panic>>
                 /\ UNCHANGED timeoutVars
  BY DEF SendrecNow, irqVars
<1>2. /\ d \in Proc /\ filter[d] \in {ANY, t} /\ d \notin Active /\ d \notin Senders
      /\ d # current
  BY <1>1, Receiver
<1>3. /\ current = p /\ phase = "run" /\ p \in Active /\ p \notin Senders /\ p \notin Timed
      /\ Queued(readyq, Active \ {p}) /\ p \in Dest
  BY <1>1, Caller
<1>4. /\ state \in [Proc -> States] /\ prio \in [Proc -> Prio] /\ Active \subseteq Proc
      /\ KernelTyped
  BY DEF KInv, KernelTyped, Active
<1>5. st \in [Proc -> States]
  BY <1>4 DEF States
<1>6. A = (Active \ {p}) \cup {d} /\ B = Senders
  BY <1>2, <1>3, <1>4 DEF Active, Senders, Blocked
<1>7. Queued(rq, A)
  <2>1. Queued(Enqueue(readyq, d), (Active \ {p}) \cup {d})
    BY <1>2, <1>3, <1>4, EnqueueStep
  <2> QED BY <1>6, <2>1
<1>8. Waits(waiting, B)
  BY <1>6 DEF KInv
<1>9. \A q \in Timed : q \in Proc /\ q # p /\ st[q] \notin {"SENDING", "SENDREC"}
                       /\ st[q] = state[q]
  <2>1. d \notin Timed
    BY <1>2, NoTimeout
  <2>2. \A q \in Timed : q \in Proc /\ q # p /\ q # d /\ state[q] = "RECEIVING"
    BY <1>3, <2>1 DEF KInv, TimedOnlyWaiting, Timed
  <2> QED BY <1>4, <2>2
<1>10. UNCHANGED prio /\ phase' = "run"
  BY <1>1, <1>3
<1> HIDE DEF st, rq, A, B
<1>11. /\ Queued(readyq, Active \ {current})' /\ CurrentActive'
       /\ IdleOnlyWhenNothingToDo' /\ current' \in Dest
       /\ state' \in [Proc -> States] /\ filter' \in [Proc -> Int]
       /\ Waits(waiting, Senders)'
       /\ \A q \in Proc : q # p /\ st[q] \notin {"SENDING", "SENDREC"} =>
             state'[q] = st[q] /\ filter'[q] = filter[q]
  <2>1. /\ A = {q \in Proc \ {p} : st[q] = "ACTIVE"}
        /\ B = {q \in Proc \ {p} : st[q] \in {"SENDING", "SENDREC"}}
    BY DEF A, B
  <2> QED BY <1>1, <1>4, <1>5, <1>7, <1>8, <1>10, <2>1, AwaitReplyStep
<1>12. KernelTyped' /\ AssertionsHold'
  BY <1>1, <1>11 DEF KInv, KernelTyped, AssertionsHold
<1>13. TimeoutsInv' /\ TimedOnlyWaiting' /\ TimedFiltered'
  BY <1>1, <1>9, <1>11, TimeoutsKept
<1> QED BY <1>11, <1>12, <1>13 DEF KInv

LEMMA ReceiveSentInv ==
    ASSUME KInv, NEW p \in Proc, NEW f, NEW b, ReceiveSent(p, f, b)
    PROVE  KInv'
<1>1. PICK i \in Sender(p, f) :
          /\ state[waiting[p][i]] = "SENDING"
          /\ state' = [state EXCEPT ![waiting[p][i]] = "ACTIVE"]
          /\ waiting' = Taken(p, i)
          /\ ChooseProc(Enqueue(Enqueue(readyq, p), waiting[p][i]))
  BY DEF ReceiveSent
<1>2. /\ Calls(p) /\ UNCHANGED <<prio, filter, handler, phase, panic>>
      /\ UNCHANGED timeoutVars
  BY DEF ReceiveSent, irqVars
<1> DEFINE src == waiting[p][i]
<1>3. /\ current = p /\ phase = "run" /\ p \in Active /\ p \in Dest
      /\ Queued(Enqueue(readyq, p), Active)
  BY <1>2, Caller
<1>4. i \in DOMAIN waiting[p]
  BY DEF Sender, FirstSender
<1>5. src \in Senders /\ Waits(waiting', Senders \ {src})
  BY <1>1, <1>3, <1>4, WaitsRemove DEF KInv, Taken
<1>6. state' = [state EXCEPT ![src] = "ACTIVE"] /\ state[src] = "SENDING"
  BY <1>1
<1>7. ChooseProc(Enqueue(Enqueue(readyq, p), src))
  BY <1>1
<1> HIDE DEF src
<1>8. /\ state \in [Proc -> States] /\ prio \in [Proc -> Prio] /\ Active \subseteq Proc
      /\ KernelTyped
  BY DEF KInv, KernelTyped, Active
<1>9. /\ Active' = Active \cup {src} /\ Senders' = Senders \ {src}
      /\ src \in Proc /\ src \notin Active
  BY <1>5, <1>6, <1>8 DEF Active, Senders, Blocked
<1>10. Queued(Enqueue(Enqueue(readyq, p), src), Active')
  BY <1>3, <1>8, <1>9, EnqueueStep
<1>11. /\ Queued(readyq, Active \ {current})' /\ CurrentActive'
       /\ IdleOnlyWhenNothingToDo' /\ current' \in Dest
  BY <1>2, <1>3, <1>7, <1>8, <1>10, Dispatch
<1>12. KernelTyped' /\ AssertionsHold' /\ Waits(waiting, Senders)'
  BY <1>2, <1>5, <1>6, <1>8, <1>9, <1>11 DEF KInv, KernelTyped, AssertionsHold, States, Waits
<1>13. TimeoutsInv' /\ TimedOnlyWaiting' /\ TimedFiltered'
  <2>1. \A q \in Timed : state'[q] = state[q]
    BY <1>6, <1>8 DEF KInv, TimedOnlyWaiting, Timed
  <2> QED BY <1>2, <2>1, TimeoutsKept
<1> QED BY <1>11, <1>12, <1>13 DEF KInv

LEMMA ReceiveCallInv ==
    ASSUME KInv, NEW p \in Proc, NEW f, NEW b, ReceiveCall(p, f, b)
    PROVE  KInv'
<1>1. PICK i \in Sender(p, f) :
          /\ state[waiting[p][i]] # "SENDING"
          /\ IF state[waiting[p][i]] = "SENDREC"
             THEN /\ AwaitReply(waiting[p][i], state, Taken(p, i),
                                Deliver(NewBuffer(p, b), p, waiting[p][i]),
                                Enqueue(readyq, p))
                  /\ UNCHANGED <<prio, pending, irqVars, phase, panic, timeoutVars>>
             ELSE Panic("Bad state in receive()")
  BY DEF ReceiveCall
<1> DEFINE src == waiting[p][i]
           wq == Taken(p, i)
           buf == Deliver(NewBuffer(p, b), p, src)
           rq == Enqueue(readyq, p)
<1>2. Calls(p)
  BY DEF ReceiveCall
<1>3. /\ current = p /\ phase = "run" /\ p \in Active /\ p \in Dest
      /\ Queued(rq, Active) /\ p \notin Senders
  BY <1>2, Caller
<1>4. i \in DOMAIN waiting[p]
  BY DEF Sender, FirstSender
<1>5. src \in Senders /\ Waits(wq, Senders \ {src})
  BY <1>3, <1>4, WaitsRemove DEF KInv, Taken
<1>6. src \in Proc /\ src # p /\ state[src] = "SENDREC"
  BY <1>1, <1>3, <1>5 DEF Senders, Blocked
<1>7. /\ AwaitReply(src, state, wq, buf, rq)
      /\ UNCHANGED <<prio, handler, phase, panic>> /\ UNCHANGED timeoutVars
  BY <1>1, <1>6 DEF irqVars
<1>8. wq[src] = waiting[src]
  BY <1>6 DEF Taken, KInv, Waits, Dest
<1> HIDE DEF src, wq, buf, rq
<1>9. state \in [Proc -> States] /\ KernelTyped
  BY DEF KInv, KernelTyped
<1>10. /\ Active = {q \in Proc \ {src} : state[q] = "ACTIVE"}
       /\ Senders \ {src} = {q \in Proc \ {src} : state[q] \in {"SENDING", "SENDREC"}}
  BY <1>6 DEF Active, Senders, Blocked
<1>11. UNCHANGED prio /\ phase' = "run"
  BY <1>3, <1>7
<1>12. /\ Queued(readyq, Active \ {current})' /\ CurrentActive'
       /\ IdleOnlyWhenNothingToDo' /\ current' \in Dest
       /\ state' \in [Proc -> States] /\ filter' \in [Proc -> Int]
       /\ Waits(waiting, Senders)'
       /\ \A q \in Proc : q # src /\ state[q] \notin {"SENDING", "SENDREC"} =>
             state'[q] = state[q] /\ filter'[q] = filter[q]
  BY <1>3, <1>5, <1>6, <1>7, <1>8, <1>9, <1>10, <1>11, AwaitReplyStep
<1>13. KernelTyped' /\ AssertionsHold'
  BY <1>7, <1>12 DEF KInv, KernelTyped, AssertionsHold
<1>14. TimeoutsInv' /\ TimedOnlyWaiting' /\ TimedFiltered'
  <2>1. \A q \in Timed : q \in Proc /\ q # src /\ state[q] \notin {"SENDING", "SENDREC"}
    BY <1>6 DEF KInv, TimedOnlyWaiting, Timed
  <2> QED BY <1>7, <1>12, <2>1, TimeoutsKept
<1> QED BY <1>12, <1>13, <1>14 DEF KInv

-----------------------------------------------------------------------------
(* The clock and the interrupts *)

\* mini_tick() makes several processes ready, each in its own queue.
LEMMA FireStep ==
    ASSUME prio \in [Proc -> Prio], NEW A, Queued(readyq, A),
           NEW E, E \cap A = {}, NEW f, Lists(f, E), Fire(f)
    PROVE  Queued(readyq', A \cup E)
<1>1. ToSet(f) = E
  BY DEF Lists
<1> DEFINE F(k) == FiredAt(f, k)
<1>2. PICK a \in InOrder(F(0), f), b \in InOrder(F(1), f), c \in InOrder(F(2), f) :
          readyq' = [k \in Prio |-> readyq[k] \o (CASE k = 0 -> a
                                                   [] k = 1 -> b
                                                   [] k = 2 -> c)]
  BY DEF Fire
<1>3. \A k \in Prio : F(k) \in SUBSET E
  BY <1>1 DEF FiredAt
<1>4. Prio = {0, 1, 2}
  BY DEF Prio, P_LOW
<1>5. Lists(a, F(0)) /\ Lists(b, F(1)) /\ Lists(c, F(2))
  <2>1. F(0) \in SUBSET E /\ F(1) \in SUBSET E /\ F(2) \in SUBSET E
    BY <1>3, <1>4
  <2> HIDE DEF F
  <2> QED BY <2>1, ListsInOrder
<1>6. ASSUME NEW k \in Prio, NEW x, Lists(x, F(k)), readyq'[k] = readyq[k] \o x
      PROVE  Lists(readyq'[k], {q \in A \cup E : prio[q] = k})
  <2> DEFINE S == {q \in A : prio[q] = k}
             T == F(k)
  <2>1. Lists(readyq[k], S)
    BY DEF Queued
  <2>2. S \cap T = {} /\ {q \in A \cup E : prio[q] = k} = S \cup T
    BY <1>1 DEF FiredAt
  <2>3. Lists(x, T)
    BY <1>6
  <2> HIDE DEF S, T
  <2>4. Lists(readyq[k] \o x, S \cup T)
    BY <2>1, <2>2, <2>3, ListsConcat
  <2> QED BY <1>6, <2>2, <2>4
<1>7. /\ readyq'[0] = readyq[0] \o a
      /\ readyq'[1] = readyq[1] \o b
      /\ readyq'[2] = readyq[2] \o c
      /\ readyq' = [k \in Prio |-> readyq'[k]]
  BY <1>2, <1>4
<1>8. \A k \in Prio : Lists(readyq'[k], {q \in A \cup E : prio[q] = k})
  <2> HIDE DEF F
  <2>1. Lists(readyq'[0], {q \in A \cup E : prio[q] = 0})
    BY <1>4, <1>5, <1>6, <1>7
  <2>2. Lists(readyq'[1], {q \in A \cup E : prio[q] = 1})
    BY <1>4, <1>5, <1>6, <1>7
  <2>3. Lists(readyq'[2], {q \in A \cup E : prio[q] = 2})
    BY <1>4, <1>5, <1>6, <1>7
  <2> QED BY <1>4, <2>1, <2>2, <2>3
<1> QED BY <1>7, <1>8 DEF Queued

LEMMA TickCallInv ==
    ASSUME SmallDelays, KInv, NEW p \in Proc, TickCall(p)
    PROVE  KInv'
<1>1. Calls(p)
  BY DEF TickCall
<1>2. MayTick
  BY ListedIsTimed DEF KInv, TimeoutsInv, MayTick, Timed
<1>3. PICK f : MiniTick(TICK, f) /\ Fire(f)
  BY <1>2 DEF TickCall
<1>4. UNCHANGED <<prio, waiting, filter, current, handler, phase, panic>>
  BY <1>2 DEF TickCall, irqVars
<1> DEFINE E == {q \in Timed : timeout[q] < ticks}
<1>5. TimeoutsInv' /\ Lists(f, E) /\ Timed' = Timed \ E
  <2>1. TimeoutsInv
    BY DEF KInv
  <2>2. /\ TimeoutsInv'
        /\ Lists(f, {q \in Timed : timeout[q] < ticks})
        /\ Timed' = {q \in Timed : ~(timeout[q] < ticks)}
    BY <1>3, <2>1, MiniTickStep
  <2> QED BY <2>2
<1>6. /\ current = p /\ p \in Active /\ p \notin Timed /\ phase = "run"
      /\ Queued(readyq, Active \ {p})
  BY <1>1, Caller
<1>7. state \in [Proc -> States] /\ prio \in [Proc -> Prio]
  BY DEF KInv, KernelTyped
<1>8. \A q \in E : q \in Proc /\ state[q] = "RECEIVING" /\ q # p
  BY <1>6 DEF KInv, TimedOnlyWaiting, Timed
<1> HIDE DEF E
<1>9. /\ state' = [q \in Proc |-> IF q \in E THEN "ACTIVE" ELSE state[q]]
  <2>1. ToSet(f) = E
    BY <1>5 DEF Lists
  <2> QED BY <1>3, <2>1 DEF Fire
<1>10. Active' = Active \cup E /\ Senders' = Senders
  BY <1>8, <1>9 DEF Active, Senders, Blocked
<1>11. Queued(readyq, Active \ {current})'
  <2> DEFINE A == Active \ {p}
  <2>1. E \cap A = {} /\ Active' \ {p} = A \cup E
    BY <1>8, <1>10 DEF Active
  <2>2. Queued(readyq, A)
    BY <1>6
  <2> HIDE DEF A
  <2>3. Queued(readyq', A \cup E)
    BY <1>3, <1>5, <1>7, <2>1, <2>2, FireStep
  <2> QED BY <1>4, <1>6, <2>1, <2>3 DEF Queued
<1>12. KernelTyped' /\ AssertionsHold' /\ Waits(waiting, Senders)'
  <2>1. state' \in [Proc -> States]
    BY <1>7, <1>9 DEF States
  <2> QED BY <1>4, <1>10, <2>1 DEF KInv, KernelTyped, AssertionsHold, Waits
<1>13. CurrentActive' /\ IdleOnlyWhenNothingToDo'
  BY <1>4, <1>6, <1>8, <1>9, KernelAssumption
  DEF KInv, CurrentActive, IdleOnlyWhenNothingToDo
<1>14. TimedOnlyWaiting' /\ TimedFiltered'
  <2>1. \A q \in Timed' : q \in Timed /\ q \in Proc /\ q \notin E
    BY <1>5 DEF Timed
  <2>2. \A q \in Timed' : state'[q] = state[q] /\ filter'[q] = filter[q]
    BY <1>4, <1>9, <2>1
  <2> QED BY <2>1, <2>2 DEF KInv, TimedOnlyWaiting, TimedFiltered
<1> QED BY <1>5, <1>11, <1>12, <1>13, <1>14 DEF KInv

LEMMA InterruptInv ==
    ASSUME Disciplined, KInv, NEW d \in Dest, Accepts(d, INTERRUPT), phase = "run",
           state' = [state EXCEPT ![d] = "ACTIVE"],
           IF Preempts
           THEN ChooseProc(EnqueueCurrent(Enqueue(readyq, d)))
           ELSE readyq' = Enqueue(readyq, d) /\ UNCHANGED current,
           UNCHANGED <<prio, phase>>,
           UNCHANGED <<waiting, filter, handler, panic>>, UNCHANGED timeoutVars
    PROVE  KInv'
<1>1. /\ d \in Proc /\ state[d] = "RECEIVING" /\ filter[d] \in {ANY, INTERRUPT}
      /\ d \notin Active /\ d \notin Senders /\ d # current
  BY Receiver
<1>2. /\ state \in [Proc -> States] /\ prio \in [Proc -> Prio] /\ Active \subseteq Proc
      /\ current \in Dest /\ KernelTyped
  BY DEF KInv, KernelTyped, Active, CurrentActive
<1>3. Active' = Active \cup {d} /\ Senders' = Senders
  BY <1>1, <1>2 DEF Active, Senders, Blocked
<1>4. Queued(Enqueue(readyq, d), (Active \ {current}) \cup {d})
  BY <1>1, <1>2, EnqueueStep DEF KInv
<1>5. current # IDLE => current \in Active
  BY <1>2 DEF KInv, CurrentActive, Active, Dest
<1>6. /\ Queued(readyq, Active \ {current})' /\ CurrentActive'
      /\ IdleOnlyWhenNothingToDo' /\ current' \in Dest
  <2>1. CASE Preempts /\ current = IDLE
    <3>1. (Active \ {current}) \cup {d} = Active'
      BY <1>2, <1>3, <2>1, KernelAssumption
    <3>2. ChooseProc(Enqueue(readyq, d)) /\ phase' = "run"
      BY <2>1 DEF EnqueueCurrent
    <3>3. Queued(Enqueue(readyq, d), Active')
      BY <1>4, <3>1
    <3> QED BY <1>2, <3>2, <3>3, Dispatch
  <2>2. CASE Preempts /\ current # IDLE
    <3>1. ChooseProc(Enqueue(Enqueue(readyq, d), current)) /\ phase' = "run"
      BY <2>2 DEF EnqueueCurrent
    <3>2. Queued(Enqueue(Enqueue(readyq, d), current),
                 ((Active \ {current}) \cup {d}) \cup {current})
      BY <1>1, <1>2, <1>4, <1>5, <2>2, EnqueueStep
    <3>3. ((Active \ {current}) \cup {d}) \cup {current} = Active'
      BY <1>3, <1>5, <2>2
    <3>4. Queued(Enqueue(Enqueue(readyq, d), current), Active')
      BY <3>2, <3>3
    <3> QED BY <1>2, <3>1, <3>4, Dispatch
  <2>3. CASE ~Preempts
    <3>1. current # IDLE
      BY <2>3 DEF Preempts, CurrentPrio, P_IDLE, P_HANDLER
    <3>2. readyq' = Enqueue(readyq, d) /\ current' = current
      BY <2>3
    <3>3. Active' \ {current'} = (Active \ {current}) \cup {d}
      BY <1>1, <1>3, <3>2
    <3>4. Queued(readyq, Active \ {current})'
      BY <1>4, <3>2, <3>3 DEF Queued
    <3>5. CurrentActive' /\ IdleOnlyWhenNothingToDo'
      BY <1>1, <1>2, <3>1, <3>2 DEF KInv, CurrentActive, IdleOnlyWhenNothingToDo
    <3> QED BY <1>2, <3>2, <3>4, <3>5
  <2> QED BY <2>1, <2>2, <2>3
<1>7. KernelTyped' /\ AssertionsHold' /\ Waits(waiting, Senders)'
  BY <1>1, <1>2, <1>3, <1>6 DEF KInv, KernelTyped, AssertionsHold, States, Waits
<1>8. TimeoutsInv' /\ TimedOnlyWaiting' /\ TimedFiltered'
  <2>1. d \notin Timed
    BY <1>1, NoTimeout
  <2>2. \A q \in Timed : state'[q] = state[q] /\ filter'[q] = filter[q]
    BY <1>2, <2>1 DEF Timed
  <2> QED BY <2>2, TimeoutsKept
<1> QED BY <1>6, <1>7, <1>8 DEF KInv

LEMMA HandleIrqInv ==
    ASSUME Disciplined, KInv, NEW irq \in Irqs, HandleIrq(irq)
    PROVE  KInv'
<1> DEFINE d == handler[irq]
<1>1. /\ phase = "run" /\ Interrupt(d)
      /\ UNCHANGED <<prio, waiting, filter, handler, phase, panic>>
      /\ UNCHANGED timeoutVars
  BY DEF HandleIrq, Raise
<1>2. d \in Dest
  BY DEF KInv, KernelTyped
<1> HIDE DEF d
<1>3. CASE Accepts(d, INTERRUPT)
  <2>1. /\ state' = [state EXCEPT ![d] = "ACTIVE"]
        /\ IF Preempts
           THEN ChooseProc(EnqueueCurrent(Enqueue(readyq, d)))
           ELSE readyq' = Enqueue(readyq, d) /\ UNCHANGED current
    BY <1>1, <1>3 DEF Interrupt
  <2>2. UNCHANGED <<prio, phase>> /\ UNCHANGED <<waiting, filter, handler, panic>>
    BY <1>1
  <2> QED BY <1>1, <1>2, <1>3, <2>1, <2>2, InterruptInv
<1>4. CASE ~Accepts(d, INTERRUPT)
  <2>1. UNCHANGED quietVars /\ handler' = handler /\ panic' = panic
    BY <1>1, <1>4 DEF Interrupt, quietVars, schedVars
  <2> QED BY <2>1, QuietInv DEF KInv, KernelTyped, AssertionsHold
<1> QED BY <1>3, <1>4

-----------------------------------------------------------------------------
(* The invariant *)

\* The calls that end in a panic() which programs can cause.
LEMMA RefusedInv ==
    ASSUME KInv, NEW p, NEW x,
           \/ LateStart(p) \/ BadDest(p, x) \/ SendrecReply(p, x)
           \/ BadPriority(p, x) \/ BadIrq(x)
    PROVE  KInv'
<1>1. PICK why \in Refusals : Panic(why)
  BY DEF LateStart, BadDest, SendrecReply, BadPriority, BadIrq, Refusals
<1>2. why \notin Assertions
  BY DEF Refusals, Assertions
<1> QED BY <1>1, <1>2, PanicInv

LEMMA ReceivesInv ==
    ASSUME Disciplined, SmallDelays, KInv, NEW p \in Proc,
           Receive(p) \/ ReceiveT(p)
    PROVE  KInv'
<1>1. Filters \subseteq Int /\ TimedFilters \subseteq Int
  BY KernelAssumption DEF ANY
<1>2. CASE Receive(p)
  <2>1. PICK f \in Filters, b \in Buffers :
            \/ ReceiveInterrupt(p, f, b) \/ ReceivePoll(p, f, b)
            \/ ReceiveSent(p, f, b) \/ ReceiveCall(p, f, b) \/ ReceiveWait(p, f, b)
    BY <1>2 DEF Receive
  <2>2. f \in Int
    BY <1>1
  <2> QED BY <2>1, <2>2, ReceiveInterruptInv, ReceiveSentInv, ReceiveCallInv, ReceiveWaitInv
<1>3. CASE ReceiveT(p)
  <2>1. PICK f \in TimedFilters, b \in Buffers :
            \/ ReceiveInterrupt(p, f, b)
            \/ ReceiveSent(p, f, b) \/ ReceiveCall(p, f, b)
            \/ \E ms \in Delays : ReceiveTimed(p, f, b, ms)
    BY <1>3 DEF ReceiveT
  <2>2. f \in Int
    BY <1>1
  <2>3. CASE ReceiveInterrupt(p, f, b) \/ ReceiveSent(p, f, b) \/ ReceiveCall(p, f, b)
    BY <2>3, ReceiveInterruptInv, ReceiveSentInv, ReceiveCallInv
  <2>4. CASE \E ms \in Delays : ReceiveTimed(p, f, b, ms)
    BY <2>2, <2>4, ReceiveTimedInv
  <2> QED BY <2>1, <2>3, <2>4
<1> QED BY <1>2, <1>3

LEMMA KInvNext ==
    ASSUME Disciplined, SmallDelays, KInv, Next
    PROVE  KInv'
<1>1. ASSUME NEW p \in Proc, Start(p) \/ LateStart(p) \/ Yield(p) \/ Exit(p)
      PROVE  KInv'
  BY <1>1, StartInv, RefusedInv, YieldInv, ExitInv
<1>2. ASSUME NEW p \in Proc, Send(p) PROVE KInv'
  <2>1. PICK d \in Dest :
            \/ BadDest(p, d)
            \/ \E t \in SendTypes : SendNow(p, d, t) \/ SendLater(p, d, t)
    BY <1>2 DEF Send
  <2> QED BY <2>1, RefusedInv, SendInv
<1>3. ASSUME NEW p \in Proc, Sendrec(p) PROVE KInv'
  <2>1. PICK d \in Dest, t \in SendrecTypes :
            SendrecReply(p, d) \/ SendrecNow(p, d, t) \/ SendrecLater(p, d, t)
    BY <1>3 DEF Sendrec
  <2> QED BY <2>1, RefusedInv, SendrecNowInv, SendInv
<1>4. ASSUME NEW p \in Proc, Receive(p) \/ ReceiveT(p) PROVE KInv'
  BY <1>4, ReceivesInv
<1>5. ASSUME NEW p \in Proc, TickCall(p) PROVE KInv'
  BY <1>5, TickCallInv
<1>6. ASSUME NEW p \in Proc, Configure(p) PROVE KInv'
  BY <1>6, ConnectInv, EnableIrqInv, SetPriorityInv, RefusedInv DEF Configure
<1>7. CASE Boot \/ IdleYield
  BY <1>7, BootInv, YieldInv
<1>8. ASSUME NEW irq \in Irqs, HandleIrq(irq) \/ BadIrq(irq) PROVE KInv'
  BY <1>8, HandleIrqInv, RefusedInv
<1> QED BY <1>1, <1>2, <1>3, <1>4, <1>5, <1>6, <1>7, <1>8 DEF Next

LEMMA KInvStutter ==
    ASSUME KInv, UNCHANGED vars
    PROVE  KInv'
<1>1. UNCHANGED quietVars /\ handler' = handler /\ panic' = panic
  BY DEF vars, quietVars, processVars, schedVars, irqVars
<1> QED BY <1>1, QuietInv DEF KInv, KernelTyped, AssertionsHold

\* The kernel keeps its invariant, whatever the programs do.
THEOREM Invariance ==
    ASSUME Disciplined, SmallDelays
    PROVE  Spec => []KInv
<1>1. Init => KInv
  BY KInvInit
<1>2. KInv /\ [Next]_vars => KInv'
  BY KInvNext, KInvStutter
<1> QED BY <1>1, <1>2, PTL DEF Spec

-----------------------------------------------------------------------------
(* What follows from it *)

\* Every process is in the queue its state asks for, and in no other: none is
\* lost by the handlers that move it, and none is queued twice.
THEOREM QueuesCorrect ==
    ASSUME Disciplined, SmallDelays
    PROVE  Spec => []QueuesMatchStates
<1>1. ASSUME KInv PROVE QueuesMatchStates
  <2>1. \A k \in Prio : Lists(readyq[k], Ready(k))
    <3>1. \A k \in Prio : Ready(k) = {q \in Active \ {current} : prio[q] = k}
      BY DEF Ready, Active
    <3> QED BY <1>1, <3>1 DEF KInv, Queued
  <2>2. /\ \A d \in Dest : IsInjective(waiting[d])
        /\ \A d, e \in Dest : d # e => ToSet(waiting[d]) \cap ToSet(waiting[e]) = {}
    BY <1>1 DEF KInv, Waits, Lists
  <2>3. \A p \in Proc : Blocked(p) <=> \E d \in Dest : p \in ToSet(waiting[d])
    BY <1>1 DEF KInv, Waits, Senders
  <2> QED BY <1>1, <2>1, <2>2, <2>3 DEF KInv, CurrentActive, QueuesMatchStates
<1>2. KInv => QueuesMatchStates
  BY <1>1
<1> QED BY <1>2, Invariance, PTL

\* Only a waiting process has a timeout set: a receiver that is woken any
\* other way has had its timeout cancelled.
THEOREM TimedOnlyWaitingCorrect ==
    ASSUME Disciplined, SmallDelays
    PROVE  Spec => []TimedOnlyWaiting
<1>1. KInv => TimedOnlyWaiting
  BY DEF KInv
<1> QED BY <1>1, Invariance, PTL

\* The timeout service keeps its invariant within the kernel, whose calls
\* are then proved to respect the assertions of its operations.
THEOREM TimeoutsCorrect ==
    ASSUME Disciplined, SmallDelays
    PROVE  Spec => []TimeoutsInv
<1>1. KInv => TimeoutsInv
  BY DEF KInv
<1> QED BY <1>1, Invariance, PTL

\* The kernel's assertions never fail.
THEOREM AssertionsCorrect ==
    ASSUME Disciplined, SmallDelays
    PROVE  Spec => []AssertionsHold
<1>1. KInv => AssertionsHold
  BY DEF KInv
<1> QED BY <1>1, Invariance, PTL

\* The idle process runs only when no other can.
THEOREM IdleCorrect ==
    ASSUME Disciplined, SmallDelays
    PROVE  Spec => []IdleOnlyWhenNothingToDo
<1>1. KInv => IdleOnlyWhenNothingToDo
  BY DEF KInv
<1> QED BY <1>1, Invariance, PTL

-----------------------------------------------------------------------------
(* Messages: the invariant MInv, which rests on KInv *)

\* The filters a process may wait with.
AllFilters == Filters \cup TimedFilters \cup {ANY, REPLY}

\* The parts of TypeOK that KInv does not imply.
MessagesTyped ==
    /\ pending \in [Proc -> BOOLEAN]
    /\ filter \in [Proc -> AllFilters]
    /\ msgbuf \in [Proc -> Messages \cup {NULL}]
    /\ enabled \subseteq Irqs
    /\ phase \in {"init", "boot", "run"}
    /\ panic \in {"none"} \cup Assertions \cup Refusals

\* The buffer of a process that waits to send holds its message.
SendersHaveMessages == \A q \in Senders : msgbuf[q] \in Messages

\* NoMissedMeeting, for one process.
MeetsNone(p) ==
    state[p] = "RECEIVING" =>
        /\ filter[p] # INTERRUPT => FirstSender(p, filter[p]) = {}
        /\ filter[p] \in {ANY, INTERRUPT} => ~pending[p]

MInv ==
    /\ MessagesTyped
    /\ SendersHaveMessages
    /\ \A p \in Proc : MeetsNone(p)

-----------------------------------------------------------------------------
(* Buffers *)

LEMMA WrittenTyped ==
    ASSUME NEW buf \in [Proc -> Messages \cup {NULL}], NEW p \in Proc,
           NEW m \in Messages
    PROVE  /\ Written(buf, p, m) \in [Proc -> Messages \cup {NULL}]
           /\ \A q \in Proc : q # p => Written(buf, p, m)[q] = buf[q]
BY DEF Written

LEMMA SpecialTyped ==
    ASSUME NEW buf \in [Proc -> Messages \cup {NULL}], NEW p \in Proc,
           NEW t \in {INTERRUPT, TIMEOUT}
    PROVE  /\ Special(buf, p, t) \in [Proc -> Messages \cup {NULL}]
           /\ \A q \in Proc : q # p => Special(buf, p, t)[q] = buf[q]
<1>1. [type |-> t, sender |-> HARDWARE] \in Messages
  BY DEF Messages, Types
<1> QED BY <1>1, WrittenTyped DEF Special

LEMMA DeliverTyped ==
    ASSUME NEW buf \in [Proc -> Messages \cup {NULL}], NEW p \in Proc,
           NEW src \in Proc, buf[src] \in Messages
    PROVE  /\ Deliver(buf, p, src) \in [Proc -> Messages \cup {NULL}]
           /\ \A q \in Proc : q # p => Deliver(buf, p, src)[q] = buf[q]
<1>1. [type |-> buf[src].type, sender |-> src] \in Messages
  BY DEF Messages
<1> QED BY <1>1, WrittenTyped DEF Deliver

LEMMA NewBufferTyped ==
    ASSUME MInv, NEW p \in Proc, NEW b
    PROVE  /\ NewBuffer(p, b) \in [Proc -> Messages \cup {NULL}]
           /\ \A q \in Proc : q # p => NewBuffer(p, b)[q] = msgbuf[q]
<1>1. Blank \in Messages
  BY DEF Blank, Messages, Types
<1> QED BY <1>1 DEF NewBuffer, MInv, MessagesTyped

\* The message that a sender puts in its buffer.
LEMMA OwnMessage ==
    ASSUME MInv, NEW p \in Proc, NEW t \in SendTypes \cup SendrecTypes
    PROVE  /\ [Blank EXCEPT !.type = t] \in Messages
           /\ [msgbuf EXCEPT ![p] = [Blank EXCEPT !.type = t]]
                  \in [Proc -> Messages \cup {NULL}]
<1>1. [Blank EXCEPT !.type = t] \in Messages
  BY DEF Blank, Messages, Types
<1> QED BY <1>1 DEF MInv, MessagesTyped

\* Who stands in a queue, by KInv.
LEMMA InQueue ==
    ASSUME KInv, MInv, NEW d \in Dest, NEW i \in DOMAIN waiting[d]
    PROVE  /\ waiting[d][i] \in Senders /\ waiting[d][i] \in Proc
           /\ waiting[d][i] \in ToSet(waiting[d])
           /\ msgbuf[waiting[d][i]] \in Messages
BY DEF KInv, Waits, ToSet, MInv, SendersHaveMessages, Senders

\* A receiver that already waited, with all it looks at unchanged.
LEMMA SameQueue ==
    ASSUME MInv, NEW p \in Proc, state[p] = "RECEIVING", filter'[p] = filter[p],
           waiting'[p] = waiting[p], pending'[p] = pending[p],
           \A q \in ToSet(waiting[p]) : msgbuf'[q] = msgbuf[q]
    PROVE  MeetsNone(p)'
<1>1. MeetsNone(p)
  BY DEF MInv
<1>2. \A i \in DOMAIN waiting[p] : msgbuf'[waiting[p][i]] = msgbuf[waiting[p][i]]
  BY DEF ToSet
<1>3. FirstSender(p, filter[p])' = FirstSender(p, filter[p])
  BY <1>2 DEF FirstSender, Matches
<1> QED BY <1>1, <1>3 DEF MeetsNone

\* A step that makes no receiver and keeps all queues and messages.
LEMMA StillMeetsNone ==
    ASSUME KInv, MInv, NEW p \in Proc,
           state'[p] = "RECEIVING" =>
               /\ state[p] = "RECEIVING" /\ filter'[p] = filter[p]
               /\ waiting'[p] = waiting[p] /\ pending'[p] = pending[p],
           \A q \in Senders : msgbuf'[q] = msgbuf[q]
    PROVE  MeetsNone(p)'
<1>1. CASE state'[p] = "RECEIVING"
  <2>1. \A q \in ToSet(waiting[p]) : msgbuf'[q] = msgbuf[q]
    BY InQueue DEF Dest, ToSet
  <2> QED BY <1>1, <2>1, SameQueue
<1>2. CASE state'[p] # "RECEIVING"
  BY <1>2 DEF MeetsNone
<1> QED BY <1>1, <1>2

-----------------------------------------------------------------------------
(* Steps that touch no message *)

LEMMA NoMessageStep ==
    ASSUME KInv, MInv, UNCHANGED <<pending, filter, msgbuf, waiting>>,
           \A q \in Proc : state'[q] = state[q] \/ state'[q] \in {"ACTIVE", "DEAD"},
           enabled' \subseteq Irqs, phase' \in {"init", "boot", "run"}, panic' \in {"none"} \cup Assertions \cup Refusals
    PROVE  MInv'
<1>1. MessagesTyped'
  BY DEF MInv, MessagesTyped
<1>2. Senders' \subseteq Senders
  BY DEF Senders, Blocked
<1>3. SendersHaveMessages'
  BY <1>2 DEF MInv, SendersHaveMessages
<1>4. \A p \in Proc : MeetsNone(p)'
  BY StillMeetsNone
<1> QED BY <1>1, <1>3, <1>4 DEF MInv

LEMMA MInvInit ==
    ASSUME Init
    PROVE  MInv
<1>1. MessagesTyped
  <2>1. pending \in [Proc -> BOOLEAN]
    BY Zenon DEF Init
  <2>2. filter \in [Proc -> AllFilters] /\ msgbuf \in [Proc -> Messages \cup {NULL}]
    BY DEF Init, AllFilters
  <2>3. enabled \subseteq Irqs /\ phase = "init" /\ panic = "none"
    BY DEF Init
  <2> QED BY <2>1, <2>2, <2>3 DEF MessagesTyped
<1>2. Senders = {} /\ \A p \in Proc : MeetsNone(p)
  BY DEF Init, Senders, Blocked, MeetsNone
<1> QED BY <1>1, <1>2 DEF MInv, SendersHaveMessages

LEMMA QuietCalls ==
    ASSUME KInv, MInv, NEW p \in Proc,
           \/ Start(p) \/ Yield(p) \/ Exit(p)
           \/ \E irq \in Irqs : Connect(p, irq) \/ EnableIrq(p, irq)
           \/ \E k \in Prios : SetPriority(p, k)
    PROVE  MInv'
<1>1. UNCHANGED <<pending, filter, msgbuf, waiting, panic>>
  BY DEF Start, Yield, Exit, Connect, EnableIrq, SetPriority,
         processVars, irqVars
<1>2. \A q \in Proc : state'[q] = state[q] \/ state'[q] \in {"ACTIVE", "DEAD"}
  BY DEF Start, Yield, Exit, Connect, EnableIrq, SetPriority,
         processVars, KInv, KernelTyped
<1>3. phase' \in {"init", "boot", "run"}
  BY DEF Start, Yield, Exit, Connect, EnableIrq, SetPriority,
         MInv, MessagesTyped
<1>4. enabled' \subseteq Irqs
  BY DEF Start, Yield, Exit, Connect, EnableIrq, SetPriority,
         irqVars, MInv, MessagesTyped
<1>5. panic' \in {"none"} \cup Assertions \cup Refusals
  BY <1>1 DEF MInv, MessagesTyped
<1> QED BY <1>1, <1>2, <1>3, <1>4, <1>5, NoMessageStep

LEMMA PanicMessages ==
    ASSUME KInv, MInv, NEW why \in Assertions \cup Refusals, Panic(why)
    PROVE  MInv'
BY NoMessageStep DEF Panic, processVars, irqVars, MInv, MessagesTyped

-----------------------------------------------------------------------------
(* Steps that write buffers *)

\* What a step must keep, when the states and buffers of several change.
LEMMA MessageStep ==
    ASSUME KInv, MInv, pending' \in [Proc -> BOOLEAN], filter' \in [Proc -> AllFilters],
           msgbuf' \in [Proc -> Messages \cup {NULL}], enabled' \subseteq Irqs,
           phase' = phase, panic' = panic,
           \A q \in Senders' : q \in Senders /\ msgbuf'[q] = msgbuf[q],
           \A q \in Proc : MeetsNone(q)'
    PROVE  MInv'
<1>1. MessagesTyped'
  BY DEF MInv, MessagesTyped
<1>2. SendersHaveMessages'
  BY DEF MInv, SendersHaveMessages
<1> QED BY <1>1, <1>2 DEF MInv

\* The current process takes a pending interrupt, or nothing, and goes on.
LEMMA OwnBufferStep ==
    ASSUME KInv, MInv, NEW p \in Proc, NEW f, NEW b,
           ReceiveInterrupt(p, f, b) \/ ReceivePoll(p, f, b)
    PROVE  MInv'
<1>1. /\ Calls(p) /\ UNCHANGED <<state, waiting, filter, enabled, phase, panic>>
      /\ \E t \in {INTERRUPT, TIMEOUT} : msgbuf' = Special(NewBuffer(p, b), p, t)
      /\ pending' \in [Proc -> BOOLEAN] /\ \A q \in Proc : q # p => pending'[q] = pending[q]
  BY DEF ReceiveInterrupt, ReceivePoll, NoMessage, MInv, MessagesTyped, irqVars
<1>2. /\ msgbuf' \in [Proc -> Messages \cup {NULL}]
      /\ \A q \in Proc : q # p => msgbuf'[q] = msgbuf[q]
  BY <1>1, NewBufferTyped, SpecialTyped
<1>3. state[p] = "ACTIVE" /\ p \notin Senders
  BY <1>1, Caller
<1>4. Senders' = Senders /\ \A q \in Senders : msgbuf'[q] = msgbuf[q]
  BY <1>1, <1>2, <1>3 DEF Senders, Blocked
<1>5. \A q \in Proc : MeetsNone(q)'
  <2> SUFFICES ASSUME NEW q \in Proc PROVE MeetsNone(q)'
    OBVIOUS
  <2>1. state'[q] = "RECEIVING" =>
            /\ state[q] = "RECEIVING" /\ filter'[q] = filter[q]
            /\ waiting'[q] = waiting[q] /\ pending'[q] = pending[q]
    BY <1>1, <1>3
  <2> QED BY <1>4, <2>1, StillMeetsNone
<1> QED BY <1>1, <1>2, <1>4, <1>5, MessageStep DEF MInv, MessagesTyped

\* The receiver that a sender might have met does not accept the message.
LEMMA QueueSenderMessages ==
    ASSUME KInv, MInv, NEW p \in Proc, Calls(p), NEW d \in Dest,
           NEW t \in SendTypes \cup SendrecTypes, ~Accepts(d, t), NEW how \in {"SENDING", "SENDREC"},
           QueueSender(p, d, [Blank EXCEPT !.type = t], how),
           UNCHANGED <<pending, enabled, phase, panic>>
    PROVE  MInv'
<1> DEFINE m == [Blank EXCEPT !.type = t]
<1>1. /\ state' = [state EXCEPT ![p] = how]
      /\ waiting' = [waiting EXCEPT ![d] = Append(waiting[d], p)]
      /\ msgbuf' = [msgbuf EXCEPT ![p] = m]
      /\ filter' = filter
  BY DEF QueueSender
<1>2. m \in Messages /\ m.type = t
  BY OwnMessage DEF Blank
<1>3. /\ state[p] = "ACTIVE" /\ p \notin Senders /\ state \in [Proc -> States]
      /\ msgbuf \in [Proc -> Messages \cup {NULL}]
  BY Caller DEF KInv, KernelTyped, MInv, MessagesTyped
<1> HIDE DEF m
<1>4. MessagesTyped'
  BY <1>1, <1>2, <1>3 DEF MInv, MessagesTyped
<1>5. \A q \in Senders : msgbuf'[q] = msgbuf[q]
  BY <1>1, <1>3 DEF Senders
<1>6. Senders' = Senders \cup {p}
  BY <1>1, <1>3 DEF Senders, Blocked
<1>7. SendersHaveMessages'
  BY <1>1, <1>2, <1>3, <1>5, <1>6 DEF MInv, SendersHaveMessages
<1>8. ASSUME NEW q \in Proc PROVE MeetsNone(q)'
  <2>1. CASE q # d
    <3>1. waiting'[q] = waiting[q] /\ (state'[q] = "RECEIVING" => state[q] = "RECEIVING")
      BY <1>1, <1>3, <2>1 DEF KInv, Waits, Dest
    <3> QED BY <1>1, <1>5, <3>1, StillMeetsNone
  <2>2. CASE q = d /\ state'[q] = "RECEIVING"
    <3>1. state[q] = "RECEIVING" /\ MeetsNone(q)
      BY <1>1, <1>3, <2>2 DEF MInv
    <3>2. filter[q] # ANY /\ filter[q] # t
      BY <2>2, <3>1, KernelAssumption DEF Accepts, StateOf
    <3>3. /\ waiting'[q] = Append(waiting[q], p)
          /\ Len(waiting[q]) \in Nat /\ DOMAIN waiting[q] = 1 .. Len(waiting[q])
      <4>1. Lists(waiting[q], ToSet(waiting[q]))
        BY <2>2 DEF KInv, Waits
      <4> QED BY <1>1, <2>2, <4>1, ListsDomain DEF KInv, Waits
    <3> DEFINE n == Len(waiting[q])
               w == waiting[q]
    <3>4. /\ DOMAIN waiting'[q] = 1 .. n + 1 /\ waiting'[q][n + 1] = p
          /\ \A i \in 1 .. n : waiting'[q][i] = w[i]
      <4>1. w \in Seq(Proc) /\ p \in Proc
        BY <2>2, InQueue DEF KInv, Waits, Lists
      <4> QED BY <3>3, <4>1, AppendProperties
    <3>5. \A i \in 1 .. n : msgbuf'[w[i]] = msgbuf[w[i]]
      BY <1>5, <3>3, InQueue DEF Dest
    <3>6. msgbuf'[p].type = t
      BY <1>1, <1>2, <1>3
    <3>7. filter[q] # INTERRUPT => FirstSender(q, filter[q])' = {}
      <4> SUFFICES ASSUME filter[q] # INTERRUPT, NEW i \in FirstSender(q, filter[q])'
                   PROVE  FALSE
        OBVIOUS
      <4>1. /\ i \in 1 .. n + 1
            /\ filter'[q] = ANY \/ msgbuf'[waiting'[q][i]].type = filter'[q]
            /\ \A j \in 1 .. n + 1 : j < i =>
                  ~(filter'[q] = ANY \/ msgbuf'[waiting'[q][j]].type = filter'[q])
        BY <3>4 DEF FirstSender, Matches
      <4>2. i \in 1 .. n
        BY <1>1, <3>2, <3>3, <3>4, <3>6, <4>1
      <4>3. i \in FirstSender(q, filter[q])
        BY <1>1, <3>3, <3>4, <3>5, <4>1, <4>2 DEF FirstSender, Matches
      <4> QED BY <3>1, <4>3 DEF MeetsNone
    <3> QED BY <1>1, <3>1, <3>7 DEF MeetsNone
  <2>3. CASE state'[q] # "RECEIVING"
    BY <2>3 DEF MeetsNone
  <2> QED BY <2>1, <2>2, <2>3
<1> QED BY <1>4, <1>7, <1>8 DEF MInv

\* The current process waits, since it found no message.
LEMMA BlockMessages ==
    ASSUME KInv, MInv, NEW p \in Proc, NEW f \in Filters \cup TimedFilters, NEW b,
           NoMessage(p, f), Block(p, f, b)
    PROVE  MInv'
<1>1. /\ Calls(p) /\ ~TakesInterrupt(p, f) /\ Sender(p, f) = {}
      /\ state' = [state EXCEPT ![p] = "RECEIVING"]
      /\ filter' = [filter EXCEPT ![p] = f]
      /\ msgbuf' = NewBuffer(p, b)
      /\ UNCHANGED <<waiting, pending, enabled, phase, panic>>
  BY DEF Block, NoMessage, irqVars
<1>2. /\ msgbuf' \in [Proc -> Messages \cup {NULL}]
      /\ \A q \in Proc : q # p => msgbuf'[q] = msgbuf[q]
  BY <1>1, NewBufferTyped
<1>3. state[p] = "ACTIVE" /\ p \notin Senders /\ state \in [Proc -> States]
  BY <1>1, Caller DEF KInv, KernelTyped
<1>4. Senders' = Senders /\ \A q \in Senders : msgbuf'[q] = msgbuf[q]
  BY <1>1, <1>2, <1>3 DEF Senders, Blocked
<1>5. filter \in [Proc -> AllFilters] /\ filter' \in [Proc -> AllFilters]
  BY <1>1 DEF MInv, MessagesTyped, AllFilters
<1>6. ASSUME NEW q \in Proc PROVE MeetsNone(q)'
  <2>1. CASE q # p
    BY <1>1, <1>3, <1>4, <1>5, <2>1, StillMeetsNone
  <2>2. CASE q = p
    <3>1. \A i \in DOMAIN waiting[p] : msgbuf'[waiting[p][i]] = msgbuf[waiting[p][i]]
      BY <1>4, InQueue DEF Dest
    <3>2. filter'[p] = f /\ FirstSender(p, filter[p])' = FirstSender(p, f)
      BY <1>1, <1>5, <3>1 DEF FirstSender, Matches
    <3> QED BY <1>1, <2>2, <3>2 DEF MeetsNone, Sender, TakesInterrupt
  <2> QED BY <2>1, <2>2
<1> QED BY <1>1, <1>2, <1>4, <1>5, <1>6, MessageStep DEF MInv, MessagesTyped

\* The sender's own message goes to a receiver that waits.
LEMMA HandOver ==
    ASSUME MInv, NEW p \in Proc, NEW d \in Proc, d # p,
           NEW t \in SendTypes \cup SendrecTypes
    PROVE  LET buf == Deliver([msgbuf EXCEPT ![p] = [Blank EXCEPT !.type = t]], d, p)
           IN  /\ buf \in [Proc -> Messages \cup {NULL}]
               /\ \A q \in Proc : q # p /\ q # d => buf[q] = msgbuf[q]
<1> DEFINE own == [msgbuf EXCEPT ![p] = [Blank EXCEPT !.type = t]]
<1>1. own \in [Proc -> Messages \cup {NULL}] /\ own[p] \in Messages
  BY OwnMessage DEF MInv, MessagesTyped
<1>2. \A q \in Proc : q # p => own[q] = msgbuf[q]
  BY DEF MInv, MessagesTyped
<1> HIDE DEF own
<1>3. /\ Deliver(own, d, p) \in [Proc -> Messages \cup {NULL}]
      /\ \A q \in Proc : q # d => Deliver(own, d, p)[q] = own[q]
  BY <1>1, DeliverTyped
<1>4. /\ Deliver(own, d, p) \in [Proc -> Messages \cup {NULL}]
      /\ \A q \in Proc : q # p /\ q # d => Deliver(own, d, p)[q] = msgbuf[q]
  BY <1>2, <1>3
<1> QED BY <1>4 DEF own

LEMMA MeetMessages ==
    ASSUME KInv, MInv, NEW p \in Proc, Calls(p), NEW d \in Dest,
           NEW t \in SendTypes, Accepts(d, t), Meet(p, d, t)
    PROVE  MInv'
<1>1. /\ state' = [state EXCEPT ![d] = "ACTIVE"]
      /\ msgbuf' = Deliver([msgbuf EXCEPT ![p] = [Blank EXCEPT !.type = t]], d, p)
      /\ UNCHANGED <<waiting, pending, filter, enabled, phase, panic>>
  BY DEF Meet, irqVars
<1>2. d \in Proc /\ state[d] = "RECEIVING" /\ d \notin Senders /\ d # p
  BY Receiver DEF Calls
<1>3. p \notin Senders /\ state \in [Proc -> States]
  BY Caller DEF KInv, KernelTyped
<1>4. /\ msgbuf' \in [Proc -> Messages \cup {NULL}]
      /\ \A q \in Proc : q # p /\ q # d => msgbuf'[q] = msgbuf[q]
  <2>1. t \in SendTypes \cup SendrecTypes
    OBVIOUS
  <2>2. LET buf == Deliver([msgbuf EXCEPT ![p] = [Blank EXCEPT !.type = t]], d, p)
        IN  /\ buf \in [Proc -> Messages \cup {NULL}]
            /\ \A q \in Proc : q # p /\ q # d => buf[q] = msgbuf[q]
    BY <1>2, <2>1, HandOver
  <2> QED BY <1>1, <2>2
<1>5. Senders' = Senders /\ \A q \in Senders : msgbuf'[q] = msgbuf[q]
  BY <1>1, <1>2, <1>3, <1>4 DEF Senders, Blocked
<1>6. ASSUME NEW q \in Proc PROVE MeetsNone(q)'
  <2>1. state'[q] = "RECEIVING" => state[q] = "RECEIVING"
    BY <1>1, <1>3
  <2> QED BY <1>1, <1>5, <2>1, StillMeetsNone
<1> QED BY <1>1, <1>4, <1>5, <1>6, MessageStep DEF MInv, MessagesTyped

LEMMA ReceiveSentMessages ==
    ASSUME KInv, MInv, NEW p \in Proc, NEW f, NEW b, ReceiveSent(p, f, b)
    PROVE  MInv'
<1>1. PICK i \in Sender(p, f) :
          /\ state' = [state EXCEPT ![waiting[p][i]] = "ACTIVE"]
          /\ waiting' = Taken(p, i)
          /\ msgbuf' = Deliver(NewBuffer(p, b), p, waiting[p][i])
  BY DEF ReceiveSent
<1>2. Calls(p) /\ UNCHANGED <<pending, filter, enabled, phase, panic>>
  BY DEF ReceiveSent, irqVars
<1>3. p \notin Senders /\ p \in Dest /\ state[p] = "ACTIVE" /\ state \in [Proc -> States]
  BY <1>2, Caller DEF KInv, KernelTyped
<1> DEFINE src == waiting[p][i]
<1>4. src \in Senders /\ src \in Proc /\ msgbuf[src] \in Messages
  BY <1>3, InQueue DEF Sender, FirstSender
<1>5. state' = [state EXCEPT ![src] = "ACTIVE"] /\ msgbuf' = Deliver(NewBuffer(p, b), p, src)
  BY <1>1
<1> HIDE DEF src
<1>6. /\ msgbuf' \in [Proc -> Messages \cup {NULL}]
      /\ \A q \in Proc : q # p => msgbuf'[q] = msgbuf[q]
  <2> DEFINE buf == NewBuffer(p, b)
  <2>1. /\ buf \in [Proc -> Messages \cup {NULL}]
        /\ \A q \in Proc : q # p => buf[q] = msgbuf[q]
    BY NewBufferTyped
  <2> HIDE DEF buf
  <2>2. buf[src] \in Messages
    BY <1>3, <1>4, <2>1
  <2>3. msgbuf' = Deliver(buf, p, src)
    BY <1>5 DEF buf
  <2> QED BY <1>4, <2>1, <2>2, <2>3, DeliverTyped
<1>7. Senders' \subseteq Senders /\ \A q \in Senders : q \in Proc /\ msgbuf'[q] = msgbuf[q]
  BY <1>3, <1>5, <1>6 DEF Senders, Blocked
<1>8. ASSUME NEW q \in Proc PROVE MeetsNone(q)'
  <2>1. state'[q] = "RECEIVING" => state[q] = "RECEIVING" /\ q # p
    BY <1>3, <1>4, <1>5 DEF Senders, Blocked
  <2>2. q # p => waiting'[q] = waiting[q]
    BY <1>1 DEF Taken, KInv, Waits, Dest
  <2> QED BY <1>2, <1>7, <2>1, <2>2, StillMeetsNone
<1> QED BY <1>2, <1>6, <1>7, <1>8, MessageStep DEF MInv, MessagesTyped

\* await_reply(p): p takes the reply, or waits for one since none is there.
\* B are the processes that wait to send when it is called.
LEMMA AwaitReplyMessages ==
    ASSUME MInv, NEW p \in Proc, NEW st \in [Proc -> States],
           NEW B, B = {q \in Proc \ {p} : st[q] \in {"SENDING", "SENDREC"}},
           B \subseteq Senders, ToSet(waiting[p]) \subseteq B,
           NEW wq, wq = [d \in Dest |-> wq[d]], wq[p] = waiting[p],
           \A d \in Proc \ {p} : st[d] = "RECEIVING" =>
               /\ state[d] = "RECEIVING"
               /\ wq[d] = waiting[d] /\ ToSet(waiting[d]) \subseteq B,
           NEW buf \in [Proc -> Messages \cup {NULL}],
           \A q \in B : buf[q] = msgbuf[q],
           NEW rq, AwaitReply(p, st, wq, buf, rq),
           UNCHANGED <<pending, enabled, phase, panic>>
    PROVE  MInv'
<1>1. filter \in [Proc -> AllFilters] /\ REPLY \in AllFilters
  BY DEF MInv, MessagesTyped, AllFilters
<1>2. \A q \in B : q \in Senders /\ q \in Proc /\ q # p /\ msgbuf[q] \in Messages
  BY DEF MInv, SendersHaveMessages, Senders
<1>3. /\ msgbuf' \in [Proc -> Messages \cup {NULL}]
      /\ \A q \in B : msgbuf'[q] = msgbuf[q]
      /\ filter' \in [Proc -> AllFilters]
      /\ \A q \in Proc \ {p} :
            /\ filter'[q] = filter[q] /\ waiting'[q] = wq[q]
            /\ state'[q] # st[q] => state'[q] = "ACTIVE"
      /\ \/ state'[p] = "ACTIVE"
         \/ /\ state'[p] = "RECEIVING" /\ filter'[p] = REPLY /\ waiting'[p] = wq[p]
            /\ FirstSender(p, REPLY) = {}
  <2>1. CASE FirstSender(p, REPLY) # {}
    <3>1. PICK i \in FirstSender(p, REPLY) :
              /\ state' = [st EXCEPT ![p] = "ACTIVE", ![waiting[p][i]] = "ACTIVE"]
              /\ waiting' = [wq EXCEPT ![p] = RemoveAt(wq[p], i)]
              /\ msgbuf' = Deliver(buf, p, waiting[p][i])
              /\ UNCHANGED filter
      BY <2>1 DEF AwaitReply
    <3> DEFINE src == waiting[p][i]
    <3>2. src \in B /\ src \in Proc /\ src # p /\ buf[src] \in Messages
      BY <1>2 DEF FirstSender, ToSet
    <3>3. /\ state' = [st EXCEPT ![p] = "ACTIVE", ![src] = "ACTIVE"]
          /\ msgbuf' = Deliver(buf, p, src)
      BY <3>1
    <3> HIDE DEF src
    <3>4. /\ msgbuf' \in [Proc -> Messages \cup {NULL}]
          /\ \A q \in Proc : q # p => msgbuf'[q] = buf[q]
      BY <3>2, <3>3, DeliverTyped
    <3>5. \A q \in Proc \ {p} : waiting'[q] = wq[q] /\ filter'[q] = filter[q]
      BY <3>1
    <3>6. \A q \in B : msgbuf'[q] = msgbuf[q]
      BY <1>2, <3>4
    <3>7. /\ \A q \in Proc \ {p} : state'[q] # st[q] => state'[q] = "ACTIVE"
          /\ state'[p] = "ACTIVE"
      BY <3>2, <3>3
    <3>8. filter' \in [Proc -> AllFilters]
      BY <1>1, <3>1
    <3> QED BY <3>4, <3>5, <3>6, <3>7, <3>8
  <2>2. CASE FirstSender(p, REPLY) = {}
    <3>1. /\ state' = [st EXCEPT ![p] = "RECEIVING"]
          /\ filter' = [filter EXCEPT ![p] = REPLY]
          /\ waiting' = wq /\ msgbuf' = buf
      BY <2>2 DEF AwaitReply
    <3> QED BY <1>1, <1>2, <2>2, <3>1
  <2> QED BY <2>1, <2>2
<1>4. Senders' \subseteq B
  BY <1>3 DEF Senders, Blocked
<1>5. SendersHaveMessages'
  BY <1>2, <1>3, <1>4 DEF SendersHaveMessages
<1>6. ASSUME NEW q \in Proc PROVE MeetsNone(q)'
  <2>1. CASE q # p /\ state'[q] = "RECEIVING"
    <3>1. st[q] = "RECEIVING"
      BY <1>3, <2>1
    <3>2. /\ state[q] = "RECEIVING" /\ waiting'[q] = waiting[q]
          /\ filter'[q] = filter[q] /\ pending'[q] = pending[q]
          /\ \A r \in ToSet(waiting[q]) : msgbuf'[r] = msgbuf[r]
      BY <1>3, <2>1, <3>1
    <3> QED BY <3>2, SameQueue
  <2>2. CASE q = p /\ state'[q] = "RECEIVING"
    <3>1. /\ filter'[p] = REPLY /\ waiting'[p] = waiting[p]
          /\ FirstSender(p, REPLY) = {}
      BY <1>3, <2>2
    <3>2. \A i \in DOMAIN waiting[p] : msgbuf'[waiting[p][i]] = msgbuf[waiting[p][i]]
      BY <1>3 DEF ToSet
    <3>3. FirstSender(p, filter[p])' = FirstSender(p, REPLY)
      BY <3>1, <3>2 DEF FirstSender, Matches
    <3>4. filter'[p] \notin {ANY, INTERRUPT}
      BY <3>1 DEF REPLY, ANY, INTERRUPT
    <3> QED BY <2>2, <3>1, <3>3, <3>4 DEF MeetsNone
  <2>3. CASE state'[q] # "RECEIVING"
    BY <2>3 DEF MeetsNone
  <2> QED BY <2>1, <2>2, <2>3
<1> QED BY <1>3, <1>5, <1>6 DEF MInv, MessagesTyped

LEMMA SendrecNowMessages ==
    ASSUME KInv, MInv, NEW p \in Proc, NEW d \in Dest, NEW t \in SendrecTypes,
           SendrecNow(p, d, t)
    PROVE  MInv'
<1> DEFINE st == [state EXCEPT ![d] = "ACTIVE"]
           buf == Deliver([msgbuf EXCEPT ![p] = [Blank EXCEPT !.type = t]], d, p)
           rq == Enqueue(readyq, d)
<1>1. /\ Calls(p) /\ Accepts(d, t)
      /\ AwaitReply(p, st, waiting, buf, rq)
      /\ UNCHANGED <<pending, enabled, phase, panic>>
  BY DEF SendrecNow, irqVars
<1>2. d \in Proc /\ state[d] = "RECEIVING" /\ d \notin Senders /\ d # p
  BY <1>1, Receiver DEF Calls
<1>3. p \notin Senders /\ state \in [Proc -> States] /\ st \in [Proc -> States]
  BY <1>1, Caller DEF KInv, KernelTyped, States
<1>4. /\ buf \in [Proc -> Messages \cup {NULL}]
      /\ \A q \in Proc : q # p /\ q # d => buf[q] = msgbuf[q]
  <2>1. t \in SendTypes \cup SendrecTypes
    OBVIOUS
  <2> QED BY <1>2, <2>1, HandOver
<1>5. Senders = {q \in Proc \ {p} : st[q] \in {"SENDING", "SENDREC"}}
  BY <1>2, <1>3 DEF Senders, Blocked
<1>6. /\ \A q \in Proc : ToSet(waiting[q]) \subseteq Senders
      /\ waiting = [q \in Dest |-> waiting[q]]
  BY DEF KInv, Waits, Dest
<1>7. \A q \in Senders : buf[q] = msgbuf[q]
  BY <1>2, <1>3, <1>4 DEF Senders
<1>8. \A q \in Proc \ {p} : st[q] = "RECEIVING" => state[q] = "RECEIVING"
  BY <1>3
<1> HIDE DEF st, buf, rq
<1> QED BY <1>1, <1>3, <1>4, <1>5, <1>6, <1>7, <1>8, AwaitReplyMessages

LEMMA ReceiveCallMessages ==
    ASSUME KInv, MInv, NEW p \in Proc, NEW f, NEW b, ReceiveCall(p, f, b)
    PROVE  MInv'
<1>1. PICK i \in Sender(p, f) :
          /\ state[waiting[p][i]] # "SENDING"
          /\ IF state[waiting[p][i]] = "SENDREC"
             THEN /\ AwaitReply(waiting[p][i], state, Taken(p, i),
                                Deliver(NewBuffer(p, b), p, waiting[p][i]),
                                Enqueue(readyq, p))
                  /\ UNCHANGED <<prio, pending, irqVars, phase, panic, timeoutVars>>
             ELSE Panic("Bad state in receive()")
  BY DEF ReceiveCall
<1> DEFINE src == waiting[p][i]
           wq == Taken(p, i)
           new == NewBuffer(p, b)
           buf == Deliver(NewBuffer(p, b), p, src)
           rq == Enqueue(readyq, p)
           B == Senders \ {src}
<1>2. /\ p \notin Senders /\ p \in Dest /\ state[p] = "ACTIVE"
      /\ state \in [Proc -> States]
  BY Caller DEF ReceiveCall, KInv, KernelTyped
<1>3. src \in Senders /\ src \in Proc /\ src \in ToSet(waiting[p]) /\ msgbuf[src] \in Messages
  BY <1>2, InQueue DEF Sender, FirstSender
<1>4. state[src] = "SENDREC" /\ src # p
  BY <1>1, <1>2, <1>3 DEF Senders, Blocked
<1>5. /\ AwaitReply(src, state, wq, buf, rq)
      /\ UNCHANGED <<pending, enabled, phase, panic>>
  BY <1>1, <1>4 DEF irqVars
<1>6. /\ wq = [q \in Dest |-> wq[q]]
      /\ \A q \in Dest : q # p => wq[q] = waiting[q]
  BY DEF Taken, KInv, Waits
<1>7. \A q \in Dest : q # p => ToSet(waiting[q]) \subseteq B
  BY <1>2, <1>3 DEF KInv, Waits
<1>8. /\ buf \in [Proc -> Messages \cup {NULL}]
      /\ \A q \in Proc : q # p => buf[q] = msgbuf[q]
  <2>1. /\ new \in [Proc -> Messages \cup {NULL}]
        /\ \A q \in Proc : q # p => new[q] = msgbuf[q]
    BY NewBufferTyped
  <2>2. buf = Deliver(new, p, src) /\ new[src] \in Messages
    BY <1>3, <1>4, <2>1
  <2> HIDE DEF new, src
  <2>3. /\ Deliver(new, p, src) \in [Proc -> Messages \cup {NULL}]
        /\ \A q \in Proc : q # p => Deliver(new, p, src)[q] = new[q]
    BY <1>3, <2>1, <2>2, DeliverTyped
  <2> QED BY <2>1, <2>2, <2>3
<1> HIDE DEF src, wq, buf, rq
<1>9. B = {q \in Proc \ {src} : state[q] \in {"SENDING", "SENDREC"}}
  BY DEF Senders, Blocked
<1>10. \A q \in B : buf[q] = msgbuf[q]
  BY <1>2, <1>8 DEF Senders
<1>11. /\ B \subseteq Senders /\ ToSet(waiting[src]) \subseteq B /\ wq[src] = waiting[src]
       /\ \A q \in Proc \ {src} : state[q] = "RECEIVING" =>
             wq[q] = waiting[q] /\ ToSet(waiting[q]) \subseteq B
  BY <1>2, <1>3, <1>4, <1>6, <1>7 DEF Dest
<1> HIDE DEF B
<1> QED BY <1>2, <1>3, <1>5, <1>6, <1>8, <1>9, <1>10, <1>11, AwaitReplyMessages

-----------------------------------------------------------------------------
(* The clock and the interrupts *)

LEMMA TickCallMessages ==
    ASSUME SmallDelays, KInv, MInv, NEW p \in Proc, TickCall(p)
    PROVE  MInv'
<1>1. MayTick
  BY ListedIsTimed DEF KInv, TimeoutsInv, MayTick, Timed
<1>2. PICK f : MiniTick(TICK, f) /\ Fire(f)
  BY <1>1 DEF TickCall
<1>3. UNCHANGED <<waiting, pending, filter, enabled, phase, panic>>
  BY <1>1 DEF TickCall, irqVars
<1> DEFINE E == ToSet(f)
<1>4. E \subseteq Timed
  <2>1. Lists(f, {q \in Timed : timeout[q] < ticks})
    BY <1>2, MiniTickStep DEF KInv
  <2> QED BY <2>1 DEF Lists
<1>5. \A q \in E : q \in Proc /\ state[q] = "RECEIVING" /\ q \notin Senders
  BY <1>4 DEF KInv, TimedOnlyWaiting, Timed, Senders, Blocked
<1>6. /\ state' = [q \in Proc |-> IF q \in E THEN "ACTIVE" ELSE state[q]]
      /\ msgbuf' = [q \in Proc |-> IF q \in E THEN Special(msgbuf, q, TIMEOUT)[q]
                                   ELSE msgbuf[q]]
  BY <1>2 DEF Fire
<1> HIDE DEF E
<1>7. msgbuf' \in [Proc -> Messages \cup {NULL}]
  <2>1. msgbuf \in [Proc -> Messages \cup {NULL}]
    BY DEF MInv, MessagesTyped
  <2>2. \A q \in Proc : Special(msgbuf, q, TIMEOUT)[q] \in Messages \cup {NULL}
    <3> SUFFICES ASSUME NEW q \in Proc
                 PROVE  Special(msgbuf, q, TIMEOUT)[q] \in Messages \cup {NULL}
      OBVIOUS
    <3>1. Special(msgbuf, q, TIMEOUT) \in [Proc -> Messages \cup {NULL}]
      BY <2>1, SpecialTyped
    <3> QED BY <3>1
  <2> QED BY <1>6, <2>1, <2>2
<1>8. Senders' = Senders /\ \A q \in Senders : msgbuf'[q] = msgbuf[q]
  BY <1>5, <1>6 DEF Senders, Blocked
<1>9. ASSUME NEW q \in Proc PROVE MeetsNone(q)'
  BY <1>3, <1>6, <1>8, StillMeetsNone
<1> QED BY <1>3, <1>7, <1>8, <1>9, MessageStep DEF MInv, MessagesTyped

LEMMA HandleIrqMessages ==
    ASSUME KInv, MInv, NEW irq \in Irqs, HandleIrq(irq)
    PROVE  MInv'
<1> DEFINE d == handler[irq]
<1>1. /\ Interrupt(d) /\ enabled' \subseteq Irqs
      /\ UNCHANGED <<waiting, filter, phase, panic>>
  BY DEF HandleIrq, MInv, MessagesTyped
<1>2. /\ d \in Dest /\ state \in [Proc -> States]
      /\ msgbuf \in [Proc -> Messages \cup {NULL}] /\ pending \in [Proc -> BOOLEAN]
  BY DEF KInv, KernelTyped, MInv, MessagesTyped
<1> HIDE DEF d
<1>3. CASE Accepts(d, INTERRUPT)
  <2>1. /\ state' = [state EXCEPT ![d] = "ACTIVE"] /\ pending' = pending
        /\ msgbuf' = Special(msgbuf, d, INTERRUPT)
    BY <1>1, <1>3 DEF Interrupt
  <2>2. d \in Proc /\ d \notin Senders
    BY <1>2, <1>3, Receiver
  <2>3. /\ msgbuf' \in [Proc -> Messages \cup {NULL}]
        /\ \A q \in Proc : q # d => msgbuf'[q] = msgbuf[q]
    BY <1>2, <2>1, <2>2, SpecialTyped
  <2>4. Senders' = Senders /\ \A q \in Senders : msgbuf'[q] = msgbuf[q]
    BY <1>2, <2>1, <2>2, <2>3 DEF Senders, Blocked
  <2>5. ASSUME NEW q \in Proc PROVE MeetsNone(q)'
    <3>1. state'[q] = "RECEIVING" => state[q] = "RECEIVING"
      BY <1>2, <2>1
    <3> QED BY <1>1, <2>1, <2>4, <3>1, StillMeetsNone
  <2> QED BY <1>1, <1>2, <2>1, <2>3, <2>4, <2>5, MessageStep DEF MInv, MessagesTyped
<1>4. CASE ~Accepts(d, INTERRUPT)
  <2>1. pending' = [pending EXCEPT ![d] = TRUE] /\ UNCHANGED <<state, msgbuf>>
    BY <1>1, <1>4 DEF Interrupt
  <2>2. /\ pending' \in [Proc -> BOOLEAN]
        /\ \A q \in Proc : q # d => pending'[q] = pending[q]
    <3>1. TRUE \in BOOLEAN
      OBVIOUS
    <3> QED BY <1>2, <2>1, <3>1, Zenon
  <2>3. Senders' = Senders
    BY <2>1 DEF Senders, Blocked
  <2>4. ASSUME NEW q \in Proc PROVE MeetsNone(q)'
    <3>1. CASE q # d
      BY <1>1, <2>1, <2>2, <3>1, StillMeetsNone
    <3>2. CASE q = d
      <4>1. state[q] = "RECEIVING" => filter[q] \notin {ANY, INTERRUPT}
        BY <1>4, <3>2, KernelAssumption DEF Accepts, StateOf
      <4>2. FirstSender(q, filter[q])' = FirstSender(q, filter[q])
        BY <1>1, <2>1 DEF FirstSender, Matches
      <4>3. MeetsNone(q)
        BY DEF MInv
      <4> QED BY <1>1, <2>1, <4>1, <4>2, <4>3 DEF MeetsNone
    <3> QED BY <3>1, <3>2
  <2> QED BY <1>1, <1>2, <2>1, <2>2, <2>3, <2>4, MessageStep DEF MInv, MessagesTyped
<1> QED BY <1>3, <1>4

-----------------------------------------------------------------------------
(* The invariant *)

LEMMA SendMessages ==
    ASSUME SmallDelays, KInv, MInv, NEW p \in Proc, Send(p) \/ Sendrec(p)
    PROVE  MInv'
<1>1. CASE Send(p)
  <2>1. PICK d \in Dest :
            \/ BadDest(p, d)
            \/ \E t \in SendTypes : SendNow(p, d, t) \/ SendLater(p, d, t)
    BY <1>1 DEF Send
  <2>2. CASE BadDest(p, d)
    BY <2>2, PanicMessages DEF BadDest, Refusals
  <2>3. ASSUME NEW t \in SendTypes, SendNow(p, d, t) PROVE MInv'
    <3>1. Calls(p) /\ Accepts(d, t)
      BY <2>3 DEF SendNow
    <3>2. d \in Proc
      BY <3>1, Receiver
    <3>3. timeout[d] # NO_TIME => MayCancel(d)
      BY <3>2, ListedIsTimed DEF KInv, TimeoutsInv, MayCancel, Timed
    <3>4. Meet(p, d, t)
      BY <2>3, <3>3 DEF SendNow
    <3> QED BY <3>1, <3>4, MeetMessages
  <2>4. ASSUME NEW t \in SendTypes, SendLater(p, d, t) PROVE MInv'
    <3>1. /\ Calls(p) /\ ~Accepts(d, t)
          /\ QueueSender(p, d, [Blank EXCEPT !.type = t], "SENDING")
          /\ UNCHANGED <<pending, enabled, phase, panic>>
      BY <2>4 DEF SendLater, irqVars
    <3> QED BY <3>1, QueueSenderMessages
  <2> QED BY <2>1, <2>2, <2>3, <2>4
<1>2. CASE Sendrec(p)
  <2>1. PICK d \in Dest, t \in SendrecTypes :
            SendrecReply(p, d) \/ SendrecNow(p, d, t) \/ SendrecLater(p, d, t)
    BY <1>2 DEF Sendrec
  <2>2. CASE SendrecReply(p, d)
    BY <2>2, PanicMessages DEF SendrecReply, Refusals
  <2>3. CASE SendrecNow(p, d, t)
    BY <2>3, SendrecNowMessages
  <2>4. CASE SendrecLater(p, d, t)
    <3>1. /\ Calls(p) /\ ~Accepts(d, t)
          /\ QueueSender(p, d, [Blank EXCEPT !.type = t], "SENDREC")
          /\ UNCHANGED <<pending, enabled, phase, panic>>
      BY <2>4 DEF SendrecLater, irqVars
    <3> QED BY <3>1, QueueSenderMessages
  <2> QED BY <2>1, <2>2, <2>3, <2>4
<1> QED BY <1>1, <1>2

LEMMA ReceiveMessages ==
    ASSUME SmallDelays, KInv, MInv, NEW p \in Proc, Receive(p) \/ ReceiveT(p)
    PROVE  MInv'
<1>1. PICK f \in Filters \cup TimedFilters, b \in Buffers :
          \/ ReceiveInterrupt(p, f, b) \/ ReceivePoll(p, f, b)
          \/ ReceiveSent(p, f, b) \/ ReceiveCall(p, f, b)
          \/ ReceiveWait(p, f, b)
          \/ \E ms \in Delays : ReceiveTimed(p, f, b, ms)
  BY DEF Receive, ReceiveT
<1>2. CASE ReceiveWait(p, f, b)
  BY <1>2, BlockMessages DEF ReceiveWait
<1>3. ASSUME NEW ms \in Delays, ReceiveTimed(p, f, b, ms) PROVE MInv'
  <2>1. Calls(p) /\ NoMessage(p, f)
    BY <1>3 DEF ReceiveTimed, NoMessage
  <2>2. MaySet(p)
    BY <2>1, Caller, TimeoutsFit DEF Timed, MaySet, KInv, TimeoutsInv
  <2>3. Block(p, f, b)
    BY <1>3, <2>2 DEF ReceiveTimed
  <2> QED BY <2>1, <2>3, BlockMessages
<1> QED BY <1>1, <1>2, <1>3, OwnBufferStep, ReceiveSentMessages, ReceiveCallMessages

LEMMA MInvNext ==
    ASSUME SmallDelays, KInv, MInv, Next
    PROVE  MInv'
<1>1. ASSUME NEW p \in Proc, Start(p) \/ Yield(p) \/ Exit(p) PROVE MInv'
  BY <1>1, QuietCalls
<1>2. ASSUME NEW p \in Proc, Send(p) \/ Sendrec(p) PROVE MInv'
  BY <1>2, SendMessages
<1>3. ASSUME NEW p \in Proc, Receive(p) \/ ReceiveT(p) PROVE MInv'
  BY <1>3, ReceiveMessages
<1>4. ASSUME NEW p \in Proc, TickCall(p) PROVE MInv'
  BY <1>4, TickCallMessages
<1>5. ASSUME NEW p \in Proc, LateStart(p) PROVE MInv'
  BY <1>5, PanicMessages DEF LateStart, Refusals
<1>6. ASSUME NEW p \in Proc, Configure(p) PROVE MInv'
  <2>1. CASE \E irq \in Irqs : Connect(p, irq) \/ EnableIrq(p, irq)
    BY <2>1, QuietCalls
  <2>2. CASE \E k \in Prios : SetPriority(p, k)
    BY <2>2, QuietCalls
  <2>3. ASSUME NEW k \in Prios, BadPriority(p, k) PROVE MInv'
    BY <2>3, PanicMessages DEF BadPriority, Refusals
  <2> QED BY <1>6, <2>1, <2>2, <2>3 DEF Configure
<1>7. CASE Boot \/ IdleYield
  <2>1. /\ UNCHANGED <<pending, filter, msgbuf, waiting, state, enabled, panic>>
        /\ phase' \in {"init", "boot", "run"}
    BY <1>7 DEF Boot, IdleYield, processVars, irqVars
  <2> QED BY <2>1, NoMessageStep DEF MInv, MessagesTyped
<1>8. ASSUME NEW irq \in Irqs, HandleIrq(irq) PROVE MInv'
  BY <1>8, HandleIrqMessages
<1>9. ASSUME NEW irq \in Irqs, BadIrq(irq) PROVE MInv'
  BY <1>9, PanicMessages DEF BadIrq, Refusals
<1> QED BY <1>1, <1>2, <1>3, <1>4, <1>5, <1>6, <1>7, <1>8, <1>9 DEF Next

LEMMA MInvStutter ==
    ASSUME KInv, MInv, UNCHANGED vars
    PROVE  MInv'
<1>1. UNCHANGED <<pending, filter, msgbuf, waiting, state, enabled, phase, panic>>
  BY DEF vars, processVars, irqVars
<1> QED BY <1>1, NoMessageStep DEF MInv, MessagesTyped

\* The kernel keeps the invariant on messages, along with that on queues.
THEOREM MessagesInvariance ==
    ASSUME Disciplined, SmallDelays
    PROVE  Spec => [](KInv /\ MInv)
<1>1. Init => MInv
  BY MInvInit
<1>2. KInv /\ MInv /\ [Next]_vars => MInv'
  BY MInvNext, MInvStutter
<1> QED BY <1>1, <1>2, Invariance, PTL DEF Spec

\* Every variable of the kernel has its type: the queues hold processes, and
\* whatever buffer a message is copied from holds a message.
THEOREM TypeCorrect ==
    ASSUME Disciplined, SmallDelays
    PROVE  Spec => []TypeOK
<1>1. ASSUME KInv, MInv PROVE TypeOK
  <2>1. waiting \in [Dest -> Seq(Proc)]
    <3>1. waiting = [d \in Dest |-> waiting[d]]
      BY <1>1 DEF KInv, Waits
    <3>2. \A d \in Dest : waiting[d] \in Seq(Proc)
      <4> SUFFICES ASSUME NEW d \in Dest PROVE waiting[d] \in Seq(Proc)
        OBVIOUS
      <4>1. waiting[d] \in Seq(ToSet(waiting[d])) /\ ToSet(waiting[d]) \subseteq Proc
        BY <1>1 DEF KInv, Waits, Lists, Senders
      <4> QED BY <4>1
    <3> QED BY <3>1, <3>2
  <2>2. readyq \in [Prio -> Seq(Proc)]
    <3>1. readyq = [k \in Prio |-> readyq[k]]
      BY <1>1 DEF KInv, Queued
    <3>2. \A k \in Prio : readyq[k] \in Seq(Proc)
      <4> SUFFICES ASSUME NEW k \in Prio PROVE readyq[k] \in Seq(Proc)
        OBVIOUS
      <4> DEFINE S == {q \in Active \ {current} : prio[q] = k}
      <4>1. readyq[k] \in Seq(S) /\ S \subseteq Proc
        BY <1>1 DEF KInv, Queued, Lists, Active
      <4> HIDE DEF S
      <4> QED BY <4>1
    <3> QED BY <3>1, <3>2
  <2> QED BY <1>1, <2>1, <2>2
      DEF KInv, KernelTyped, MInv, MessagesTyped, AllFilters, TypeOK
<1>2. KInv /\ MInv => TypeOK
  BY <1>1
<1> QED BY <1>2, MessagesInvariance, PTL

\* A receiver never waits while a message it accepts is there: the test that
\* send() makes of the receiver and the search that receive() makes of the
\* senders agree, and an interrupt is remembered until it is asked for.
THEOREM NoMissedMeetingCorrect ==
    ASSUME Disciplined, SmallDelays
    PROVE  Spec => []NoMissedMeeting
<1>1. KInv /\ MInv => NoMissedMeeting
  BY DEF MInv, MeetsNone, NoMissedMeeting
<1> QED BY <1>1, MessagesInvariance, PTL

-----------------------------------------------------------------------------
(* Steps that wake a process *)

\* No process asks for a reply by a reply: mini_sendrec() refuses it.
NoReplyCalls == \A q \in Proc : state[q] = "SENDREC" => msgbuf[q].type # REPLY

\* What makes NoReplyCalls true of the next state.
CallsKept ==
    \A q \in Proc : state'[q] = "SENDREC" =>
        (state[q] = "SENDREC" /\ msgbuf'[q] = msgbuf[q]) \/ msgbuf'[q].type # REPLY

HandsOver(q, d) ==
    /\ q \in ToSet(waiting[d]) \ ToSet(waiting'[d])
    /\ \/ msgbuf'[d] = NULL
       \/ msgbuf'[d] = [type |-> msgbuf[q].type, sender |-> q]

\* What the action properties say of a process that wakes.
WakesWell(q) ==
    /\ state[q] = "SENDING" => \E d \in Proc : HandsOver(q, d)
    /\ state[q] = "SENDREC" => msgbuf'[q] = NULL \/ msgbuf'[q].type = REPLY
    /\ state[q] = "RECEIVING" /\ msgbuf'[q] # NULL =>
          FromSender(q, msgbuf'[q]) \/ FromHardware(q, msgbuf'[q])

AllWakeWell == CallsKept /\ \A q \in Proc : Wakes(q) => WakesWell(q)

\* A step that wakes none.
LEMMA WakesNone ==
    ASSUME \A q \in Proc : \/ state'[q] = state[q] /\ msgbuf'[q] = msgbuf[q]
                           \/ /\ state[q] \in {"ACTIVE", "ABSENT", "DEAD"}
                              /\ state'[q] = "SENDREC" => msgbuf'[q].type # REPLY
    PROVE  AllWakeWell /\ \A q \in Proc : ~Wakes(q)
BY DEF AllWakeWell, CallsKept, Wakes

LEMMA TakenAway ==
    ASSUME KInv, NEW d \in Dest, NEW i \in DOMAIN waiting[d]
    PROVE  waiting[d][i] \in ToSet(waiting[d]) \ ToSet(RemoveAt(waiting[d], i))
<1>1. Lists(waiting[d], ToSet(waiting[d])) /\ waiting[d][i] \in ToSet(waiting[d])
  BY DEF KInv, Waits, ToSet
<1>2. Lists(RemoveAt(waiting[d], i), ToSet(waiting[d]) \ {waiting[d][i]})
  BY <1>1, ListsRemoveAt
<1> QED BY <1>1, <1>2 DEF Lists

\* What a buffer holds when a message has been written to it.
LEMMA Delivered ==
    ASSUME NEW buf \in [Proc -> Messages \cup {NULL}], NEW p \in Proc, NEW m,
           Written(buf, p, m)[p] # NULL
    PROVE  Written(buf, p, m)[p] = m
BY DEF Written

\* A process that makes a call, and the buffer it may give with it.
LEMMA CallerWakesNone ==
    ASSUME KInv, MInv, NEW p \in Proc, Calls(p),
           \A q \in Proc : q # p => state'[q] = state[q] /\ msgbuf'[q] = msgbuf[q],
           state'[p] # "SENDREC"
    PROVE  AllWakeWell /\ \A q \in Proc : ~Wakes(q)
<1>1. state[p] = "ACTIVE"
  BY Caller
<1> QED BY <1>1, WakesNone

LEMMA QueueSenderWakesNone ==
    ASSUME KInv, MInv, NEW p \in Proc, Calls(p), NEW d \in Dest, NEW t, NEW how,
           how = "SENDREC" => t # REPLY,
           QueueSender(p, d, [Blank EXCEPT !.type = t], how)
    PROVE  AllWakeWell /\ \A q \in Proc : ~Wakes(q)
<1>1. /\ state' = [state EXCEPT ![p] = how]
      /\ msgbuf' = [msgbuf EXCEPT ![p] = [Blank EXCEPT !.type = t]]
  BY DEF QueueSender
<1>2. /\ state[p] = "ACTIVE" /\ state \in [Proc -> States]
      /\ msgbuf \in [Proc -> Messages \cup {NULL}]
  BY Caller DEF KInv, KernelTyped, MInv, MessagesTyped
<1>3. state'[p] = how /\ msgbuf'[p].type = t
  BY <1>1, <1>2 DEF Blank
<1>4. \A q \in Proc : q # p => state'[q] = state[q] /\ msgbuf'[q] = msgbuf[q]
  BY <1>1, <1>2
<1> QED BY <1>2, <1>3, <1>4, WakesNone

-----------------------------------------------------------------------------
LEMMA MeetWakesWell ==
    ASSUME KInv, MInv, NEW p \in Proc, Calls(p), NEW d \in Dest,
           NEW t \in SendTypes, Accepts(d, t), Meet(p, d, t)
    PROVE  AllWakeWell
<1> DEFINE own == [msgbuf EXCEPT ![p] = [Blank EXCEPT !.type = t]]
<1>1. /\ state' = [state EXCEPT ![d] = "ACTIVE"]
      /\ msgbuf' = Deliver(own, d, p)
  BY DEF Meet
<1>2. /\ d \in Proc /\ state[d] = "RECEIVING" /\ d # p
      /\ filter[d] \in {ANY, t} /\ current = p
  BY Receiver DEF Calls
<1>3. state \in [Proc -> States] /\ state[p] = "ACTIVE"
  BY Caller DEF KInv, KernelTyped
<1>4. own \in [Proc -> Messages \cup {NULL}] /\ own[p].type = t
  BY OwnMessage DEF Blank, MInv, MessagesTyped
<1>5. \A q \in Proc : q # p /\ q # d => msgbuf'[q] = msgbuf[q]
  <2>1. t \in SendTypes \cup SendrecTypes
    OBVIOUS
  <2>2. LET buf == Deliver([msgbuf EXCEPT ![p] = [Blank EXCEPT !.type = t]], d, p)
        IN  \A q \in Proc : q # p /\ q # d => buf[q] = msgbuf[q]
    BY <1>2, <2>1, HandOver
  <2> QED BY <1>1, <2>2
<1> HIDE DEF own
<1>6. msgbuf'[d] # NULL => msgbuf'[d] = [type |-> t, sender |-> p]
  BY <1>1, <1>2, <1>4, Delivered DEF Deliver
<1>7. WakesWell(d)
  BY <1>2, <1>6 DEF WakesWell, FromSender
<1>8. \A q \in Proc : Wakes(q) => q = d
  BY <1>1, <1>2, <1>3 DEF Wakes
<1>9. CallsKept
  BY <1>1, <1>2, <1>3, <1>5 DEF CallsKept
<1> QED BY <1>7, <1>8, <1>9 DEF AllWakeWell

LEMMA ReceiveSentWakesWell ==
    ASSUME KInv, MInv, NEW p \in Proc, NEW f, NEW b, ReceiveSent(p, f, b)
    PROVE  AllWakeWell
<1>1. PICK i \in Sender(p, f) :
          /\ state[waiting[p][i]] = "SENDING"
          /\ state' = [state EXCEPT ![waiting[p][i]] = "ACTIVE"]
          /\ waiting' = Taken(p, i)
          /\ msgbuf' = Deliver(NewBuffer(p, b), p, waiting[p][i])
  BY DEF ReceiveSent
<1>2. p \in Dest /\ state[p] = "ACTIVE" /\ state \in [Proc -> States] /\ p \notin Senders
  BY Caller DEF ReceiveSent, KInv, KernelTyped
<1>3. i \in DOMAIN waiting[p]
  BY <1>1 DEF Sender, FirstSender
<1>4. PICK src : src = waiting[p][i]
  OBVIOUS
<1>5. /\ src \in Proc /\ src \in Senders /\ msgbuf[src] \in Messages /\ src # p
      /\ src \in ToSet(waiting[p]) \ ToSet(RemoveAt(waiting[p], i))
  BY <1>2, <1>3, <1>4, InQueue, TakenAway
<1>6. waiting'[p] = RemoveAt(waiting[p], i)
  BY <1>1, <1>2 DEF Taken, KInv, Waits
<1>7. PICK new \in [Proc -> Messages \cup {NULL}] :
          /\ new = NewBuffer(p, b)
          /\ \A q \in Proc : q # p => new[q] = msgbuf[q]
  BY NewBufferTyped
<1>8. /\ state' = [state EXCEPT ![src] = "ACTIVE"] /\ msgbuf' = Deliver(new, p, src)
      /\ new[src] = msgbuf[src] /\ state[src] = "SENDING"
  BY <1>1, <1>4, <1>5, <1>7
<1>9. \A q \in Proc : q # p => msgbuf'[q] = msgbuf[q]
  BY <1>5, <1>7, <1>8, DeliverTyped
<1>10. msgbuf'[p] # NULL => msgbuf'[p] = [type |-> msgbuf[src].type, sender |-> src]
  BY <1>7, <1>8, Delivered DEF Deliver
<1>11. WakesWell(src)
  BY <1>5, <1>6, <1>8, <1>10 DEF WakesWell, HandsOver
<1>12. \A q \in Proc : Wakes(q) => q = src
  BY <1>2, <1>5, <1>8 DEF Wakes
<1>13. CallsKept
  BY <1>2, <1>5, <1>8, <1>9 DEF CallsKept
<1> QED BY <1>11, <1>12, <1>13 DEF AllWakeWell

\* await_reply(p): the sender of the reply that p takes wakes, and it had
\* made a send().
LEMMA AwaitReplyWakes ==
    ASSUME KInv, MInv, NoReplyCalls, NEW p \in Proc, NEW st \in [Proc -> States],
           NEW wq, wq = [d \in Dest |-> wq[d]], wq[p] = waiting[p],
           NEW buf \in [Proc -> Messages \cup {NULL}],
           \A q \in ToSet(waiting[p]) :
               q # p /\ st[q] = state[q] /\ buf[q] = msgbuf[q],
           NEW rq, AwaitReply(p, st, wq, buf, rq)
    PROVE  \/ state' = [st EXCEPT ![p] = "RECEIVING"] /\ msgbuf' = buf
           \/ \E src \in Proc :
                 /\ src # p /\ state[src] = "SENDING" /\ HandsOver(src, p)
                 /\ state' = [st EXCEPT ![p] = "ACTIVE", ![src] = "ACTIVE"]
                 /\ \A q \in Proc : q # p => msgbuf'[q] = buf[q]
                 /\ msgbuf'[p] = NULL \/ msgbuf'[p].type = REPLY
<1>1. CASE FirstSender(p, REPLY) # {}
  <2>1. PICK i \in FirstSender(p, REPLY) :
            /\ state' = [st EXCEPT ![p] = "ACTIVE", ![waiting[p][i]] = "ACTIVE"]
            /\ waiting' = [wq EXCEPT ![p] = RemoveAt(wq[p], i)]
            /\ msgbuf' = Deliver(buf, p, waiting[p][i])
    BY <1>1 DEF AwaitReply
  <2>2. PICK src : src = waiting[p][i]
    OBVIOUS
  <2>3. i \in DOMAIN waiting[p] /\ msgbuf[src].type = REPLY /\ p \in Dest
    BY <2>1, <2>2 DEF FirstSender, Matches, REPLY, ANY, Dest
  <2>4. /\ src \in Proc /\ src \in Senders /\ msgbuf[src] \in Messages
        /\ src \in ToSet(waiting[p]) \ ToSet(RemoveAt(waiting[p], i))
    BY <2>2, <2>3, InQueue, TakenAway
  <2>5. /\ src # p /\ buf[src] = msgbuf[src]
        /\ state' = [st EXCEPT ![p] = "ACTIVE", ![src] = "ACTIVE"]
        /\ msgbuf' = Deliver(buf, p, src)
        /\ waiting'[p] = RemoveAt(waiting[p], i)
    BY <2>1, <2>2, <2>3, <2>4
  <2>6. state[src] = "SENDING"
    BY <2>3, <2>4 DEF Senders, Blocked, NoReplyCalls
  <2>7. \A q \in Proc : q # p => msgbuf'[q] = buf[q]
    BY <2>4, <2>5, DeliverTyped
  <2>8. msgbuf'[p] # NULL => msgbuf'[p] = [type |-> msgbuf[src].type, sender |-> src]
    BY <2>5, Delivered DEF Deliver
  <2>9. HandsOver(src, p) /\ (msgbuf'[p] = NULL \/ msgbuf'[p].type = REPLY)
    BY <2>3, <2>4, <2>5, <2>8 DEF HandsOver
  <2> QED BY <2>4, <2>5, <2>6, <2>7, <2>9
<1>2. CASE FirstSender(p, REPLY) = {}
  BY <1>2 DEF AwaitReply
<1> QED BY <1>1, <1>2

LEMMA SendrecNowWakesWell ==
    ASSUME KInv, MInv, NoReplyCalls, NEW p \in Proc, NEW d \in Dest,
           NEW t \in SendrecTypes, SendrecNow(p, d, t)
    PROVE  AllWakeWell
<1>1. PICK own : own = [msgbuf EXCEPT ![p] = [Blank EXCEPT !.type = t]]
  OBVIOUS
<1>2. PICK buf : buf = Deliver(own, d, p)
  OBVIOUS
<1>3. PICK st : st = [state EXCEPT ![d] = "ACTIVE"]
  OBVIOUS
<1>4. /\ Calls(p) /\ Accepts(d, t)
      /\ AwaitReply(p, st, waiting, buf, Enqueue(readyq, d))
  BY <1>1, <1>2, <1>3 DEF SendrecNow
<1>5. /\ d \in Proc /\ state[d] = "RECEIVING" /\ d # p /\ d \notin Senders
      /\ filter[d] \in {ANY, t} /\ current = p
  BY <1>4, Receiver DEF Calls
<1>6. state \in [Proc -> States] /\ state[p] = "ACTIVE" /\ st \in [Proc -> States]
      /\ p \notin Senders /\ p \in Dest
  BY <1>3, <1>4, Caller DEF KInv, KernelTyped, States
<1>7. own \in [Proc -> Messages \cup {NULL}] /\ own[p].type = t
  <2>1. t \in SendTypes \cup SendrecTypes
    OBVIOUS
  <2> QED BY <1>1, <2>1, OwnMessage DEF Blank, MInv, MessagesTyped
<1>8. /\ buf \in [Proc -> Messages \cup {NULL}]
      /\ \A q \in Proc : q # p /\ q # d => buf[q] = msgbuf[q]
  <2>1. t \in SendTypes \cup SendrecTypes
    OBVIOUS
  <2>2. LET new == Deliver([msgbuf EXCEPT ![p] = [Blank EXCEPT !.type = t]], d, p)
        IN  /\ new \in [Proc -> Messages \cup {NULL}]
            /\ \A q \in Proc : q # p /\ q # d => new[q] = msgbuf[q]
    BY <1>5, <2>1, HandOver
  <2> QED BY <1>1, <1>2, <2>2
<1>9. buf[d] # NULL => buf[d] = [type |-> t, sender |-> p]
  BY <1>2, <1>5, <1>7, Delivered DEF Deliver
<1>10. ASSUME msgbuf'[d] = buf[d] PROVE WakesWell(d)
  BY <1>5, <1>9, <1>10 DEF WakesWell, FromSender
<1>11. \A q \in ToSet(waiting[p]) :
          q \in Proc /\ q # p /\ st[q] = state[q] /\ buf[q] = msgbuf[q]
  <2>1. \A q \in ToSet(waiting[p]) : q \in Senders /\ q \in Proc
    BY <1>6 DEF KInv, Waits, Senders
  <2> QED BY <1>3, <1>5, <1>6, <1>8, <2>1
<1>12. waiting = [e \in Dest |-> waiting[e]]
  BY DEF KInv, Waits
<1>13. \/ state' = [st EXCEPT ![p] = "RECEIVING"] /\ msgbuf' = buf
       \/ \E src \in Proc :
             /\ src # p /\ state[src] = "SENDING" /\ HandsOver(src, p)
             /\ state' = [st EXCEPT ![p] = "ACTIVE", ![src] = "ACTIVE"]
             /\ \A q \in Proc : q # p => msgbuf'[q] = buf[q]
             /\ msgbuf'[p] = NULL \/ msgbuf'[p].type = REPLY
  BY <1>4, <1>6, <1>8, <1>11, <1>12, AwaitReplyWakes
<1>14. CASE state' = [st EXCEPT ![p] = "RECEIVING"] /\ msgbuf' = buf
  <2>1. \A q \in Proc : Wakes(q) => q = d
    BY <1>3, <1>6, <1>14 DEF Wakes
  <2>2. CallsKept
    BY <1>3, <1>5, <1>6, <1>8, <1>14 DEF CallsKept
  <2> QED BY <1>10, <1>14, <2>1, <2>2 DEF AllWakeWell
<1>15. CASE \E src \in Proc :
             /\ src # p /\ state[src] = "SENDING" /\ HandsOver(src, p)
             /\ state' = [st EXCEPT ![p] = "ACTIVE", ![src] = "ACTIVE"]
             /\ \A q \in Proc : q # p => msgbuf'[q] = buf[q]
             /\ msgbuf'[p] = NULL \/ msgbuf'[p].type = REPLY
  <2>1. PICK src \in Proc :
             /\ src # p /\ state[src] = "SENDING" /\ HandsOver(src, p)
             /\ state' = [st EXCEPT ![p] = "ACTIVE", ![src] = "ACTIVE"]
             /\ \A q \in Proc : q # p => msgbuf'[q] = buf[q]
    BY <1>15
  <2>2. \A q \in Proc : Wakes(q) => q = d \/ q = src
    BY <1>3, <1>6, <2>1 DEF Wakes
  <2>3. WakesWell(src) /\ WakesWell(d)
    BY <1>5, <1>10, <2>1 DEF WakesWell
  <2>4. CallsKept
    BY <1>3, <1>5, <1>6, <1>8, <2>1 DEF CallsKept
  <2> QED BY <2>2, <2>3, <2>4 DEF AllWakeWell
<1> QED BY <1>13, <1>14, <1>15

LEMMA ReceiveCallWakesWell ==
    ASSUME KInv, MInv, NoReplyCalls, NEW p \in Proc, NEW f, NEW b,
           ReceiveCall(p, f, b)
    PROVE  AllWakeWell
<1>1. PICK i \in Sender(p, f) :
          /\ state[waiting[p][i]] # "SENDING"
          /\ IF state[waiting[p][i]] = "SENDREC"
             THEN /\ AwaitReply(waiting[p][i], state, Taken(p, i),
                                Deliver(NewBuffer(p, b), p, waiting[p][i]),
                                Enqueue(readyq, p))
                  /\ UNCHANGED <<prio, pending, irqVars, phase, panic, timeoutVars>>
             ELSE Panic("Bad state in receive()")
  BY DEF ReceiveCall
<1>2. PICK src : src = waiting[p][i]
  OBVIOUS
<1>3. PICK new : new = NewBuffer(p, b)
  OBVIOUS
<1>4. PICK buf : buf = Deliver(new, p, src)
  OBVIOUS
<1>5. PICK wq : wq = Taken(p, i)
  OBVIOUS
<1>6. /\ p \notin Senders /\ p \in Dest /\ state[p] = "ACTIVE"
      /\ state \in [Proc -> States]
  BY Caller DEF ReceiveCall, KInv, KernelTyped
<1>7. /\ src \in Senders /\ src \in Proc /\ src \in ToSet(waiting[p])
      /\ msgbuf[src] \in Messages
  BY <1>2, <1>6, InQueue DEF Sender, FirstSender
<1>8. state[src] = "SENDREC" /\ src # p /\ src \in Dest
  BY <1>1, <1>2, <1>6, <1>7 DEF Senders, Blocked, Dest
<1>9. AwaitReply(src, state, wq, buf, Enqueue(readyq, p))
  BY <1>1, <1>2, <1>3, <1>4, <1>5, <1>8
<1>10. wq = [q \in Dest |-> wq[q]] /\ wq[src] = waiting[src]
  BY <1>5, <1>8 DEF Taken, KInv, Waits
<1>11. new \in [Proc -> Messages \cup {NULL}] /\ \A q \in Proc : q # p => new[q] = msgbuf[q]
  BY <1>3, NewBufferTyped
<1>12. /\ buf \in [Proc -> Messages \cup {NULL}]
       /\ \A q \in Proc : q # p => buf[q] = msgbuf[q]
  <2>1. new[src] \in Messages
    BY <1>7, <1>8, <1>11
  <2> QED BY <1>4, <1>7, <1>11, <2>1, DeliverTyped
<1>13. \A q \in ToSet(waiting[src]) :
          q # src /\ state[q] = state[q] /\ buf[q] = msgbuf[q]
  <2>1. \A q \in ToSet(waiting[src]) : q \in Senders /\ q \in Proc
    BY <1>8 DEF KInv, Waits, Senders
  <2>2. src \notin ToSet(waiting[src])
    BY <1>6, <1>7, <1>8 DEF KInv, Waits
  <2> QED BY <1>6, <1>12, <2>1, <2>2
<1>14. \/ state' = [state EXCEPT ![src] = "RECEIVING"] /\ msgbuf' = buf
       \/ \E r \in Proc :
             /\ r # src /\ state[r] = "SENDING" /\ HandsOver(r, src)
             /\ state' = [state EXCEPT ![src] = "ACTIVE", ![r] = "ACTIVE"]
             /\ \A q \in Proc : q # src => msgbuf'[q] = buf[q]
             /\ msgbuf'[src] = NULL \/ msgbuf'[src].type = REPLY
  BY <1>6, <1>7, <1>9, <1>10, <1>12, <1>13, AwaitReplyWakes
<1>15. CASE state' = [state EXCEPT ![src] = "RECEIVING"] /\ msgbuf' = buf
  <2>1. \A q \in Proc : ~Wakes(q)
    BY <1>6, <1>15 DEF Wakes
  <2>2. CallsKept
    BY <1>6, <1>12, <1>15 DEF CallsKept
  <2> QED BY <2>1, <2>2 DEF AllWakeWell
<1>16. CASE \E r \in Proc :
             /\ r # src /\ state[r] = "SENDING" /\ HandsOver(r, src)
             /\ state' = [state EXCEPT ![src] = "ACTIVE", ![r] = "ACTIVE"]
             /\ \A q \in Proc : q # src => msgbuf'[q] = buf[q]
             /\ msgbuf'[src] = NULL \/ msgbuf'[src].type = REPLY
  <2>1. PICK r \in Proc :
             /\ r # src /\ state[r] = "SENDING" /\ HandsOver(r, src)
             /\ state' = [state EXCEPT ![src] = "ACTIVE", ![r] = "ACTIVE"]
             /\ \A q \in Proc : q # src => msgbuf'[q] = buf[q]
             /\ msgbuf'[src] = NULL \/ msgbuf'[src].type = REPLY
    BY <1>16
  <2>2. \A q \in Proc : Wakes(q) => q = src \/ q = r
    BY <1>6, <2>1 DEF Wakes
  <2>3. WakesWell(src) /\ WakesWell(r)
    BY <1>7, <1>8, <2>1 DEF WakesWell
  <2>4. CallsKept
    BY <1>6, <1>7, <1>12, <2>1 DEF CallsKept
  <2> QED BY <2>2, <2>3, <2>4 DEF AllWakeWell
<1> QED BY <1>14, <1>15, <1>16

LEMMA TickCallWakesWell ==
    ASSUME SmallDelays, KInv, MInv, NEW p \in Proc, TickCall(p)
    PROVE  AllWakeWell
<1>1. MayTick
  BY ListedIsTimed DEF KInv, TimeoutsInv, MayTick, Timed
<1>2. PICK f : MiniTick(TICK, f) /\ Fire(f)
  BY <1>1 DEF TickCall
<1>3. \A q \in ToSet(f) : q \in Timed /\ timeout[q] < ticks
  <2>1. Lists(f, {q \in Timed : timeout[q] < ticks})
    BY <1>2, MiniTickStep DEF KInv
  <2> QED BY <2>1 DEF Lists
<1>4. PICK E : E = ToSet(f)
  OBVIOUS
<1>5. \A q \in E : q \in Proc /\ q \in Timed /\ state[q] = "RECEIVING" /\ timeout[q] < ticks
  BY <1>3, <1>4 DEF KInv, TimedOnlyWaiting, Timed
<1>6. /\ state' = [q \in Proc |-> IF q \in E THEN "ACTIVE" ELSE state[q]]
      /\ msgbuf' = [q \in Proc |-> IF q \in E THEN Special(msgbuf, q, TIMEOUT)[q]
                                   ELSE msgbuf[q]]
  BY <1>2, <1>4 DEF Fire
<1>7. ASSUME NEW q \in Proc, Wakes(q) PROVE WakesWell(q)
  <2>1. q \in E /\ state[q] = "RECEIVING"
    BY <1>5, <1>6, <1>7 DEF Wakes
  <2>2. msgbuf'[q] # NULL => msgbuf'[q] = [type |-> TIMEOUT, sender |-> HARDWARE]
    BY <1>6, <2>1, Delivered DEF Special, MInv, MessagesTyped
  <2> QED BY <1>5, <2>1, <2>2 DEF WakesWell, FromHardware
<1>8. CallsKept
  BY <1>5, <1>6 DEF CallsKept
<1> QED BY <1>7, <1>8 DEF AllWakeWell

LEMMA HandleIrqWakesWell ==
    ASSUME KInv, MInv, NEW irq \in Irqs, HandleIrq(irq)
    PROVE  AllWakeWell
<1>1. PICK d : d = handler[irq]
  OBVIOUS
<1>2. /\ Interrupt(d) /\ d \in Dest /\ state \in [Proc -> States]
      /\ msgbuf \in [Proc -> Messages \cup {NULL}]
  BY <1>1 DEF HandleIrq, KInv, KernelTyped, MInv, MessagesTyped
<1>3. CASE Accepts(d, INTERRUPT)
  <2>1. /\ state' = [state EXCEPT ![d] = "ACTIVE"]
        /\ msgbuf' = Special(msgbuf, d, INTERRUPT)
    BY <1>2, <1>3 DEF Interrupt
  <2>2. d \in Proc /\ state[d] = "RECEIVING" /\ filter[d] \in {ANY, INTERRUPT}
    BY <1>2, <1>3, Receiver
  <2>3. \A q \in Proc : q # d => msgbuf'[q] = msgbuf[q]
    BY <1>2, <2>1, <2>2, SpecialTyped
  <2>4. msgbuf'[d] # NULL => msgbuf'[d] = [type |-> INTERRUPT, sender |-> HARDWARE]
    BY <1>2, <2>1, <2>2, Delivered DEF Special
  <2>5. WakesWell(d)
    BY <2>2, <2>4 DEF WakesWell, FromHardware
  <2>6. \A q \in Proc : Wakes(q) => q = d
    BY <1>2, <2>1 DEF Wakes
  <2>7. CallsKept
    BY <1>2, <2>1, <2>2, <2>3 DEF CallsKept
  <2> QED BY <2>5, <2>6, <2>7 DEF AllWakeWell
<1>4. CASE ~Accepts(d, INTERRUPT)
  BY <1>2, <1>4, WakesNone DEF Interrupt
<1> QED BY <1>3, <1>4

\* The steps that wake none: system calls that only concern the process that
\* makes them, refusals, and the start of the system.
LEMMA OthersWakeNone ==
    ASSUME SmallDelays, KInv, MInv, NEW p \in Proc, NEW f, NEW b, NEW d \in Dest, NEW t,
           \/ Start(p) \/ LateStart(p) \/ Yield(p) \/ Exit(p)
           \/ BadDest(p, d) \/ SendLater(p, d, t) \/ SendrecLater(p, d, t)
           \/ SendrecReply(p, d) \/ ReceiveInterrupt(p, f, b) \/ ReceivePoll(p, f, b)
           \/ ReceiveWait(p, f, b) \/ (\E ms \in Delays : ReceiveTimed(p, f, b, ms))
           \/ Configure(p)
    PROVE  AllWakeWell /\ \A q \in Proc : ~Wakes(q)
<1>1. CASE \/ LateStart(p) \/ Yield(p) \/ BadDest(p, d) \/ SendrecReply(p, d)
           \/ Configure(p)
  <2>1. UNCHANGED <<state, msgbuf>>
    BY <1>1 DEF LateStart, Yield, BadDest, SendrecReply, Configure, Connect, EnableIrq,
       SetPriority, BadPriority, Panic, processVars
  <2> QED BY <2>1, WakesNone
<1>2. CASE Start(p)
  BY <1>2, WakesNone DEF Start, KInv, KernelTyped
<1>3. CASE Exit(p)
  BY <1>3, CallerWakesNone DEF Exit, KInv, KernelTyped
<1>4. CASE SendLater(p, d, t)
  <2>1. Calls(p) /\ QueueSender(p, d, [Blank EXCEPT !.type = t], "SENDING")
    BY <1>4 DEF SendLater
  <2> QED BY <2>1, QueueSenderWakesNone
<1>5. CASE SendrecLater(p, d, t)
  <2>1. Calls(p) /\ QueueSender(p, d, [Blank EXCEPT !.type = t], "SENDREC") /\ t # REPLY
    BY <1>5 DEF SendrecLater
  <2> QED BY <2>1, QueueSenderWakesNone
<1>6. CASE ReceiveInterrupt(p, f, b) \/ ReceivePoll(p, f, b)
  <2>1. /\ Calls(p) /\ state' = state
        /\ \E k \in {INTERRUPT, TIMEOUT} : msgbuf' = Special(NewBuffer(p, b), p, k)
    BY <1>6 DEF ReceiveInterrupt, ReceivePoll, NoMessage
  <2>2. \A q \in Proc : q # p => msgbuf'[q] = msgbuf[q]
    BY <2>1, NewBufferTyped, SpecialTyped
  <2>3. state[p] = "ACTIVE"
    BY <2>1, Caller
  <2> QED BY <2>1, <2>2, <2>3, CallerWakesNone
<1>7. ASSUME Calls(p), Block(p, f, b) PROVE AllWakeWell /\ \A q \in Proc : ~Wakes(q)
  <2>1. \A q \in Proc : q # p => msgbuf'[q] = msgbuf[q]
    BY <1>7, NewBufferTyped DEF Block
  <2> QED BY <1>7, <2>1, CallerWakesNone DEF Block, KInv, KernelTyped
<1>8. CASE ReceiveWait(p, f, b)
  BY <1>7, <1>8 DEF ReceiveWait, NoMessage
<1>9. ASSUME NEW ms \in Delays, ReceiveTimed(p, f, b, ms)
      PROVE  AllWakeWell /\ \A q \in Proc : ~Wakes(q)
  <2>1. Calls(p)
    BY <1>9 DEF ReceiveTimed, NoMessage
  <2>2. MaySet(p)
    BY <2>1, Caller, TimeoutsFit DEF Timed, MaySet, KInv, TimeoutsInv
  <2> QED BY <1>7, <1>9, <2>1, <2>2 DEF ReceiveTimed
<1> QED BY <1>1, <1>2, <1>3, <1>4, <1>5, <1>6, <1>8, <1>9

\* The call of mini_send() that finds a receiver: cancel_timeout()'s
\* assertions hold.
LEMMA SendNowMeets ==
    ASSUME KInv, NEW p \in Proc, NEW d \in Dest, NEW t, SendNow(p, d, t)
    PROVE  Calls(p) /\ Accepts(d, t) /\ Meet(p, d, t)
<1>1. Calls(p) /\ Accepts(d, t)
  BY DEF SendNow
<1>2. d \in Proc
  BY <1>1, Receiver
<1>3. timeout[d] # NO_TIME => MayCancel(d)
  BY <1>2, ListedIsTimed DEF KInv, TimeoutsInv, MayCancel, Timed
<1> QED BY <1>1, <1>3 DEF SendNow

\* Every step is one of those that wake none, or one of six that may.
LEMMA StepsThatWake ==
    ASSUME SmallDelays, KInv, MInv, Next
    PROVE  \/ AllWakeWell /\ \A q \in Proc : ~Wakes(q)
           \/ \E p \in Proc, d \in Dest :
                 \/ \E t \in SendTypes : SendNow(p, d, t)
                 \/ \E t \in SendrecTypes : SendrecNow(p, d, t)
           \/ \E p \in Proc, f \in Filters \cup TimedFilters, b \in Buffers :
                 ReceiveSent(p, f, b) \/ ReceiveCall(p, f, b)
           \/ \E p \in Proc : TickCall(p)
           \/ \E irq \in Irqs : HandleIrq(irq)
<1> DEFINE None == AllWakeWell /\ \A q \in Proc : ~Wakes(q)
<1>0. IDLE \in Dest
  BY DEF Dest
<1>1. ASSUME NEW p \in Proc, Start(p) \/ LateStart(p) \/ Yield(p) \/ Exit(p) \/ Configure(p)
      PROVE  None
  BY <1>0, <1>1, OthersWakeNone
<1>2. ASSUME NEW p \in Proc, NEW d \in Dest, NEW t,
             BadDest(p, d) \/ SendLater(p, d, t) \/ SendrecLater(p, d, t) \/ SendrecReply(p, d)
      PROVE  None
  BY <1>2, OthersWakeNone
<1>3. ASSUME NEW p \in Proc, NEW f, NEW b,
             \/ ReceiveInterrupt(p, f, b) \/ ReceivePoll(p, f, b) \/ ReceiveWait(p, f, b)
             \/ \E ms \in Delays : ReceiveTimed(p, f, b, ms)
      PROVE  None
  BY <1>0, <1>3, OthersWakeNone
<1>4. ASSUME Boot \/ IdleYield \/ \E irq \in Irqs : BadIrq(irq) PROVE None
  <2>1. UNCHANGED <<state, msgbuf>>
    BY <1>4 DEF Boot, IdleYield, BadIrq, Panic, processVars
  <2> QED BY <2>1, WakesNone
<1> HIDE DEF None
<1>5. ASSUME NEW p \in Proc, Send(p)
      PROVE  None \/ \E d \in Dest, t \in SendTypes : SendNow(p, d, t)
  BY <1>2, <1>5 DEF Send
<1>6. ASSUME NEW p \in Proc, Sendrec(p)
      PROVE  None \/ \E d \in Dest, t \in SendrecTypes : SendrecNow(p, d, t)
  BY <1>2, <1>6 DEF Sendrec
<1>7. ASSUME NEW p \in Proc, Receive(p) \/ ReceiveT(p)
      PROVE  None \/ \E f \in Filters \cup TimedFilters, b \in Buffers :
                        ReceiveSent(p, f, b) \/ ReceiveCall(p, f, b)
  BY <1>3, <1>7 DEF Receive, ReceiveT
<1>8. \/ None
      \/ \E p \in Proc, d \in Dest :
            \/ \E t \in SendTypes : SendNow(p, d, t)
            \/ \E t \in SendrecTypes : SendrecNow(p, d, t)
      \/ \E p \in Proc, f \in Filters \cup TimedFilters, b \in Buffers :
            ReceiveSent(p, f, b) \/ ReceiveCall(p, f, b)
      \/ \E p \in Proc : TickCall(p)
      \/ \E irq \in Irqs : HandleIrq(irq)
  <2>1. ASSUME NEW p \in Proc,
               \/ Start(p) \/ LateStart(p) \/ Yield(p) \/ Exit(p)
               \/ Send(p) \/ Sendrec(p) \/ Receive(p) \/ ReceiveT(p)
               \/ TickCall(p) \/ Configure(p)
        PROVE  \/ None
               \/ \E d \in Dest : \/ \E t \in SendTypes : SendNow(p, d, t)
                                  \/ \E t \in SendrecTypes : SendrecNow(p, d, t)
               \/ \E f \in Filters \cup TimedFilters, b \in Buffers :
                     ReceiveSent(p, f, b) \/ ReceiveCall(p, f, b)
               \/ TickCall(p)
    BY <1>1, <1>5, <1>6, <1>7, <2>1
  <2>2. \/ \E p \in Proc :
              \/ Start(p) \/ LateStart(p) \/ Yield(p) \/ Exit(p)
              \/ Send(p) \/ Sendrec(p) \/ Receive(p) \/ ReceiveT(p)
              \/ TickCall(p) \/ Configure(p)
        \/ Boot \/ IdleYield \/ \E irq \in Irqs : HandleIrq(irq) \/ BadIrq(irq)
    BY DEF Next
  <2>3. CASE \E p \in Proc :
              \/ Start(p) \/ LateStart(p) \/ Yield(p) \/ Exit(p)
              \/ Send(p) \/ Sendrec(p) \/ Receive(p) \/ ReceiveT(p)
              \/ TickCall(p) \/ Configure(p)
    BY <2>1, <2>3
  <2>4. CASE Boot \/ IdleYield \/ \E irq \in Irqs : HandleIrq(irq) \/ BadIrq(irq)
    BY <1>4, <2>4
  <2> QED BY <2>2, <2>3, <2>4
<1> QED BY <1>8 DEF None

LEMMA NextWakesWell ==
    ASSUME SmallDelays, KInv, MInv, NoReplyCalls, [Next]_vars
    PROVE  AllWakeWell
<1>1. CASE Next
  <2>1. ASSUME NEW p \in Proc, NEW d \in Dest, NEW t \in SendTypes, SendNow(p, d, t)
        PROVE  AllWakeWell
    BY <2>1, SendNowMeets, MeetWakesWell
  <2> QED BY <1>1, <2>1, StepsThatWake, SendrecNowWakesWell, ReceiveSentWakesWell,
             ReceiveCallWakesWell, TickCallWakesWell, HandleIrqWakesWell
<1>2. CASE UNCHANGED vars
  BY <1>2, WakesNone DEF vars, processVars
<1> QED BY <1>1, <1>2

LEMMA NoReplyCallsNext ==
    ASSUME NoReplyCalls, AllWakeWell
    PROVE  NoReplyCalls'
BY DEF NoReplyCalls, AllWakeWell, CallsKept

\* No process waits in sendrec() with a REPLY, so whoever sends one is let go
\* when it is taken.
THEOREM CallsInvariance ==
    ASSUME Disciplined, SmallDelays
    PROVE  Spec => [](KInv /\ MInv /\ NoReplyCalls)
<1>1. Init => NoReplyCalls
  BY DEF Init, NoReplyCalls
<1>2. KInv /\ MInv /\ NoReplyCalls /\ [Next]_vars => NoReplyCalls'
  BY NextWakesWell, NoReplyCallsNext
<1> QED BY <1>1, <1>2, MessagesInvariance, PTL DEF Spec

\* A process that made a sendrec() runs again only with a REPLY: whatever wakes
\* it in between is refused by its filter, and a reply already queued ends it.
THEOREM CallGetsReplyCorrect ==
    ASSUME Disciplined, SmallDelays
    PROVE  Spec => CallGetsReply
<1>1. KInv /\ MInv /\ NoReplyCalls /\ [Next]_vars =>
          \A p \in Proc :
              /\ Wakes(p)
              /\ \/ state[p] = "SENDREC"
                 \/ state[p] = "RECEIVING" /\ filter[p] = REPLY /\ p \notin Timed
              => msgbuf'[p] = NULL \/ msgbuf'[p].type = REPLY
  <2> SUFFICES ASSUME KInv, MInv, NoReplyCalls, [Next]_vars, NEW p \in Proc, Wakes(p),
                      \/ state[p] = "SENDREC"
                      \/ state[p] = "RECEIVING" /\ filter[p] = REPLY /\ p \notin Timed,
                      msgbuf'[p] # NULL
               PROVE  msgbuf'[p].type = REPLY
    OBVIOUS
  <2>1. WakesWell(p)
    BY NextWakesWell DEF AllWakeWell
  <2> QED BY <2>1 DEF WakesWell, FromSender, FromHardware, REPLY, ANY, INTERRUPT
<1> QED BY <1>1, CallsInvariance, PTL DEF Spec, CallGetsReply

\* A receiver wakes with a message that its filter accepts, from a process
\* that sends it or waited to, or from the hardware.
THEOREM ReceivesCorrect ==
    ASSUME Disciplined, SmallDelays
    PROVE  Spec => ReceivesWhatItAsked
<1>1. KInv /\ MInv /\ NoReplyCalls /\ [Next]_vars =>
          \A p \in Proc :
              state[p] = "RECEIVING" /\ Wakes(p) /\ msgbuf'[p] # NULL =>
                 FromSender(p, msgbuf'[p]) \/ FromHardware(p, msgbuf'[p])
  BY NextWakesWell DEF AllWakeWell, WakesWell
<1> QED BY <1>1, CallsInvariance, PTL DEF Spec, ReceivesWhatItAsked

\* A send() ends when its message is in the receiver's hands, and not before.
THEOREM SendsCorrect ==
    ASSUME Disciplined, SmallDelays
    PROVE  Spec => SendEndsByHandover
<1>1. KInv /\ MInv /\ NoReplyCalls /\ [Next]_vars =>
          \A p \in Proc : state[p] = "SENDING" /\ Wakes(p) =>
             \E d \in Proc :
                /\ p \in ToSet(waiting[d]) \ ToSet(waiting'[d])
                /\ \/ msgbuf'[d] = NULL
                   \/ msgbuf'[d] = [type |-> msgbuf[p].type, sender |-> p]
  BY NextWakesWell DEF AllWakeWell, WakesWell, HandsOver
<1> QED BY <1>1, CallsInvariance, PTL DEF Spec, SendEndsByHandover

-----------------------------------------------------------------------------
(* The handlers of interrupts come first *)

Handlers == {q \in Proc : prio[q] = P_HANDLER}

\* The queue of highest priority holds handlers only.
HandlersOnly(rq) ==
    /\ rq = [k \in Prio |-> rq[k]]
    /\ rq[P_HANDLER] \in Seq(Handlers)

LEMMA ReadyHandlersOnly ==
    ASSUME KInv
    PROVE  HandlersOnly(readyq)
<1>1. P_HANDLER \in Prio
  BY DEF Prio, P_HANDLER, P_LOW
<1>2. PICK S : S = {q \in Active \ {current} : prio[q] = P_HANDLER}
  OBVIOUS
<1>3. readyq[P_HANDLER] \in Seq(S)
  BY <1>1, <1>2 DEF KInv, Queued, Lists
<1>4. S \subseteq Handlers
  BY <1>2 DEF Handlers, Active
<1>5. readyq[P_HANDLER] \in Seq(Handlers)
  BY <1>3, <1>4
<1> QED BY <1>5 DEF HandlersOnly, KInv, Queued

LEMMA EnqueueHandlersOnly ==
    ASSUME KInv, NEW rq, HandlersOnly(rq), NEW p \in Proc
    PROVE  HandlersOnly(Enqueue(rq, p))
<1>1. P_HANDLER \in Prio /\ prio[p] \in Prio
  BY DEF Prio, P_HANDLER, P_LOW, KInv, KernelTyped
<1>2. Enqueue(rq, p) = [k \in Prio |-> Enqueue(rq, p)[k]]
  BY DEF HandlersOnly, Enqueue
<1>3. CASE prio[p] = P_HANDLER
  <2>1. Enqueue(rq, p)[P_HANDLER] = Append(rq[P_HANDLER], p) /\ p \in Handlers
    BY <1>1, <1>3 DEF HandlersOnly, Enqueue, Handlers
  <2> QED BY <1>2, <2>1 DEF HandlersOnly
<1>4. CASE prio[p] # P_HANDLER
  <2>1. Enqueue(rq, p)[P_HANDLER] = rq[P_HANDLER]
    BY <1>1, <1>4 DEF HandlersOnly, Enqueue
  <2> QED BY <1>2, <2>1 DEF HandlersOnly
<1> QED BY <1>3, <1>4

\* choose_proc() takes a handler when one is ready afterwards or is chosen.
LEMMA ChooseHandler ==
    ASSUME KInv, KInv', UNCHANGED prio, NEW rq, HandlersOnly(rq), ChooseProc(rq),
           NEW p \in Handlers, state'[p] = "ACTIVE"
    PROVE  CurrentPrio' = P_HANDLER
<1>1. P_HANDLER \in Prio /\ \A k \in Prio : k # P_HANDLER => P_HANDLER < k
  BY DEF Prio, P_HANDLER, P_LOW
<1>2. p \in Proc /\ p # IDLE /\ prio'[p] = P_HANDLER
  BY KernelAssumption DEF Handlers
<1>3. CASE current' = p
  BY <1>2, <1>3 DEF CurrentPrio
<1>4. CASE current' # p
  <2>1. readyq'[P_HANDLER] # <<>>
    <3>1. PICK S : S = {q \in Active' \ {current'} : prio'[q] = P_HANDLER}
      OBVIOUS
    <3>2. Lists(readyq'[P_HANDLER], S)
      BY <1>1, <3>1 DEF KInv, Queued
    <3>3. p \in S
      BY <1>2, <1>4, <3>1 DEF Active
    <3> QED BY <3>2, <3>3, ListsEmpty
  <2>2. rq[P_HANDLER] # <<>>
    <3>1. CASE \E k \in Prio : First(rq, k) /\ readyq' = [rq EXCEPT ![k] = Tail(rq[k])]
      <4>1. PICK k \in Prio : First(rq, k) /\ readyq' = [rq EXCEPT ![k] = Tail(rq[k])]
        BY <3>1
      <4>2. CASE k = P_HANDLER
        BY <4>1, <4>2 DEF First
      <4>3. CASE k # P_HANDLER
        BY <1>1, <2>1, <4>1, <4>3 DEF HandlersOnly
      <4> QED BY <4>2, <4>3
    <3>2. CASE readyq' = rq
      BY <2>1, <3>2
    <3> QED BY <3>1, <3>2 DEF ChooseProc
  <2>3. PICK k \in Prio : First(rq, k) /\ current' = Head(rq[k])
    BY <1>1, <2>2 DEF ChooseProc
  <2>4. k = P_HANDLER
    BY <1>1, <2>2, <2>3 DEF First
  <2>5. current' \in Handlers
    BY <2>2, <2>3, <2>4 DEF HandlersOnly
  <2> QED BY <2>5, KernelAssumption DEF CurrentPrio, Handlers
<1> QED BY <1>3, <1>4

LEMMA AwaitReplyChooses ==
    ASSUME KInv, MInv, NEW p \in Proc, NEW st, NEW wq, NEW buf,
           NEW rq, HandlersOnly(rq), AwaitReply(p, st, wq, buf, rq)
    PROVE  \E new : HandlersOnly(new) /\ ChooseProc(new)
<1>1. CASE FirstSender(p, REPLY) # {}
  <2>1. PICK i \in FirstSender(p, REPLY) :
            ChooseProc(Enqueue(Enqueue(rq, p), waiting[p][i]))
    BY <1>1 DEF AwaitReply
  <2>2. waiting[p][i] \in Proc
    BY <2>1, InQueue DEF FirstSender, Dest
  <2>3. HandlersOnly(Enqueue(Enqueue(rq, p), waiting[p][i]))
    BY <2>2, EnqueueHandlersOnly
  <2> QED BY <2>1, <2>3
<1>2. CASE FirstSender(p, REPLY) = {}
  BY <1>2 DEF AwaitReply
<1> QED BY <1>1, <1>2

\* Messages that wake a process end in choose_proc().
LEMMA MessageChooses ==
    ASSUME KInv, MInv, NEW p \in Proc,
           \/ \E d \in Dest, t \in SendTypes : SendNow(p, d, t)
           \/ \E d \in Dest, t \in SendrecTypes : SendrecNow(p, d, t)
           \/ \E f, b : ReceiveSent(p, f, b)
           \/ \E f, b : ReceiveCall(p, f, b)
    PROVE  UNCHANGED prio /\ \E rq : HandlersOnly(rq) /\ ChooseProc(rq)
<1>1. HandlersOnly(readyq)
  BY ReadyHandlersOnly
<1>2. ASSUME NEW d \in Dest, NEW t \in SendTypes, SendNow(p, d, t)
      PROVE  UNCHANGED prio /\ \E rq : HandlersOnly(rq) /\ ChooseProc(rq)
  <2>1. d \in Proc /\ Meet(p, d, t)
    BY <1>2, SendNowMeets, Receiver
  <2>2. HandlersOnly(Enqueue(Enqueue(readyq, d), p))
    BY <1>1, <2>1, EnqueueHandlersOnly
  <2> QED BY <2>1, <2>2 DEF Meet
<1>3. ASSUME NEW d \in Dest, NEW t \in SendrecTypes, SendrecNow(p, d, t)
      PROVE  UNCHANGED prio /\ \E rq : HandlersOnly(rq) /\ ChooseProc(rq)
  <2>1. d \in Proc
    BY <1>3, Receiver DEF SendrecNow
  <2>2. HandlersOnly(Enqueue(readyq, d))
    BY <1>1, <2>1, EnqueueHandlersOnly
  <2> QED BY <1>3, <2>2, AwaitReplyChooses DEF SendrecNow
<1>4. ASSUME NEW f, NEW b, ReceiveSent(p, f, b)
      PROVE  UNCHANGED prio /\ \E rq : HandlersOnly(rq) /\ ChooseProc(rq)
  <2>1. PICK i \in Sender(p, f) :
            ChooseProc(Enqueue(Enqueue(readyq, p), waiting[p][i]))
    BY <1>4 DEF ReceiveSent
  <2>2. waiting[p][i] \in Proc
    BY <2>1, InQueue DEF Sender, FirstSender, Dest
  <2>3. HandlersOnly(Enqueue(Enqueue(readyq, p), waiting[p][i]))
    BY <1>1, <2>2, EnqueueHandlersOnly
  <2> QED BY <1>4, <2>1, <2>3 DEF ReceiveSent
<1>5. ASSUME NEW f, NEW b, ReceiveCall(p, f, b)
      PROVE  UNCHANGED prio /\ \E rq : HandlersOnly(rq) /\ ChooseProc(rq)
  <2>1. PICK i \in Sender(p, f) :
            /\ state[waiting[p][i]] # "SENDING"
            /\ IF state[waiting[p][i]] = "SENDREC"
               THEN /\ AwaitReply(waiting[p][i], state, Taken(p, i),
                                  Deliver(NewBuffer(p, b), p, waiting[p][i]),
                                  Enqueue(readyq, p))
                    /\ UNCHANGED <<prio, pending, irqVars, phase, panic, timeoutVars>>
               ELSE Panic("Bad state in receive()")
    BY <1>5 DEF ReceiveCall
  <2>2. waiting[p][i] \in Senders
    BY <2>1, InQueue DEF Sender, FirstSender, Dest
  <2>3. /\ AwaitReply(waiting[p][i], state, Taken(p, i),
                      Deliver(NewBuffer(p, b), p, waiting[p][i]), Enqueue(readyq, p))
        /\ UNCHANGED prio
    BY <2>1, <2>2 DEF Senders, Blocked
  <2>4. waiting[p][i] \in Proc
    BY <2>1, InQueue DEF Sender, FirstSender, Dest
  <2>5. HandlersOnly(Enqueue(readyq, p))
    BY <1>1, EnqueueHandlersOnly
  <2> QED BY <2>3, <2>4, <2>5, AwaitReplyChooses
<1> QED BY <1>2, <1>3, <1>4, <1>5

LEMMA NextPrompt ==
    ASSUME SmallDelays, KInv, MInv, KInv', Next,
           NEW p \in Proc, Wakes(p), prio[p] = P_HANDLER
    PROVE  CurrentPrio' = P_HANDLER
<1>1. p \in Handlers /\ state'[p] = "ACTIVE"
  BY DEF Handlers, Wakes
<1>2. CASE UNCHANGED prio /\ \E rq : HandlersOnly(rq) /\ ChooseProc(rq)
  BY <1>1, <1>2, ChooseHandler
<1>3. ASSUME NEW q \in Proc, TickCall(q) PROVE CurrentPrio' = P_HANDLER
  <2>1. Calls(q) /\ prio[q] = P_HANDLER /\ MayTick
    BY <1>3, ListedIsTimed DEF TickCall, KInv, TimeoutsInv, MayTick, Timed
  <2>2. UNCHANGED <<prio, current>>
    BY <1>3, <2>1 DEF TickCall
  <2> QED BY <2>1, <2>2, KernelAssumption DEF Calls, CurrentPrio
<1>4. ASSUME NEW irq \in Irqs, HandleIrq(irq) PROVE CurrentPrio' = P_HANDLER
  <2>1. PICK d : d = handler[irq]
    OBVIOUS
  <2>2. Interrupt(d) /\ d \in Dest /\ UNCHANGED prio
    BY <1>4, <2>1 DEF HandleIrq, KInv, KernelTyped
  <2>3. Accepts(d, INTERRUPT)
    BY <2>2 DEF Interrupt, Wakes
  <2>4. d \in Proc
    BY <2>2, <2>3, Receiver
  <2>5. HandlersOnly(Enqueue(readyq, d))
    BY <2>4, ReadyHandlersOnly, EnqueueHandlersOnly
  <2>6. CASE Preempts
    <3>1. ChooseProc(EnqueueCurrent(Enqueue(readyq, d)))
      BY <2>2, <2>3, <2>6 DEF Interrupt
    <3>2. current # IDLE => current \in Proc
      BY <1>4 DEF HandleIrq, Raise, KInv, KernelTyped, CurrentActive, Dest
    <3>3. HandlersOnly(EnqueueCurrent(Enqueue(readyq, d)))
      BY <2>5, <3>2, EnqueueHandlersOnly DEF EnqueueCurrent
    <3> QED BY <1>2, <2>2, <3>1, <3>3
  <2>7. CASE ~Preempts
    <3>1. UNCHANGED <<prio, current>>
      BY <2>2, <2>3, <2>7 DEF Interrupt
    <3>2. current # IDLE /\ current \in Proc /\ prio[current] \in Prio
      BY <1>4, <2>7 DEF HandleIrq, Raise, KInv, KernelTyped, CurrentActive, Dest,
         Preempts, CurrentPrio, P_IDLE, P_HANDLER
    <3>3. prio[current] = P_HANDLER
      BY <2>7, <3>2 DEF Preempts, CurrentPrio, P_HANDLER, Prio
    <3> QED BY <3>1, <3>2, <3>3 DEF CurrentPrio
  <2> QED BY <2>6, <2>7
<1> QED BY <1>2, <1>3, <1>4, StepsThatWake, MessageChooses

\* A handler that wakes is not kept waiting by any process of lower priority,
\* however it is woken: each message ends in choose_proc(), which takes the
\* handlers first, and an interrupt preempts all but a handler.
THEOREM PromptDispatchCorrect ==
    ASSUME Disciplined, SmallDelays
    PROVE  Spec => PromptDispatch
<1>1. KInv /\ MInv /\ KInv' /\ [Next]_vars =>
          \A p \in Proc : Wakes(p) /\ prio[p] = P_HANDLER => CurrentPrio' = P_HANDLER
  <2> SUFFICES ASSUME KInv, MInv, KInv', [Next]_vars, NEW p \in Proc, Wakes(p),
                      prio[p] = P_HANDLER
               PROVE  CurrentPrio' = P_HANDLER
    OBVIOUS
  <2>1. Next
    BY DEF vars, processVars, Wakes
  <2> QED BY <2>1, NextPrompt
<1> QED BY <1>1, MessagesInvariance, PTL DEF Spec, PromptDispatch
=============================================================================
