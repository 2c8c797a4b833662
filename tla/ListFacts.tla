----------------------------- MODULE ListFacts ------------------------------
(***************************************************************************)
(* What the operations on lists do to the set of the processes listed.     *)
(***************************************************************************)
EXTENDS Lists, SequenceTheorems, TLAPS

\* A list is a function on 1 .. Len(s), with values in the set.
LEMMA ListsDomain ==
    ASSUME NEW S, NEW s, Lists(s, S)
    PROVE  /\ Len(s) \in Nat
           /\ DOMAIN s = 1 .. Len(s)
           /\ \A i \in 1 .. Len(s) : s[i] \in S
           /\ \A p \in S : \E i \in 1 .. Len(s) : s[i] = p
           /\ \A i, j \in 1 .. Len(s) : s[i] = s[j] => i = j
BY LenProperties, ElementOfSeq DEF Lists, ToSet, IsInjective

\* The converse, the form in which the other lemmas use the definition.
LEMMA ListsIntro ==
    ASSUME NEW S, NEW s \in Seq(S),
           \A p \in S : \E i \in 1 .. Len(s) : s[i] = p,
           \A i, j \in 1 .. Len(s) : s[i] = s[j] => i = j
    PROVE  Lists(s, S)
<1>1. DOMAIN s = 1 .. Len(s)
  BY LenProperties
<1>2. ToSet(s) = S
  BY <1>1, ElementOfSeq DEF ToSet
<1>3. IsInjective(s)
  BY <1>1 DEF IsInjective
<1> QED BY <1>2, <1>3 DEF Lists

\* The empty list lists nothing, and only it does.
LEMMA ListsEmpty ==
    ASSUME NEW S, NEW s, Lists(s, S)
    PROVE  s = <<>> <=> S = {}
<1>1. s = <<>> => S = {}
  BY DEF Lists, ToSet
<1>2. s # <<>> => Len(s) \in Nat \ {0}
  BY EmptySeq DEF Lists
<1>3. s # <<>> => S # {}
  BY <1>2, ElementOfSeq DEF Lists
<1> QED BY <1>1, <1>3

LEMMA ListsNone == Lists(<<>>, {})
BY EmptySeq DEF Lists, ToSet, IsInjective

\* A process that is not in a list can join it at the end.
LEMMA ListsAppend ==
    ASSUME NEW S, NEW s, Lists(s, S), NEW p, p \notin S
    PROVE  Lists(Append(s, p), S \cup {p})
<1> DEFINE T == S \cup {p}
           t == Append(s, p)
<1>1. s \in Seq(T) /\ p \in T
  <2>1. s \in [1 .. Len(s) -> T]
    BY LenProperties DEF Lists
  <2> QED BY <2>1, LenProperties DEF Lists
<1>2. /\ t \in Seq(T) /\ Len(t) = Len(s) + 1
      /\ \A i \in 1 .. Len(s) : t[i] = s[i]
      /\ t[Len(s) + 1] = p
  BY <1>1, AppendProperties
<1>3. \A q \in T : \E i \in 1 .. Len(t) : t[i] = q
  <2>1. ASSUME NEW q \in S PROVE \E i \in 1 .. Len(t) : t[i] = q
    <3>1. PICK i \in 1 .. Len(s) : s[i] = q
      BY ListsDomain
    <3> QED BY <1>2, <3>1, ListsDomain
  <2>2. \E i \in 1 .. Len(t) : t[i] = p
    BY <1>2, ListsDomain
  <2> QED BY <2>1, <2>2
<1>4. \A i, j \in 1 .. Len(t) : t[i] = t[j] => i = j
  BY <1>2, ListsDomain
<1> HIDE DEF T, t
<1>5. Lists(t, T)
  BY <1>2, <1>3, <1>4, ListsIntro
<1> QED BY <1>5 DEF T, t

\* The first member of a list can leave it.
LEMMA ListsTail ==
    ASSUME NEW S, NEW s, Lists(s, S), s # <<>>
    PROVE  /\ Head(s) \in S
           /\ Lists(Tail(s), S \ {Head(s)})
<1> DEFINE T == S \ {Head(s)}
           t == Tail(s)
<1>0. s \in Seq(S) /\ Len(s) \in Nat \ {0} /\ Head(s) = s[1]
  BY EmptySeq DEF Lists
<1>1. /\ Head(s) \in S /\ t \in Seq(S) /\ Len(t) = Len(s) - 1
      /\ \A i \in 1 .. Len(t) : t[i] = s[i + 1]
  BY <1>0, HeadTailProperties
<1>2. \A i \in 2 .. Len(s) : s[i] \in T
  BY <1>0, ListsDomain
<1>3. t \in Seq(T)
  <2>1. t = SubSeq(s, 2, Len(s))
    BY <1>0, TailIsSubSeq
  <2>2. 2 \in Int /\ Len(s) \in Int
    BY <1>0
  <2> HIDE DEF T, t
  <2>3. SubSeq(s, 2, Len(s)) \in Seq(T)
    BY <1>2, <2>2, SubSeqProperties
  <2> QED BY <2>1, <2>3
<1>4. \A q \in T : \E i \in 1 .. Len(t) : t[i] = q
  <2>1. SUFFICES ASSUME NEW q \in T PROVE \E i \in 1 .. Len(t) : t[i] = q
    OBVIOUS
  <2>2. PICK i \in 1 .. Len(s) : s[i] = q
    BY ListsDomain
  <2>3. i # 1 /\ i - 1 \in 1 .. Len(t) /\ t[i - 1] = q
    BY <1>0, <1>1, <2>2
  <2> QED BY <2>3
<1>5. \A i, j \in 1 .. Len(t) : t[i] = t[j] => i = j
  <2> HIDE DEF t
  <2>1. SUFFICES ASSUME NEW i \in 1 .. Len(t), NEW j \in 1 .. Len(t), t[i] = t[j]
                 PROVE  i = j
    OBVIOUS
  <2>2. i + 1 \in 1 .. Len(s) /\ j + 1 \in 1 .. Len(s) /\ s[i + 1] = s[j + 1]
    BY <1>0, <1>1, <2>1
  <2>3. i + 1 = j + 1
    BY <2>2, ListsDomain
  <2> QED BY <1>1, <2>1, <2>3
<1> HIDE DEF T, t
<1>6. Lists(t, T)
  BY <1>3, <1>4, <1>5, ListsIntro
<1> QED BY <1>1, <1>6 DEF T, t

\* The member at any position can leave the list.
LEMMA ListsRemoveAt ==
    ASSUME NEW S, NEW s, Lists(s, S), NEW n \in DOMAIN s
    PROVE  Lists(RemoveAt(s, n), S \ {s[n]})
<1> DEFINE T == S \ {s[n]}
           a == SubSeq(s, 1, n - 1)
           b == SubSeq(s, n + 1, Len(s))
           t == a \o b
<1>1. s \in Seq(S) /\ Len(s) \in Nat /\ n \in 1 .. Len(s)
  BY ListsDomain DEF Lists
<1>2. \A i \in 1 .. Len(s) : i # n => s[i] \in T
  BY <1>1, ListsDomain
<1>3. /\ a \in Seq(T) /\ Len(a) = n - 1
      /\ \A i \in 1 .. n - 1 : a[i] = s[i]
  BY <1>1, <1>2, SubSeqProperties
<1>4. /\ b \in Seq(T) /\ Len(b) = Len(s) - n
      /\ \A i \in 1 .. Len(s) - n : b[i] = s[i + n]
  <2>1. n + 1 \in Int /\ Len(s) \in Int /\ \A i \in n + 1 .. Len(s) : s[i] \in T
    BY <1>1, <1>2
  <2> QED BY <1>1, <2>1, SubSeqProperties
<1>5. /\ t \in Seq(T) /\ Len(t) = Len(s) - 1
      /\ \A i \in 1 .. Len(t) : t[i] = IF i < n THEN s[i] ELSE s[i + 1]
  <2>1. t \in Seq(T) /\ Len(t) = Len(a) + Len(b)
    BY <1>3, <1>4, ConcatProperties
  <2>2. \A i \in 1 .. Len(a) + Len(b) :
           t[i] = IF i <= Len(a) THEN a[i] ELSE b[i - Len(a)]
    BY <1>3, <1>4, ConcatProperties
  <2> HIDE DEF t, a, b, T
  <2>3. Len(a) + Len(b) = Len(s) - 1
    BY <1>1, <1>3, <1>4
  <2>4. ASSUME NEW i \in 1 .. Len(s) - 1
        PROVE  t[i] = IF i < n THEN s[i] ELSE s[i + 1]
    <3>0. t[i] = IF i <= n - 1 THEN a[i] ELSE b[i - Len(a)]
      <4>1. i \in 1 .. Len(a) + Len(b)
        BY <2>3
      <4>2. t[i] = IF i <= Len(a) THEN a[i] ELSE b[i - Len(a)]
        BY <2>2, <4>1
      <4> QED BY <1>3, <4>2
    <3>1. CASE i < n
      <4>1. i \in 1 .. n - 1
        BY <1>1, <3>1
      <4>2. a[i] = s[i]
        BY <1>3, <4>1
      <4> QED BY <1>1, <3>0, <3>1, <4>1, <4>2
    <3>2. CASE i >= n
      <4>1. i - Len(a) \in 1 .. Len(s) - n /\ (i - Len(a)) + n = i + 1
        BY <1>1, <1>3, <3>2
      <4>2. b[i - Len(a)] = s[i + 1]
        BY <1>4, <4>1
      <4> QED BY <1>1, <3>0, <3>2, <4>2
    <3> QED BY <1>1, <3>1, <3>2
  <2> QED BY <2>1, <2>3, <2>4
<1> HIDE DEF t, a, b
<1>6. \A q \in T : \E i \in 1 .. Len(t) : t[i] = q
  <2>1. SUFFICES ASSUME NEW q \in T PROVE \E i \in 1 .. Len(t) : t[i] = q
    OBVIOUS
  <2>2. PICK i \in 1 .. Len(s) : s[i] = q
    BY ListsDomain
  <2>3. CASE i < n
    BY <1>1, <1>5, <2>2, <2>3
  <2>4. CASE i > n
    <3>1. i - 1 \in 1 .. Len(t) /\ t[i - 1] = q
      BY <1>1, <1>5, <2>2, <2>4
    <3> QED BY <3>1
  <2> QED BY <1>1, <2>2, <2>3, <2>4
<1>7. ASSUME NEW i \in 1 .. Len(t), NEW j \in 1 .. Len(t), t[i] = t[j]
      PROVE  i = j
  <2>1. \A k, l \in 1 .. Len(s) : s[k] = s[l] => k = l
    BY ListsDomain
  <2> QED BY <1>1, <1>5, <1>7, <2>1
<1>8. t \in Seq(T)
  BY <1>5
<1> HIDE DEF T
<1>9. Lists(t, T)
  BY <1>6, <1>7, <1>8, ListsIntro
<1> QED BY <1>9 DEF t, a, b, T, RemoveAt

\* So can it when the last member takes its place.
LEMMA ListsSwapOut ==
    ASSUME NEW S, NEW s, Lists(s, S), NEW n \in DOMAIN s
    PROVE  Lists(SwapOut(s, n), S \ {s[n]})
<1> DEFINE T == S \ {s[n]}
           t == SwapOut(s, n)
<1>1. s \in Seq(S) /\ Len(s) \in Nat /\ n \in 1 .. Len(s)
  BY ListsDomain DEF Lists
<1>2. \A i \in 1 .. Len(s) : i # n => s[i] \in T
  BY <1>1, ListsDomain
<1>3. t = [j \in 1 .. Len(s) - 1 |-> IF j = n THEN s[Len(s)] ELSE s[j]]
  BY DEF SwapOut
<1> HIDE DEF t
<1>4. t \in [1 .. Len(s) - 1 -> T]
  BY <1>1, <1>2, <1>3
<1>5. t \in Seq(T) /\ Len(t) = Len(s) - 1
  <2>1. Len(s) - 1 \in Nat
    BY <1>1
  <2> HIDE DEF T
  <2> QED BY <1>4, <2>1
<1>6. \A q \in T : \E i \in 1 .. Len(t) : t[i] = q
  <2>1. SUFFICES ASSUME NEW q \in T PROVE \E i \in 1 .. Len(t) : t[i] = q
    OBVIOUS
  <2>2. PICK i \in 1 .. Len(s) : s[i] = q
    BY ListsDomain
  <2>3. i # n
    BY <2>2
  <2>4. CASE i = Len(s)
    <3>1. n \in 1 .. Len(t) /\ t[n] = q
      BY <1>1, <1>3, <1>5, <2>2, <2>3, <2>4
    <3> QED BY <3>1
  <2>5. CASE i # Len(s)
    <3>1. i \in 1 .. Len(t) /\ t[i] = q
      BY <1>1, <1>3, <1>5, <2>2, <2>3, <2>5
    <3> QED BY <3>1
  <2> QED BY <2>4, <2>5
<1>7. ASSUME NEW i \in 1 .. Len(t), NEW j \in 1 .. Len(t), t[i] = t[j]
      PROVE  i = j
  <2>1. \A k, l \in 1 .. Len(s) : s[k] = s[l] => k = l
    BY ListsDomain
  <2>2. \A k \in 1 .. Len(t) : t[k] = IF k = n THEN s[Len(s)] ELSE s[k]
    BY <1>3, <1>5
  <2> QED BY <1>1, <1>5, <1>7, <2>1, <2>2
<1>8. t \in Seq(T)
  BY <1>5
<1> HIDE DEF T
<1>9. Lists(t, T)
  BY <1>6, <1>7, <1>8, ListsIntro
<1> QED BY <1>9 DEF T, t

\* A selection in the order of a list is a list.
LEMMA ListsInOrder ==
    ASSUME NEW U, NEW s, Lists(s, U), NEW S \in SUBSET U, NEW t \in InOrder(S, s)
    PROVE  Lists(t, S)
<1>1. Len(s) \in Nat /\ DOMAIN s = 1 .. Len(s)
  BY ListsDomain
<1>2. PICK n \in 0 .. Len(s) : t \in [1 .. n -> S]
  BY DEF InOrder
<1>3. t \in Seq(S) /\ Len(t) = n /\ DOMAIN t = 1 .. n /\ n \in Nat
  BY <1>1, <1>2
<1>4. \A p \in S : \E i \in 1 .. Len(t) : t[i] = p
  BY <1>3 DEF InOrder, ToSet
<1>5. \A i, j \in 1 .. Len(t) : i < j => t[i] # t[j]
  <2>1. SUFFICES ASSUME NEW i \in 1 .. Len(t), NEW j \in 1 .. Len(t), i < j
                 PROVE  t[i] # t[j]
    OBVIOUS
  <2>2. PICK k \in DOMAIN s, l \in DOMAIN s : k < l /\ s[k] = t[i] /\ s[l] = t[j]
    BY <1>3, <2>1 DEF InOrder
  <2> QED BY <1>1, <2>2, ListsDomain
<1>6. \A i, j \in 1 .. Len(t) : t[i] = t[j] => i = j
  BY <1>3, <1>5
<1> QED BY <1>3, <1>4, <1>6, ListsIntro
=============================================================================
