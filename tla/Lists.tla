------------------------------- MODULE Lists --------------------------------
(***************************************************************************)
(* The kernel keeps processes in lists in which each occurs at most once:  *)
(* the ready queues and the queues of waiting senders, linked through the  *)
(* field next, and the array timeout[].  A list is a sequence here.        *)
(***************************************************************************)
EXTENDS Integers, Sequences, SequencesExt

\* s lists the members of S, each of them once.
Lists(s, S) ==
    /\ s \in Seq(S)
    /\ IsInjective(s)
    /\ ToSet(s) = S

\* Element i removed and the last one moved to its place.
SwapOut(s, i) ==
    [j \in 1 .. Len(s) - 1 |-> IF j = i THEN s[Len(s)] ELSE s[j]]

\* The sequences that list S in the order of the list s.
InOrder(S, s) ==
    {t \in UNION {[1 .. n -> S] : n \in 0 .. Len(s)} :
        /\ S \subseteq ToSet(t)
        /\ \A i, j \in DOMAIN t : i < j =>
              \E k, l \in DOMAIN s : k < l /\ s[k] = t[i] /\ s[l] = t[j]}
=============================================================================
