------------------------------- MODULE Console -------------------------------
(***************************************************************************)
(* What the serial driver promises: a terminal with a line that is still   *)
(* being edited, the lines that can be read, and the characters that wait  *)
(* to be shown, each a sequence.  Input that does not fit is ignored, and  *)
(* so is an echo that does not fit.                                        *)
(***************************************************************************)
EXTENDS Integers, Sequences, SequencesExt

CONSTANTS
    NBUF,           \* Capacity of the input and of the output
    Chars           \* The characters that print themselves

VARIABLES
    edit,           \* The line being typed
    avail,          \* Complete lines, not yet read
    out             \* Characters to be shown

vars == <<edit, avail, out>>

\* The characters that the driver treats specially.
BS == "BS"
CR == "CR"
LF == "LF"
SP == "SP"

Init ==
    edit = <<>> /\ avail = <<>> /\ out = <<>>

\* As much of an echo as fits.
Echo(chars) ==
    out' = out \o SubSeq(chars, 1, IF Len(chars) <= NBUF - Len(out)
                                   THEN Len(chars) ELSE NBUF - Len(out))

Room == Len(avail) + Len(edit) < NBUF

Type(ch) ==
    /\ Room
    /\ edit' = Append(edit, ch)
    /\ Echo(<<ch>>)
    /\ UNCHANGED avail

Erase ==
    /\ edit # <<>>
    /\ edit' = Front(edit)
    /\ Echo(<<BS, SP, BS>>)
    /\ UNCHANGED avail

Enter ==
    /\ Room
    /\ avail' = avail \o Append(edit, LF)
    /\ edit' = <<>>
    /\ Echo(<<CR, LF>>)

Put(ch) ==
    /\ Len(out) < NBUF
    /\ out' = Append(out, ch)
    /\ UNCHANGED <<edit, avail>>

Show ==
    /\ out # <<>>
    /\ out' = Tail(out)
    /\ UNCHANGED <<edit, avail>>

Read ==
    /\ avail # <<>>
    /\ avail' = Tail(avail)
    /\ UNCHANGED <<edit, out>>

Next ==
    \/ \E ch \in Chars : Type(ch) \/ Put(ch)
    \/ Put(CR) \/ Put(LF)
    \/ Erase \/ Enter \/ Show \/ Read

Spec == Init /\ [][Next]_vars
=============================================================================
