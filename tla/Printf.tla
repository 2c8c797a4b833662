-------------------------------- MODULE Printf ---------------------------------
(***************************************************************************)
(* The formatted output of lib.c: _do_print() with its three putc-         *)
(* functions, as processes use them through printf(), sprintf() and        *)
(* do_print().  A format is a sequence of characters; the argument of a    *)
(* conversion is the sequence of characters that itoa() or utoa() (see     *)
(* Numbers) or the caller's string holds.  The code has 16 for             *)
(* PRINT_NBUF.                                                             *)
(***************************************************************************)
EXTENDS Integers, Sequences, SequencesExt

CONSTANTS
    Writers,        \* Processes that print
    PRINT_NBUF,     \* Size of printf's buffer
    NPIECES,        \* Bound on the pieces of a format
    Pieces          \* What formats are put together from, in the comment's
                    \* words: records [spelling, arguments, prints]

HasArgument == {"c", "d", "s", "u", "x"}

\* What %c prints for an argument.
Formatted(c, s) == IF c = "x" /\ s # <<"0">> THEN <<"0", "x">> \o s ELSE s

Letters ==
    {"%", "0", "x"} \cup UNION {Range(x.spelling) \cup Range(x.prints) : x \in Pieces}

\* A letter that stands for itself, a conversion, or '%' and any other letter.
IsPiece(x) ==
    /\ x.spelling \in Seq(Letters) /\ x.prints \in Seq(Letters)
    /\ \E c \in Letters :
          \/ x.spelling = <<c>> /\ x.arguments = <<>> /\ x.prints = <<c>>
          \/ /\ x.spelling = <<"%", c>> /\ c \notin HasArgument
             /\ x.arguments = <<>> /\ x.prints = <<c>>
          \/ /\ x.spelling = <<"%", c>> /\ c \in HasArgument
             /\ x.arguments[1] \in Seq(Letters) /\ x.arguments = <<x.arguments[1]>>
             /\ x.prints = Formatted(c, x.arguments[1])

ASSUME PrintfAssumption ==
    /\ PRINT_NBUF \in Nat \ {0} /\ NPIECES \in Nat
    /\ \A x \in Pieces : IsPiece(x)

Functions == {"printf", "sprintf", "do_print"}

VARIABLES
    call,           \* call[w]: the function w called
    fmt, va,        \* The rest of its format and of its arguments
    str,            \* The rest of what do_string() prints now
    buf,            \* printf's buffer, or what sprintf has stored
    done,           \* Whether the call has returned
    printed,        \* What print_buf() and the client's putc() were given
    (* Ghost *)
    meant           \* meant[w]: what the pieces of w's format print

printfVars == <<call, fmt, va, str, buf, done, printed, meant>>

\* Texts, one after the other.
Joined(texts) ==
    LET upto[k \in 0 .. Len(texts)] ==
            IF k = 0 THEN <<>> ELSE upto[k - 1] \o texts[k]
    IN upto[Len(texts)]

Field(pieces, field) == [i \in 1 .. Len(pieces) |-> pieces[i][field]]

\* A '%' on its own is the end of its format.
Proper(pieces) ==
    \A i \in DOMAIN pieces : pieces[i].spelling = <<"%">> => i = Len(pieces)

PrintsPieces(pieces) ==
    /\ call \in [Writers -> Functions]
    /\ fmt = [w \in Writers |-> Joined(Field(pieces[w], "spelling"))]
    /\ va = [w \in Writers |-> Joined(Field(pieces[w], "arguments"))]
    /\ meant = [w \in Writers |-> Joined(Field(pieces[w], "prints"))]
    /\ str = [w \in Writers |-> <<>>] /\ buf = str
    /\ done = [w \in Writers |-> FALSE]
    /\ printed = <<>>

PrintfInit ==
    \E pieces \in [Writers -> {x \in SeqOf(Pieces, NPIECES) : Proper(x)}] :
        PrintsPieces(pieces)

-----------------------------------------------------------------------------
\* f_printc, f_storec and f_bufferc with flush.  print_buf() may send its
\* characters to a driver, so that others print before the call goes on.
Give(w, chars) == printed' = Append(printed, [by |-> w, chars |-> chars])

f_printc(w, c) == Give(w, <<c>>) /\ UNCHANGED buf

f_storec(w, c) == buf' = [buf EXCEPT ![w] = Append(@, c)] /\ UNCHANGED printed

f_bufferc(w, c) ==
    IF Len(buf[w]) = PRINT_NBUF
    THEN Give(w, buf[w]) /\ buf' = [buf EXCEPT ![w] = <<c>>]
    ELSE buf' = [buf EXCEPT ![w] = Append(@, c)] /\ UNCHANGED printed

putc(w, c) ==
    CASE call[w] = "printf"   -> f_bufferc(w, c)
      [] call[w] = "sprintf"  -> f_storec(w, c)
      [] call[w] = "do_print" -> f_printc(w, c)

\* The loop of do_string().
do_string(w) ==
    /\ str[w] # <<>>
    /\ putc(w, Head(str[w]))
    /\ str' = [str EXCEPT ![w] = Tail(@)]
    /\ UNCHANGED <<call, fmt, va, done, meant>>

\* The loop of _do_print(): a conversion, whose characters come next ...
IsConversion(w) == fmt[w][1] = "%" /\ Len(fmt[w]) > 1

Conversion(w) ==
    /\ ~done[w] /\ str[w] = <<>> /\ fmt[w] # <<>> /\ IsConversion(w)
    /\ fmt' = [fmt EXCEPT ![w] = SubSeq(@, 3, Len(@))]
    /\ IF fmt[w][2] \in HasArgument
       THEN /\ va' = [va EXCEPT ![w] = Tail(@)]
            /\ str' = [str EXCEPT ![w] = Formatted(fmt[w][2], va[w][1])]
       ELSE str' = [str EXCEPT ![w] = <<fmt[w][2]>>] /\ UNCHANGED va
    /\ UNCHANGED <<call, buf, done, printed, meant>>

\* ... or a character that stands for itself, such as a last '%'.
\* Seeded fault: a '%' is skipped even at the end of the format.
PlainNotPercent(w) ==
    /\ ~done[w] /\ str[w] = <<>> /\ fmt[w] # <<>> /\ ~IsConversion(w)
    /\ IF fmt[w][1] = "%" THEN UNCHANGED <<buf, printed>> ELSE putc(w, fmt[w][1])
    /\ fmt' = [fmt EXCEPT ![w] = Tail(@)]
    /\ UNCHANGED <<call, va, str, done, meant>>

Plain(w) ==
    /\ ~done[w] /\ str[w] = <<>> /\ fmt[w] # <<>> /\ ~IsConversion(w)
    /\ putc(w, fmt[w][1])
    /\ fmt' = [fmt EXCEPT ![w] = Tail(@)]
    /\ UNCHANGED <<call, va, str, done, meant>>

\* The end of the call: printf prints what is left in its buffer, sprintf ends
\* its string.
NUL == "end"

PrintReturns(w) ==
    /\ ~done[w] /\ str[w] = <<>> /\ fmt[w] = <<>>
    /\ done' = [done EXCEPT ![w] = TRUE]
    /\ CASE call[w] = "printf" ->
              IF buf[w] # <<>>
              THEN Give(w, buf[w]) /\ buf' = [buf EXCEPT ![w] = <<>>]
              ELSE UNCHANGED <<buf, printed>>
         [] call[w] = "sprintf"  -> f_storec(w, NUL)
         [] call[w] = "do_print" -> UNCHANGED <<buf, printed>>
    /\ UNCHANGED <<call, fmt, va, str, meant>>

PrintfNext ==
    \E w \in Writers : do_string(w) \/ Conversion(w) \/ Plain(w) \/ PrintReturns(w)

PrintfSpec == PrintfInit /\ [][PrintfNext]_printfVars

-----------------------------------------------------------------------------
\* What was printed for w.
Text(w) ==
    Joined([i \in 1 .. Len(printed) |->
               IF printed[i].by = w THEN printed[i].chars ELSE <<>>])

\* Whatever others print meanwhile, what a call has printed and what waits in
\* its buffer are the start of what its format means, in order; when the call
\* returns that is all of it, and no argument is left over.
PrintsItsText ==
    \A w \in Writers :
        LET sofar == Text(w) \o buf[w]
        IN IF done[w]
           THEN /\ sofar = IF call[w] = "sprintf" THEN Append(meant[w], NUL)
                           ELSE meant[w]
                /\ va[w] = <<>>
           ELSE IsPrefix(sofar, meant[w])

\* printf "passes them to print_buf 16 at a time": a chunk is never empty, and
\* only the last of a call is shorter than the buffer.  A text that fits into
\* the buffer is not broken by those of others.
FullChunks ==
    \A i \in 1 .. Len(printed) :
        LET w == printed[i].by
            n == Len(printed[i].chars)
        IN call[w] = "printf" =>
              /\ n \in 1 .. PRINT_NBUF
              /\ n < PRINT_NBUF =>
                    done[w] /\ \A j \in i + 1 .. Len(printed) : printed[j].by # w

\* The text arrives as it is meant, in pieces of the promised size.
PrintingCorrect == PrintsItsText /\ FullChunks
=============================================================================
