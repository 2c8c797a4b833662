-------------------------------- MODULE Numbers --------------------------------
(***************************************************************************)
(* The conversions of lib.c between numbers and their digits: utoa(),      *)
(* itoa(), atoi() and xtou().  A digit is its value; MINUS and END are the *)
(* sign and the end of a string.  The code has words of 32 bits and NMAX   *)
(* 16; an int is the word with its value modulo the size of a word.        *)
(***************************************************************************)
EXTENDS Integers

CONSTANTS
    WORD,           \* The number of values of a word
    NMAX            \* Size of the buffer for a number

SIGNED == -10        \* The base of numbers printed by itoa()
MINUS == 90
END == 99

TenTo[k \in Nat] == IF k = 0 THEN 1 ELSE 10 * TenTo[k - 1]

\* The buffer has room for a sign, the digits of an int and the END.
ASSUME NumbersAssumption ==
    /\ WORD \in Nat \ {0, 1} /\ WORD % 2 = 0
    /\ NMAX \in Nat \ {0, 1} /\ WORD \div 2 < TenTo[NMAX - 2]

Ints == -(WORD \div 2) .. WORD \div 2 - 1

\* The word and the int with the same bits.
AsWord(v) == v % WORD
AsInt(x) == IF x < WORD \div 2 THEN x ELSE x - WORD

VARIABLES
    number, base,   \* What is to be printed
    rest,           \* Of number, what utoa() has not yet printed
    nbuf, p,        \* The buffer and the place of the first character in it
    conversion,     \* "digits", "sign", "printed", "reading", "read"
    value,          \* What has been read back
    minus, here     \* Whether a sign came first, and the place read next

numberVars == <<number, base, rest, nbuf, p, conversion, value, minus, here>>

\* Seeded fault: a negative number is not negated.
MagnitudeAsItIs(v) == AsWord(v)

\* itoa() prints a negative number as -v, which overflows for the least int;
\* as built it is that number again, which is right when taken as a word.
Magnitude(v) == IF v < 0 THEN AsWord(-v) ELSE v

\* The printing of v begins, by itoa() or by utoa() for %u and %x.
Starts(v, b) ==
    /\ number = v /\ base = b
    /\ rest = Magnitude(v)
    /\ nbuf = [i \in 0 .. NMAX - 1 |-> IF i = NMAX - 1 THEN END ELSE 0]
    /\ p = NMAX - 1
    /\ conversion = "digits" /\ value = 0 /\ minus = FALSE /\ here = 0

NumbersInit ==
    \/ \E v \in Ints : Starts(v, SIGNED)
    \/ \E v \in 0 .. WORD - 1, b \in {10, 16} : Starts(v, b)

Radix == IF base = 16 THEN 16 ELSE 10

\* The loop of utoa(), whose body is done at least once.
Digit ==
    /\ conversion = "digits"
    /\ p' = p - 1
    /\ nbuf' = [nbuf EXCEPT ![p - 1] = rest % Radix]
    /\ rest' = rest \div Radix
    /\ conversion' = IF rest' # 0 THEN "digits" ELSE "sign"
    /\ UNCHANGED <<number, base, value, minus, here>>

Sign ==
    /\ conversion = "sign" /\ conversion' = "printed"
    /\ IF number < 0
       THEN p' = p - 1 /\ nbuf' = [nbuf EXCEPT ![p - 1] = MINUS]
       ELSE UNCHANGED <<p, nbuf>>
    /\ UNCHANGED <<number, base, rest, value, minus, here>>

\* atoi() reads %d and %u, and looks for a sign; xtou() reads %x.
StartReading ==
    /\ conversion = "printed" /\ conversion' = "reading"
    /\ value' = 0
    /\ minus' = (base # 16 /\ nbuf[p] = MINUS)
    /\ here' = IF minus' THEN p + 1 ELSE p
    /\ UNCHANGED <<number, base, rest, nbuf, p>>

\* Their loops, which end at the first character that is no digit; what is read
\* is a word until atoi() returns it as an int.
IsDigit(c) == c \in 0 .. Radix - 1

ReadDigit ==
    /\ conversion = "reading" /\ IsDigit(nbuf[here])
    /\ value' = AsWord(Radix * value + nbuf[here])
    /\ here' = here + 1
    /\ UNCHANGED <<number, base, rest, nbuf, p, conversion, minus>>

EndReading ==
    /\ conversion = "reading" /\ ~IsDigit(nbuf[here])
    /\ conversion' = "read"
    /\ value' = IF base = 16 THEN value
                ELSE AsInt(IF minus THEN AsWord(-value) ELSE value)
    /\ UNCHANGED <<number, base, rest, nbuf, p, minus, here>>

NumbersNext == Digit \/ Sign \/ StartReading \/ ReadDigit \/ EndReading

NumbersSpec == NumbersInit /\ [][NumbersNext]_numberVars

-----------------------------------------------------------------------------
\* What was printed reads back as the same number, the least int and numbers
\* too large for an int included (which read back as the int with their bits).
ReadsBack ==
    conversion = "read" =>
        value = IF base = 10 THEN AsInt(number) ELSE number

\* Every number, with its sign and its end, fits into nbuf; no digit is a zero
\* but the only one.
Fits ==
    /\ p \in 0 .. NMAX - 1
    /\ conversion \notin {"digits", "sign"} =>
          LET first == IF number < 0 THEN p + 1 ELSE p
          IN nbuf[first] # END /\ (nbuf[first] = 0 => number = 0)

\* The conversions invert each other within their buffer.
ConversionsCorrect == ReadsBack /\ Fits
=============================================================================
