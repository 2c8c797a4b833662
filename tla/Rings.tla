-------------------------------- MODULE Rings --------------------------------
(***************************************************************************)
(* The two rings of serial.c with their contents: what a key, a character  *)
(* that is printed, a character that is read and a transmission do to the  *)
(* buffers and their pointers.  When the driver does these is the subject  *)
(* of Serial.  The rings implement the sequences of Console.               *)
(***************************************************************************)
EXTENDS Integers, Sequences

CONSTANTS
    NBUF,           \* Size of the rings
    Chars           \* The characters that print themselves

Nothing == "nothing"
BS == "BS"
CR == "CR"
LF == "LF"
SP == "SP"
Keys == Chars \cup {BS, LF}

ASSUME RingsAssumption == NBUF \in Nat \ {0}

Places == 0 .. NBUF - 1

VARIABLES
    rxbuf, rx_inp, rx_outp, n_avail, n_edit,    \* The input ring
    txbuf, tx_inp, tx_outp, n_tx                \* The output ring

inputRing == <<rxbuf, rx_inp, rx_outp, n_avail, n_edit>>
outputRing == <<txbuf, tx_inp, tx_outp, n_tx>>
ringVars == <<inputRing, outputRing>>

RingsInit ==
    /\ rxbuf = [i \in Places |-> Nothing]
    /\ rx_inp = 0 /\ rx_outp = 0 /\ n_avail = 0 /\ n_edit = 0
    /\ txbuf = [i \in Places |-> Nothing]
    /\ tx_inp = 0 /\ tx_outp = 0 /\ n_tx = 0

wrap(x) == x % NBUF

-----------------------------------------------------------------------------
(* Output *)

\* The characters of chars that are added one by one, as long as they fit.
Fitting(chars) == IF n_tx + Len(chars) <= NBUF THEN Len(chars) ELSE NBUF - n_tx

Output(chars) ==
    LET k == Fitting(chars)
    IN /\ txbuf' = [i \in Places |->
                       IF \E j \in 1 .. k : i = wrap(tx_inp + j - 1)
                       THEN chars[CHOOSE j \in 1 .. k : i = wrap(tx_inp + j - 1)]
                       ELSE txbuf[i]]
       /\ tx_inp' = wrap(tx_inp + k)
       /\ n_tx' = n_tx + k
       /\ UNCHANGED tx_outp

\* queue_char(), once there is space; '\n' is queued after a '\r'.
QueueChar(ch) == n_tx < NBUF /\ Output(<<ch>>) /\ UNCHANGED inputRing

\* reply() puts a character into UART_TXD.
Transmit ==
    /\ n_tx > 0
    /\ tx_outp' = wrap(tx_outp + 1) /\ n_tx' = n_tx - 1
    /\ UNCHANGED <<inputRing, txbuf, tx_inp>>

-----------------------------------------------------------------------------
(* Input *)

Store(ch) ==
    /\ rxbuf' = [rxbuf EXCEPT ![rx_inp] = ch]
    /\ rx_inp' = wrap(rx_inp + 1)
    /\ UNCHANGED rx_outp

Full == n_avail + n_edit = NBUF

\* keypress(): the key that erases, the end of a line, and a character.  A
\* key changes nothing if it finds nothing to erase or no room.
Rubout ==
    /\ n_edit > 0
    /\ n_edit' = n_edit - 1
    /\ rx_inp' = wrap(rx_inp - 1)
    /\ Output(<<BS, SP, BS>>)
    /\ UNCHANGED <<rxbuf, rx_outp, n_avail>>

\* Seeded fault: the end of a line does not count itself.
NewlineUncounted ==
    /\ ~Full
    /\ Store(LF)
    /\ n_avail' = n_avail + n_edit /\ n_edit' = 0
    /\ Output(<<CR, LF>>)

Newline ==
    /\ ~Full
    /\ Store(LF)
    /\ n_avail' = n_avail + n_edit + 1 /\ n_edit' = 0
    /\ Output(<<CR, LF>>)

Character(ch) ==
    /\ ~Full
    /\ Store(ch)
    /\ n_edit' = n_edit + 1 /\ UNCHANGED n_avail
    /\ Output(<<ch>>)

keypress(k) ==
    \/ k = BS /\ Rubout
    \/ k = LF /\ Newline
    \/ k \in Chars /\ Character(k)

\* reply() sends rxbuf[rx_outp] to the reader.
Deliver ==
    /\ n_avail > 0
    /\ rx_outp' = wrap(rx_outp + 1) /\ n_avail' = n_avail - 1
    /\ UNCHANGED <<rxbuf, rx_inp, n_edit, outputRing>>

RingsNext ==
    \/ \E k \in Keys : keypress(k)
    \/ \E ch \in Chars \cup {CR, LF} : QueueChar(ch)
    \/ Transmit \/ Deliver

RingsSpec == RingsInit /\ [][RingsNext]_ringVars

-----------------------------------------------------------------------------
Live(s, first, n) == [i \in 1 .. n |-> s[wrap(first + i - 1)]]

TheConsole == INSTANCE Console WITH
        avail <- Live(rxbuf, rx_outp, n_avail),
        edit <- Live(rxbuf, rx_outp + n_avail, n_edit),
        out <- Live(txbuf, tx_outp, n_tx)

\* The rings hold what Console promises, character by character and in order.
ImplementsConsole == TheConsole!Spec
=============================================================================
