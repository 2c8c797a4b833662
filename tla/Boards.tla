-------------------------------- MODULE Boards --------------------------------
(***************************************************************************)
(* The two boards, with the pins that hardware.h gives the names that the  *)
(* drivers use.  A pin of V2 has its port, 0 or 1, in its number.          *)
(***************************************************************************)
EXTENDS Integers, FiniteSets

BoardNames == {"V1", "V2"}

VARIABLE board          \* The board for which the program was built

\* Device pins.  On V1 there is one port, and numbers are those of its pins.
DEVPIN(p, i) == 32 * p + i
PORT(pin) == pin \div 32
PIN(pin) == pin % 32

PadsV1 == [PAD0 |-> 3, PAD1 |-> 2, PAD2 |-> 1, PAD3 |-> 4, PAD4 |-> 5,
           PAD5 |-> 17, PAD6 |-> 12, PAD7 |-> 11, PAD8 |-> 18, PAD9 |-> 10,
           PAD10 |-> 6, PAD11 |-> 26, PAD12 |-> 20, PAD13 |-> 23,
           PAD14 |-> 22, PAD15 |-> 21, PAD16 |-> 16, PAD19 |-> 0, PAD20 |-> 30]

PadsV2 == [PAD0 |-> DEVPIN(0, 2), PAD1 |-> DEVPIN(0, 3), PAD2 |-> DEVPIN(0, 4),
           PAD3 |-> DEVPIN(0, 31), PAD4 |-> DEVPIN(0, 28), PAD5 |-> DEVPIN(0, 14),
           PAD6 |-> DEVPIN(1, 5), PAD7 |-> DEVPIN(0, 11), PAD8 |-> DEVPIN(0, 10),
           PAD9 |-> DEVPIN(0, 9), PAD10 |-> DEVPIN(0, 30), PAD11 |-> DEVPIN(0, 23),
           PAD12 |-> DEVPIN(0, 12), PAD13 |-> DEVPIN(0, 17), PAD14 |-> DEVPIN(0, 1),
           PAD15 |-> DEVPIN(0, 13), PAD16 |-> DEVPIN(1, 2), PAD19 |-> DEVPIN(0, 26),
           PAD20 |-> DEVPIN(1, 0)]

PadPin(b, pad) == IF b = "V1" THEN PadsV1[pad] ELSE PadsV2[pad]

\* ROW1, ...
RowPins(b) ==
    IF b = "V1" THEN <<13, 14, 15>>
    ELSE <<DEVPIN(0, 21), DEVPIN(0, 22), DEVPIN(0, 15), DEVPIN(0, 24), DEVPIN(0, 19)>>

\* The columns of V1, which IMAGE numbers from 1 to 9, and COL1, ... of V2.
ColumnPins(b) ==
    IF b = "V1" THEN [c \in 1 .. 9 |-> c + 3]
    ELSE [c \in 1 .. 5 |->
             PadPin("V2", <<"PAD4", "PAD7", "PAD3", "PAD6", "PAD10">>[c])]
=============================================================================
