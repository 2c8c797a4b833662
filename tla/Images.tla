-------------------------------- MODULE Images --------------------------------
(***************************************************************************)
(* Images for the display, for both boards: IMAGE and the words it makes,  *)
(* from the two versions of hardware.h, and image_clear() and image_set()  *)
(* of display.c.  A word is the set of its bits that are 1.                *)
(***************************************************************************)
EXTENDS Boards, Sequences

CONSTANT Dots           \* Arguments for image_set(), some of them off the display

ASSUME ImagesAssumption == Dots \subseteq Int \X Int

VARIABLES
    screen,             \* An image that a program draws
    drawn               \* The pixels that it has set since it cleared the image

imageVars == <<screen, drawn, board>>

Pixels == (0 .. 4) \X (0 .. 4)
Blank == {}

\* IMAGE(...) of V1 has x11, x24, ... in this order, the first digit for the
\* row of the matrix and the second for its column.
Layout ==
    << <<11, 24, 12, 25, 13>>,
       <<34, 35, 36, 37, 38>>,
       <<22, 19, 23, 39, 21>>,
       <<18, 17, 16, 15, 14>>,
       <<33, 27, 31, 26, 32>> >>

\* The row and the column pin of the LED in this place of an IMAGE.
LedPins(b, i, j) ==
    IF b = "V1" THEN <<RowPins("V1")[Layout[i][j] \div 10],
                           ColumnPins("V1")[Layout[i][j] % 10]>>
    ELSE <<RowPins("V2")[i], ColumnPins("V2")[j]>>

\* The LED at each pixel.
Led == [b \in BoardNames |-> [p \in Pixels |-> LedPins(b, 5 - p[2], p[1] + 1)]]

NRows(b) == Len(RowPins(b))
NIMG(b) == IF b = "V1" THEN 3 ELSE 10

AllColumns ==
    [b \in BoardNames |-> {ColumnPins(b)[c] : c \in DOMAIN ColumnPins(b)}]

\* A word has, for one port (V1 has no other), the pin of its row and those of
\* the columns that stay dark.
RowWord(b, picture, row, port) ==
    LET pin == RowPins(b)[row]
        bright == {c \in AllColumns[b] : \E p \in picture : Led[b][p] = <<pin, c>>}
    IN {PIN(q) : q \in {r \in {pin} \cup (AllColumns[b] \ bright) : PORT(r) = port}}

IMAGE(b, picture) ==
    [w \in 0 .. NIMG(b) - 1 |->
        IF b = "V1" THEN RowWord(b, picture, w + 1, 0)
        ELSE RowWord(b, picture, w \div 2 + 1, w % 2)]

\* img_map of V1 and img_col of V2, by which image_set() finds its bit.
PIX(i, j) == 32 * (i - 1) + j + 3

img_map ==
    << << PIX(3,3), PIX(2,7), PIX(3,1), PIX(2,6), PIX(3,2) >>,
       << PIX(1,8), PIX(1,7), PIX(1,6), PIX(1,5), PIX(1,4) >>,
       << PIX(2,2), PIX(1,9), PIX(2,3), PIX(3,9), PIX(2,1) >>,
       << PIX(3,4), PIX(3,5), PIX(3,6), PIX(3,7), PIX(3,8) >>,
       << PIX(1,1), PIX(2,4), PIX(1,2), PIX(2,5), PIX(1,3) >> >>

map_pixel(x, y) ==
    IF board = "V1" THEN img_map[y + 1][x + 1]
    ELSE 64 * (4 - y) + ColumnPins("V2")[x + 1]

image_set(x, y, img) ==
    IF x < 0 \/ x >= 5 \/ y < 0 \/ y >= 5 THEN img
    ELSE LET p == map_pixel(x, y) IN [img EXCEPT ![p \div 32] = @ \ {p % 32}]

-----------------------------------------------------------------------------
image_clear == IMAGE(board, Blank)

ImageInit == board \in BoardNames /\ screen = image_clear /\ drawn = {}

Draw(x, y) ==
    /\ Cardinality(drawn) < 2
    /\ screen' = image_set(x, y, screen)
    /\ drawn' = drawn \cup ({<<x, y>>} \cap Pixels)
    /\ UNCHANGED board

Clear == screen' = image_clear /\ drawn' = {} /\ UNCHANGED board

ImageNext == Clear \/ \E d \in Dots : Draw(d[1], d[2])

ImageSpec == ImageInit /\ [][ImageNext]_imageVars

-----------------------------------------------------------------------------
\* Drawing with image_set() and writing with IMAGE come to the same, although
\* they find the bits by different tables, and on both boards.
DrawingAgrees == screen = IMAGE(board, drawn)
=============================================================================
