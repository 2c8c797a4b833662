-------------------------------- MODULE Display --------------------------------
(***************************************************************************)
(* The display driver of display.c for both boards, and spin() of the two  *)
(* versions of startup.c.  An LED is lit if the pin of its row is high and *)
(* the pin of its column low.                                              *)
(*                                                                         *)
(* One client, of low priority, copies an image with display_show() word   *)
(* by word while the task refreshes the display; another one is so urgent  *)
(* that its display_show() is done in one step, at any point of the        *)
(* task's.  Both may run before the task, which starts with low priority   *)
(* and waits for the timer, comes to clear the image.                      *)
(***************************************************************************)
EXTENDS Images

CONSTANTS
    Pictures,       \* Sets of pixels <<x, y>> that the slow client shows
    UrgentPictures  \* The same for the urgent client

NoPicture == {<<-1, -1>>}

ASSUME DisplayAssumption ==
    Pictures \subseteq SUBSET Pixels /\ UrgentPictures \subseteq SUBSET Pixels

\* The words of each picture, for either board.
Word ==
    [b \in BoardNames |->
        [p \in Pictures \cup UrgentPictures \cup {Blank} |-> IMAGE(b, p)]]

VARIABLES
    display_image,  \* The words of the image, shared by task and clients
    refresh,        \* Where the task is
    n,              \* Its index into the image
    out,            \* out[p]: the pins of port p that are high
    cleared,        \* Words that the task's image_clear() has copied
    source,         \* The picture that the slow client copies
    copied,         \* Words that it has copied
    (* Ghosts *)
    shown,          \* The picture of the latest display_show() that ended
    latest,         \* That of the latest copy that ended, image_clear()'s too
    mixture,        \* The pictures of which display_image may hold bytes
    onShow,         \* The pictures of which the row that is lit may have bits
    torn            \* The latest copy was overtaken by another

copyVars == <<display_image, cleared, source, copied, shown, latest, mixture, torn>>
refreshVars == <<refresh, n, out, onShow>>
displayVars == <<copyVars, refreshVars, board>>

-----------------------------------------------------------------------------
\* The task has set up the pins and asked the timer for its pulses; its image is
\* all zeros, static data.  Other programs may have left pins high.
DisplayInit ==
    /\ board \in BoardNames
    /\ display_image = [w \in 0 .. NIMG(board) - 1 |-> {}]
    /\ refresh = "image_clear" /\ cleared = 0 /\ n = 0
    /\ out = [p \in {0, 1} |-> {0, 27}]       \* Set by other programs
    /\ source = NoPicture /\ copied = 0
    /\ shown = Blank /\ latest = NoPicture
    /\ mixture = {} /\ onShow = {} /\ torn = FALSE

\* Copies that have begun and not ended.
Clearing == 0 < cleared /\ cleared < NIMG(board)
Copying == source # NoPicture \/ Clearing

-----------------------------------------------------------------------------
(* Clients *)

\* display_show() of the urgent client.
ShowAtOnce(picture) ==
    /\ display_image' = Word[board][picture]
    /\ shown' = picture /\ latest' = picture
    /\ mixture' = {picture} \cup (IF Copying THEN mixture ELSE {})
    /\ torn' = Copying
    /\ UNCHANGED <<cleared, source, copied, refreshVars, board>>

\* display_show() of the slow client: memcpy() copies from the first byte on.
BeginShow(picture) ==
    /\ source = NoPicture
    /\ source' = picture /\ copied' = 0
    /\ mixture' = mixture \cup {picture} /\ torn' = Clearing
    /\ UNCHANGED <<display_image, cleared, shown, latest, refreshVars, board>>

\* The slow client copies the next word of as many.
CopyWordOf(words) ==
    /\ source # NoPicture
    /\ display_image' = [display_image EXCEPT ![copied] = Word[board][source][copied]]
    /\ \/ /\ copied < words - 1
          /\ copied' = copied + 1
          /\ UNCHANGED <<source, shown, latest, mixture>>
       \/ /\ copied = words - 1
          /\ source' = NoPicture /\ copied' = 0
          /\ shown' = source /\ latest' = source
          /\ mixture' = IF torn THEN mixture ELSE {source}
    /\ UNCHANGED <<cleared, torn, refreshVars, board>>

\* Seeded fault: the last word is not copied.
CopyWordShort == CopyWordOf(NIMG(board) - 1)

\* Every bit of a word that is half copied comes from one of the two pictures,
\* so that it is enough to copy by words.
CopyWord == CopyWordOf(NIMG(board))

-----------------------------------------------------------------------------
(* The task *)

LedPorts ==
    [b \in BoardNames |->
        LET pins == AllColumns[b] \cup {RowPins(b)[k] : k \in 1 .. NRows(b)}
        IN [port \in {0, 1} |-> {PIN(q) : q \in {r \in pins : PORT(r) = port}}]]

LED_MASK(port) == LedPorts[board][port]

\* image_clear(), word by word too: until it ends the task has no higher priority
\* than the slow client.
ClearWord ==
    /\ refresh = "image_clear"
    /\ display_image' = [display_image EXCEPT ![cleared] = Word[board][Blank][cleared]]
    /\ cleared' = cleared + 1
    /\ torn' = IF cleared = 0 THEN source # NoPicture ELSE torn
    /\ \/ /\ cleared' < NIMG(board)
          /\ mixture' = mixture \cup {Blank}
          /\ UNCHANGED <<refresh, latest>>
       \/ /\ cleared' = NIMG(board)
          /\ mixture' = {Blank} \cup (IF torn' THEN mixture ELSE {})
          /\ latest' = Blank /\ refresh' = "clear"
    /\ UNCHANGED <<source, copied, shown, n, out, onShow, board>>

OUTCLR(port, bits) == out' = [out EXCEPT ![port] = @ \ bits]
OUTSET(port, bits) == out' = [out EXCEPT ![port] = @ \cup bits]

Refreshes(here, there) ==
    /\ refresh = here /\ refresh' = there
    /\ UNCHANGED <<copyVars, board>>

\* GPIO0_OUTCLR, or GPIO_OUTCLR on V1.
ClearRows ==
    /\ Refreshes("clear", IF board = "V1" THEN "set rows" ELSE "clear columns")
    /\ OUTCLR(0, LED_MASK(0))
    /\ UNCHANGED <<n, onShow>>

ClearColumns ==
    /\ Refreshes("clear columns", "set columns")
    /\ OUTCLR(1, LED_MASK(1))
    /\ UNCHANGED <<n, onShow>>

SetColumns ==
    /\ Refreshes("set columns", "set rows")
    /\ OUTSET(1, display_image[n + 1])
    /\ onShow' = mixture
    /\ UNCHANGED n

Step == IF board = "V1" THEN 1 ELSE 2

\* Seeded fault: the last row is left out.
NextRowShort == n' = IF n + 2 * Step >= NIMG(board) THEN 0 ELSE n + Step

NextRow == n' = IF n + Step = NIMG(board) THEN 0 ELSE n + Step

SetRows ==
    /\ Refreshes("set rows", "receive")
    /\ OUTSET(0, display_image[n])
    /\ onShow' = IF board = "V1" THEN mixture ELSE onShow \cup mixture
    /\ NextRow

\* PING from the timer.
Ping ==
    /\ Refreshes("receive", "clear")
    /\ UNCHANGED <<n, out, onShow>>

display_task == ClearWord \/ ClearRows \/ ClearColumns \/ SetColumns \/ SetRows \/ Ping

-----------------------------------------------------------------------------
\* spin(), for a panic, with interrupts disabled.  V1 lights all of its second
\* row; V2 shows three rows in turn, first the port of the rows.  Between two
\* flashes all LEDs are off.
ssod == {<<1, 4>>, <<3, 4>>, <<0, 2>>, <<2, 2>>, <<4, 2>>, <<1, 0>>, <<3, 0>>}

Spinning == {"spin", "spin columns", "spin delay", "spin dark"}

\* As a bound, nobody is copying at a panic: no copy goes on after it.
Panic ==
    /\ refresh \notin Spinning /\ ~Copying
    /\ refresh' = "spin" /\ n' = 0 /\ onShow' = {}
    /\ UNCHANGED <<copyVars, out, board>>

SpinRow ==
    /\ refresh = "spin"
    /\ \/ /\ board = "V1"
          /\ out' = [out EXCEPT ![0] = {RowPins("V1")[2]}]
          /\ refresh' = "spin delay"
       \/ /\ board = "V2"
          /\ out' = [out EXCEPT ![0] = RowWord(board, ssod, 2 * n + 1, 0)]
          /\ refresh' = "spin columns"
    /\ UNCHANGED <<copyVars, n, onShow, board>>

SpinColumns ==
    /\ refresh = "spin columns"
    /\ out' = [out EXCEPT ![1] = RowWord(board, ssod, 2 * n + 1, 1)]
    /\ refresh' = "spin delay"
    /\ UNCHANGED <<copyVars, n, onShow, board>>

\* delay_loop() returns; after the last row comes the first or the dark.
SpinDelay ==
    /\ refresh = "spin delay"
    /\ \/ /\ board = "V2"
          /\ refresh' = "spin" /\ n' = (n + 1) % 3
          /\ UNCHANGED out
       \/ /\ board = "V2" => n = 2
          /\ out' = [out EXCEPT ![0] = {}]
          /\ refresh' = "spin dark" /\ n' = 0
    /\ UNCHANGED <<copyVars, onShow, board>>

SpinDark ==
    /\ refresh = "spin dark" /\ refresh' = "spin"
    /\ UNCHANGED <<copyVars, n, out, onShow, board>>

spin == SpinRow \/ SpinColumns \/ SpinDelay \/ SpinDark

-----------------------------------------------------------------------------
\* With interrupts disabled no client runs.
DisplayNext ==
    \/ display_task \/ Panic \/ spin
    \/ /\ refresh \notin Spinning
       /\ \/ CopyWord
          \/ \E picture \in UrgentPictures : ShowAtOnce(picture)
          \/ \E picture \in Pictures : BeginShow(picture)

DisplaySpec == DisplayInit /\ [][DisplayNext]_displayVars

-----------------------------------------------------------------------------
(* Properties *)

IsLit(p) ==
    LET row == Led[board][p][1]
        col == Led[board][p][2]
    IN PIN(row) \in out[PORT(row)] /\ PIN(col) \notin out[PORT(col)]

Lit == {p \in Pixels : IsLit(p)}

\* "To avoid ghosting": an LED is lit only if it is in a picture that was on
\* show when its row was lit, or while it was being lit.
NoGhosting ==
    refresh \notin Spinning => Lit \subseteq UNION onShow

\* When no copy is going on the image is that of the latest copy, image_clear()'s
\* included, unless that copy had been overtaken by another process's.  Then it
\* stays a mixture of the two until the next copy.
ImageIsLatest ==
    ~Copying /\ ~torn /\ latest # NoPicture => display_image = Word[board][latest]

\* "Partial updates don't really matter, because they will cause only a
\* momentary glitch in the display when it is changing anyway": once the task
\* refreshes the display and no copy is going on, none of them overtaken, the
\* image is the one that was shown last.
GlitchIsMomentary ==
    refresh \notin Spinning \cup {"image_clear"} /\ ~Copying /\ ~torn
        => display_image = Word[board][shown]

\* "Leave other bits alone".
OtherPinsAlone ==
    [][refresh' \notin Spinning =>
         \A p \in {0, 1} :
            out'[p] \ LedPorts[board][p] = out[p] \ LedPorts[board][p]]_displayVars

\* As long as a picture stays on show, each pixel of it is lit again and again.
EveryPixelLit ==
    \A p \in UNION Pictures :
        <>[](refresh \notin Spinning /\ p \in shown /\ display_image = Word[board][shown])
            => []<>IsLit(p)

\* The Seven Stars of Death: while the delay runs in a panic, only they are lit.
SevenStars ==
    refresh = "spin delay" =>
        IF board = "V1" THEN Lit = {p \in Pixels : Led["V1"][p][1] = RowPins("V1")[2]}
        ELSE Lit = {p \in ssod : p[2] = 4 - 2 * n}

\* What the LEDs show is what was drawn, the driver touches nothing but their
\* pins, and a panic shows the stars whatever was on show before.
PicturesRight ==
    /\ [](NoGhosting /\ ImageIsLatest /\ SevenStars /\ DrawingAgrees)
    /\ OtherPinsAlone
=============================================================================
