-------------------------------- MODULE Accel --------------------------------
(***************************************************************************)
(* accel.c and the program of ex-level.c as far as it uses it: the program *)
(* looks for a chip at two addresses, sets it up and reads it again and    *)
(* again, while other processes use the same bus.                          *)
(***************************************************************************)
EXTENDS I2C

CONSTANT Program        \* The process that runs the program

ASSUME AccelAssumption == Program \in Masters /\ {"ACC1", "ACC2"} \subseteq Chips

VARIABLES
    step,               \* What the program has called last
    accel               \* The type of chip that was found, or 0

accelVars == <<step, accel>>
levelVars == <<i2cVars, accelVars>>

LevelInit == I2CInit /\ step = "start" /\ accel = 0

-----------------------------------------------------------------------------
(* Transactions with a chip *)

i2c_probe(addr) == Transfer("WRITE", addr, 1, 0)
i2c_write_reg(addr) == Transfer("WRITE", addr, 1, 1)
i2c_read_bytes(addr, n) == Transfer("READ", addr, 1, n)

\* The program is not in a call, and the call it made went as said.
Went(s, ok) ==
    /\ step = s /\ xferOf[Program] = NoTransfer
    /\ ok <=> result[Program].status = "OK"

Calls(s, t) == step' = s /\ i2c_xfer(Program, t)

Panics == step' = "panic" /\ UNCHANGED i2cVars

\* accel_start(): the first chip that answers is the one to be used; a chip
\* that has answered must do so again.
Start == step = "start" /\ Calls("probe1", i2c_probe("ACC1")) /\ UNCHANGED accel

Probed1 ==
    /\ \/ Went("probe1", TRUE) /\ Calls("write1", i2c_write_reg("ACC1"))
       \/ Went("probe1", FALSE) /\ Calls("probe2", i2c_probe("ACC2"))
    /\ UNCHANGED accel

Probed2 ==
    /\ \/ Went("probe2", TRUE) /\ Calls("write2", i2c_write_reg("ACC2"))
       \/ Went("probe2", FALSE) /\ Panics
    /\ UNCHANGED accel

\* accel_reading(): three bytes, one for each axis, or six, two for each.
Reads(chip) ==
    \/ chip = 1 /\ Calls("read", i2c_read_bytes("ACC1", 3))
    \/ chip = 2 /\ Calls("read", i2c_read_bytes("ACC2", 6))

SetUp ==
    \/ Went("write1", TRUE) /\ accel' = 1 /\ Reads(1)
    \/ Went("write2", TRUE) /\ accel' = 2 /\ Reads(2)
    \/ (Went("write1", FALSE) \/ Went("write2", FALSE)) /\ Panics /\ UNCHANGED accel

ReadAgain ==
    /\ \/ Went("read", TRUE) /\ Reads(accel)
       \/ Went("read", FALSE) /\ Panics
    /\ UNCHANGED accel

ProgramStep == Start \/ Probed1 \/ Probed2 \/ SetUp \/ ReadAgain

OthersCall == \E c \in Masters \ {Program}, t \in Transfers : i2c_xfer(c, t)

LevelNext ==
    \/ ProgramStep
    \/ /\ I2CStep \/ BusStep \/ I2CInterrupt \/ OthersCall
       /\ UNCHANGED accelVars

LevelSpec == LevelInit /\ [][LevelNext]_levelVars

\* The bus goes on, and so does the task, which has the highest priority.
LevelFairness ==
    /\ WF_levelVars(I2CStep /\ UNCHANGED accelVars)
    /\ WF_levelVars(BusStep /\ UNCHANGED accelVars)
    /\ WF_levelVars(I2CInterrupt /\ UNCHANGED accelVars)

-----------------------------------------------------------------------------
\* The program takes its readings from a chip that is there, and gives up for
\* want of a chip only after each has refused an answer.
ChipIsThere ==
    /\ accel = 1 => "ACC1" \in present
    /\ accel = 2 => "ACC2" \in present
    /\ step = "write1" => "ACC1" \in present
    /\ step = "panic" => result[Program].status = "ERR"

\* What the driver answers is true of its transaction, and what the program
\* concludes from the answers is true of the chips.
AnswersTrue == OkMeansMoved /\ ErrorIsOwn /\ ChipIsThere
=============================================================================
