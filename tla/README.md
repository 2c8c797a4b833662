# micro:bian in TLA+

A model of micro:bian, a small operating system for the BBC micro:bit: its
kernel of processes that exchange messages, the device drivers and the library
that come with it, and the startup and context-switching code of the two boards
(V1 and V2). The modules are translated from the C and assembly sources; TLC
checks them on small instances and TLAPS proves the theorems listed at the end
for every instance.

## The system

| Part | State | Operations | Talks to | Modules |
|---|---|---|---|---|
| Scheduler (`microbian.c` 161-201, 655-687, 776-782) | `os_readyq[]`, `os_current`, `state`, `priority`, `next` of each process | `make_ready`, `choose_proc`, `yield`, `exit`, `start`, context switch | called by every other part of the kernel | `Kernel` |
| Messages (307-497) | `waiting`, `filter`, `msgbuf` of each process | `send`, `receive`, `receive_t`, `sendrec` | scheduler, timeouts | `Kernel` |
| Interrupts (500-558) | `os_handler[]`, `pending`, the interrupt controller | `connect`, `interrupt`, `default_handler`, `enable_irq` | wakes driver processes | `Kernel` |
| Timeouts (214-304) | `timeout[]`, `n_timeouts`, `ticks`, `next_time`, `timeout` of each process | `set_timeout`, `cancel_timeout`, `mini_tick` | set by `receive_t`, ticked by the timer driver | `Timeouts`, `TickClock`, `Countdown` |
| Storage (59-95, 574-652) | `__hbot`, `__htop`, `os_ptable[]`, the stacks | `sbrk`, `new_proc`, `create_proc`, overflow check, dump | `start` | `Heap` |
| Debug printing (890-952) | the UART, interrupt mask | `kprintf`, `panic`, dump, `spin` | takes the UART from the serial driver | `Kprintf`, `Display` |
| Context (`mpx-m0.s`, `mpx-m4.s`) | registers and the frame on each stack | `isave`, `irestore`, the frame that `start` fakes | kernel entry and exit | `Context` |
| Timer driver (`timer.c`) | `timer[]`, `millis` | REGISTER and INTERRUPT messages, `timer_micros` | sends PING, calls `tick` | `TimerDriver`, `Micros` |
| Serial driver (`serial.c`) | input and output rings, `reader`, `txidle` | PUTC, PUTBUF, GETC, INTERRUPT | UART | `Serial`, `Rings`, `Console` |
| I2C driver, accelerometer (`i2c.c`, `accel.c`) | state of a transaction, chip type | READ, WRITE, INTERRUPT; probing, readings | bus | `I2C`, `Accel` |
| Radio driver (`radio.c`) | `mode`, `listener`, `packet_buffer`, `group` | SEND, RECEIVE, INTERRUPT, `radio_group` | radio | `Radio` |
| ADC driver (`adc.c`) | one request | REQUEST, INTERRUPT | converter | `Adc` |
| Display driver (`display.c`) | `display_image`, row index | PING, `display_show`, `image_set` | pins | `Display`, `Images`, `Boards` |
| Startup (`startup.c` of each board) | memory, interrupt controller | `__reset`, `memmove` and its like, `irq_priority`, `enable_irq`, vectors | everything | `Memory`, `Interrupts` |
| Library (`lib.c`) | `seed`, buffers | number conversion, `printf`, `prandom` | `print_buf` | `Numbers`, `Printf`, `Prandom` |

The hard behaviours: interrupts and ticks arrive at any moment between two
system calls, each handler updates several linked pieces of state (a process's
state, a queue, its timeout, its buffer), and the same wake-up can come by four
paths (`mini_send`, `mini_sendrec`, `interrupt`, `mini_tick`). The drivers are
processes that wait for device events in the middle of a client's request, and
other events may come first. Some code shares state without the kernel's help:
`timer_micros`, `kprintf`, `display_show`, `prandom`, the frames of a context
switch. What makes each part correct:

* scheduler: every process is in exactly the queue its state asks for; the idle
  process runs only when nothing can; handlers run at once;
* messages: no missed meeting of a sender and a receiver; a receiver gets what
  it asked for; a send ends by a handover, a call by a reply;
* interrupts: none is lost while its handler is busy, none comes without cause;
* timeouts: they do what independent countdowns would do; none is set for a
  process that no longer waits;
* storage: stacks and descriptors are apart, an overrun stays away from the
  descriptors and is noticed if it left its mark on the last word;
* context: a process resumes with its own registers on either processor;
* drivers: a client always gets one reply, and a true one; the assertions on
  hardware events hold; ring buffers lose and invent nothing;
* library: conversions invert each other, output comes in order, `prandom` does
  not overflow.

`PROJECT.json` lists the places in the code where these can go wrong
("hazards") with the properties that watch them.

## Modules

| Module | What it is |
|---|---|
| `Lists` | the kernel's lists as sequences: `Lists(s, S)` says that `s` holds each member of `S` once |
| `Timeouts` | state and operations of the timeout service, one operator per branch of the code |
| `TickClock` | `Timeouts` driven by a millisecond clock and callers that set and lose timeouts |
| `Countdown` | what the service promises: independent countdowns |
| `Kernel` | the kernel: one action per branch of every system call and interrupt handler; extends `Timeouts` |
| `Heap` | storage at both ends of the heap, stacks in use, the overflow check |
| `Context` | `isave`, `irestore` and the faked frame, register by register |
| `Kprintf` | printing by polling against the serial driver's use of the UART |
| `TimerDriver` | the timer task of `timer.c`, its table, its interrupt and its clients |
| `Micros` | `timer_micros` step by step, against the counter and the interrupt |
| `Serial` | the serial task, its clients and the UART; the rings by their counts |
| `Rings` | the rings with their contents and indices |
| `Console` | what the rings promise: lines and an output, each a sequence |
| `I2C`, `Accel` | the I2C task, its clients and the bus; `Accel` adds the accelerometer's program |
| `Radio` | the radio task, its clients, the radio and other stations |
| `Adc` | the ADC task, its clients and the converter |
| `Boards`, `Images`, `Display` | pins of the boards; images; the start and the refresh of the display, two programs that show pictures, and the seven stars |
| `Memory` | `__reset` and the memory routines, a byte at a time |
| `Interrupts` | priorities, enabling and vectors, with drivers that serve interrupts |
| `Numbers`, `Printf`, `Prandom` | the library |
| `MCKernel`, `MCPrograms`, `MCTimerDriver`, `MCMicros`, `MCDrivers`, `MCParts` | instances for TLC |
| `ListFacts`, `TimeoutFacts` | lemmas on lists and on the timeout service |
| `KernelProofs`, `TimerDriverProofs`, `SerialProofs` | theorems of these parts (and of `Micros`) |
| `DriverProofs` | theorems of `Radio`, `I2C` and `Accel`, `Adc`, `Images` and `Display` |
| `PartProofs` | theorems of `TickClock`, `Heap`, `Context`, `Kprintf`, `Interrupts` |
| `RoutineProofs` | theorems of `Memory`, `Rings`, `Prandom`, `Numbers`, `Printf` |

`MCDrivers`, `MCParts` and `MCTimerDriver` each hold several parts that share no
state but `board`, the board that the program was built for. In a behaviour of
one of them one part is used, chosen at the start, and the others are at rest:
the states of the parts add up and are not multiplied. Parts that do share
state are composed in full: the rings and their UART with clients in `Serial`,
the timeout service inside `Kernel`, the accelerometer's program and other
masters on one bus in `Accel`, the refresh and two programs on one image in
`Display`, the printer and the serial driver on one UART in `Kprintf`.

Definitions whose comment begins "Seeded fault" are used by no specification.
Each is another definition of its module with a plausible mistake, kept to
confirm that the property named in `PROJECT.json` ("mutants") notices.

### Kernel and the code

`state`, `prio`, `waiting`, `pending`, `filter`, `msgbuf` are the fields of a
process descriptor; the field `next` is represented by the order of the
sequences `readyq[k]` and `waiting[d]`. `timeout`, `timeouts`, `ticks` and
`next_time` come from `Timeouts`. `phase` separates `init()`, in which
`start()` is allowed, the idle task's one `yield()`, and normal running.
`panic` is "none" until the kernel panics; then no action is enabled.

Atomicity. SVC, the device interrupts and PendSV have the same exception
priority (no code raises or lowers one), so a system call, an interrupt handler
and a context switch never interrupt each other, and a PendSV that a handler
asks for runs before any other code of lower priority. Each system call is
therefore one action, and an interrupt handler is one action together with the
context switch that follows. `connect`, `priority` and `enable_irq` are plain
functions of the current process; an interrupt may fall inside `connect` between
its two assignments, which changes nothing: the process is already at handler
priority, and until the second assignment the interrupt has its old handler, as
before the call.

The clients are the most general ones: the current process may make any call,
with arguments from the sets given as constants. The data of a message are left
out; its type and sender stay. `FirstSender` is a set with one position or none
where `find_sender` returns a pointer or NULL. A receive without a buffer
(`NULL`) is the element `FALSE` of `Buffers`. A negative delay given to
`receive_t` waits without a timeout, which is `ReceiveWait`; a zero delay is
`ReceivePoll`.

`OwnIrqs` are interrupts with a handler in the driver, such as
`timer1_handler`, which sends the message and leaves the interrupt enabled.

### Timeouts and the code

An `int` holds `-Half .. Half-1`; `Wrap` brings the sum of two ints back into
range, and `NO_TIME` is `-Half` as 0x80000000 is the least int. The deletion
in `cancel_timeout` and the compaction in `mini_tick` act on the sequence
`timeouts` as the loops act on the array. The assertions of the code are
`MaySet`, `MayCancel` and `MayTick`; where one fails, `Kernel` panics.

### TimerDriver and the code

`task` says where the timer task is: in `receive`, in `create`, at a slot of
the loop in `check_timers`, blocked in the send of PING, or just after it.
The actions of the task are the stretches between the points where something
else can come in between: the interrupt counts milliseconds at any of them, and
a client runs whenever the task is blocked. A message is handed over as in
`Kernel`: at once if the receiver waits, else the sender queues, and a pending
interrupt is received before any message. `due[i]` is `timer[i].next - millis`,
since the code only compares the two; this is exact until `millis` overflows
after 49 days, which a comment accepts. `age`, `passed` and `lost` are not in
the code.

Clients follow the rule that the comment on `check_timers` states, in part: one
that has a pulse makes no other call than `timer_wait`. How soon it makes it is
left open in the safety runs (`Prompt = FALSE`): there the task may be held up
in a send until a timer is `Lag` milliseconds overdue, interrupts meanwhile
coalesce, and `lost` records that. `NoDrift` holds all the same: `millis` misses
no interrupt, so that each pulse stays on its grid and each delay at its time; only
that none is overdue when the task waits rests on `~lost`, since a pulse whose
period is a tick or less never makes up for a lost one. With slow clients every
interrupt can find the next one pending when the task returns to `receive`, and
as an interrupt comes first a REGISTER in the queue is never received:
`CallsReturn` is false then. The run `drivers` therefore makes the whole of the
comment's assumption (`Prompt = TRUE`), and no property speaks of the starvation.

### Micros and the code

One action per access to the hardware, with the counter running on between any
two. The capture registers are one variable, shared by the callers; a caller may
start only when those inside the call have enabled interrupts and are of
no higher priority, and none is of interrupt priority, which nothing preempts.
`Answer` is what the call returns. The true time `now` is a ghost.
The order of the accesses is that of the source. The load of `millis` is not
volatile and `intr_enable()` is no barrier to the compiler, so that a build could
move it; the model takes it where it stands.

### Undisciplined programs

`mini_send` cancels the timeout of a waiting receiver. `mini_sendrec` and
`interrupt` do not. A process that is woken so from a `receive_t` keeps its
timeout, and a tick later makes it ready again whatever it is doing by then.
The run `kernel_stale` shows the consequence. The other kernel runs, and the
properties about timeouts, are for programs that are `Disciplined`: no receive
with a timeout accepts a call or an interrupt. The programs in the repository
are.

### The drivers and the code

`Serial`, `I2C`, `Radio`, `Adc` have one form. A driver's task has the priority
of interrupt handlers and shares its state with nobody, so a step of it is a
stretch between two points where its device can come in between: an access to a
register that the device changes, or a wait. The variable with "task" in its
name says where it is. A client's call puts the client at the end of a queue and
its request in a function of clients; the task takes the first when it is in
`receive(ANY)`, but a pending interrupt before any of them, as `Kernel` does.
The interrupt handler is `default_handler`: it disables the interrupt and sets
the pending flag, and the driver enables it again when it has served it.
The device's own steps are external: what the driver relies on, at any speed.

`Serial`. Keys arrive at any moment, up to `Fifo` before the driver reads them.
The rings are counts (`n_avail`, `n_edit`, `n_tx`); `keypress` and `echo` are
what they do to the counts. `queue_char` is a loop of `QueueChar`,
`WaitForSpace` and the whole of `serial_interrupt` and `reply`, from where the
task comes back to it (`back`). `RXDRDY` is cleared after `RXD` has been read, so
that the event of a character that arrives before, or between the two, is
lost. The ghost `missed` counts the characters that came while `RXDRDY` was set, at
whatever point of the driver's work, and `EveryKeyAnnounced` says that the UART
holds just these and one more if the event is set for it: nothing else that the
driver does meanwhile, queueing, replying or waiting for space, loses an event, and
it reads one character for each. With a text longer than the ring and an idle
transmitter `queue_char` waits for ever (`Stuck`).

`Rings` holds the same counts with the buffers and the indices, and one action
for each thing the driver does to them: a key, a character queued, read or
transmitted. `Console` is what a user of the terminal may rely on; the
refinement mapping reads the rings from their out-pointers on.

`I2C`. A transaction is its kind, address and two lengths. A message has a byte
for each length (`InMessage`), so that one of 256 is sent as none; `BusKept` and
`AnswersTrue` are about the lengths as sent. At any byte the chip
may refuse, and no chip answers at an address where there is none. `Finishing`
is the part after an error or the last byte, in which the driver waits for
STOPPED. A READ of no bytes never stops the bus (`Hung`). `Accel` follows
`accel_start` and `accel_reading`; what other masters do on the bus is open. On
V1, `i2c.c` needs `I2C_IRQ`, which `hardware.h` of V1 calls `I2C0_IRQ`: as it
stands it is not compiled for V1. The driver is otherwise the same on both.

`Radio`. Packets from other stations come in whenever the radio receives. `met`
remembers that one came in that a SEND had still to deal with, the moment at
which `radio_await` may take the wrong event: the run `radio_collision` shows
that it happens, and the other properties are about what is true otherwise.
`regrouped` remembers that `radio_group` was called while the radio listened:
the driver does not set the prefix again, so that it is deaf to the new group and
drops what it hears of the old one.

`Adc` has the channel tables of both boards; on V2 the converter is calibrated
first. A reading is the pin that was selected, so that a wrong entry, or an
answer to another client, shows.

`Images` has both ways to set a pixel: the `IMAGE` macro and `image_set` with
its tables. `Display` has the refresh, register by register, a program of low
priority whose `memcpy` of an image the refresh interrupts at any word, an urgent
program whose copy is not interrupted but may fall into the other's, and `spin`.
A behaviour begins when the task has sent its request for pulses: it still has
low priority and has yet to clear the image (`ClearWord`), and both programs may
come before it or in between. `shown` is the picture of the latest
`display_show`, `latest` that of the latest copy, the clearing included. The
comment at display.c:66-69 amounts to `GlitchIsMomentary`: once copying is over
the image is `shown`. The run `display_early` refutes it, since a picture shown before
the clearing is wiped out for good; what holds is `ImageIsLatest`. An LED is lit
if its row is high and its column low, and nothing else is said about time. After
two copies overlap the image is a mixture (`torn`) until the next copy begins.

### The rest of the kernel, the startup code and the library

`Heap`. Addresses are bytes and memory is words; a word is blank, a descriptor,
or written by a process. In `Enter` a process calls a function and writes any of
the words of its locals, not necessarily all; `system_call` saves a frame, without
gaps, checks for overflow, and resumes any process; `cxt_switch`, after an
interrupt, does so without the check. A stack overrun writes on the neighbour's
stack. The code looks at one word only, the last of the stack, "to help detect
overflow", so what is promised is about that word: a process that has written it
gets no further than its next system call (`OverflowDetected`), and an overrun
that did not write it stepped over it in a call that left it alone
(`OverrunAccounted`, with the ghosts `overran`, `spent` and `skipped`). What a
process writes is taken to differ from the value `BLANK`, 0xdeadbeef, which was
chosen for that.

`Context`. An action is an instruction or a group of instructions that move
registers to or from the frame, in the order of either processor. At any moment
outside the exception a system call or an interrupt may come; another interrupt
may come before the handler of a system call begins and leave junk in the
registers that it need not preserve.

`Kprintf`. One character is sent at a time; one that is written while another
is being sent may be lost or follow it. The kernel's printer may take over the
UART at any moment that interrupts are enabled, and from processes that have
disabled them.

`Memory`. The images in the flash, the RAM and `__reset`; then any calls of
`memcpy`, `memmove`, `memset`, `memcmp`, a byte at a time, on areas that overlap
in any way (for `memcpy`, not).

`Interrupts`. Registers are sets of numbers or arrays of bytes, and `BIT`,
`SET_BYTE` and the shifts are those of each board. A device keeps the pending
bit set as long as its event lasts; the driver clears its event, then the
pending bit, then enables. `irq_priority` of an exception on V2 uses the offset
8 where the register array starts at -12: the run `irq_priority` shows it.

`Numbers`. A digit is its value and a word has `WORD` values; `itoa`, `utoa`,
`atoi` and `xtou` are the loops of the code, a digit at a time. `Printf`. A
format is the spelling of a sequence of pieces (a plain character, a `%` with a
letter that converts or one that does not), and the ghost `meant` is what the
comment says the pieces print; output goes in chunks, between which other
processes print. `Prandom`. One action for
each access to `seed` or to the interrupt mask; a number in between is computed by
Schrage's method.

## Runs

| Run | Instance | Shows |
|---|---|---|
| `kernel_ipc` | 3 processes: messages of two types by `send` and `sendrec`, filters ANY, REPLY and one type; or sends, receives with timeouts of 1 and 2, priorities | queues match states, calls end with a reply, sends with a handover; timeouts belong to waiting processes, when a tick fires two at once |
| `kernel_devices` | 2 processes, an interrupt, all calls, timeouts, priorities 0 and an illegal one | no missed meeting, no failed assertion, idle only when nothing is ready, filters respected, handlers run at once |
| `kernel_live` | 3 processes, an interrupt, priorities, fairness | a ready handler runs |
| `kernel_stale` | 3 processes, calls to a receiver with a timeout | **violation** of "at most one queue" |
| `timer_driver` | 3 clients, 2 slots, tick 2 ms, delays and periods 1 and 3, clients as late as they like; or `timer_micros` called by a driver and a program | no standoff, no delay early, no drift even when interrupts are lost, panic only when the slots are rightly taken; the driver's answer is exact, any answer less than two periods wrong |
| `serial` | 2 clients, rings of 2, a text of 3, 2 keys in the UART, fairness | the transmitter's token, nothing forgotten, every key announced but those that came while the event was set, stuck only by a long text; otherwise a print ends |
| `drivers` | timer, bus, radio, converter, display or images, with fairness | each driver's safety, and that every request ends but for the cases named |
| `parts` | timeouts, heap, context, `kprintf`, memory, interrupts, rings, numbers, `printf` or `prandom` | refinement of `Countdown` and of `Console`, and the safety of each other part |
| `radio_collision` | a listener and a sender | **violation**: an assertion of `radio_await` fails |
| `irq_priority` | two calls of `irq_priority` | **violation**: on V2 the priority of another exception is set |
| `micros_preempted` | a driver and a program | **violation**: a preempted program gets a time outside its call |
| `display_early` | as `drivers` | **violation**: a picture shown before the task clears the image is wiped out |

Most properties of `drivers` and `parts` are conjunctions of the named facts
about one component that stand before them in its module.

Bounds. For the kernel, three processes are enough for a queue of two senders,
for removal from its middle, and for two timeouts that fire in one tick called
by a third process. To stay small, `kernel_ipc` has two kinds of programs
(`MCPrograms`): in one behaviour they call each other and set no timeout, or
wait for messages with timeouts only and never call. `kernel_devices` makes every call and needs two processes to
stay small; the interplay of three is in the other runs. In `parts` the timeout
service has a tick of 2 ms and delays below and above it, so that timeouts are
set at every phase of a tick. `Half` is small so that a wrong sum would leave
the range; nothing else bounds the behaviours: time is accumulated only while a
timeout is set, so the state spaces are finite. All processes play the same
part, so the safety runs use symmetry.

For `TimerDriver`, a tick of 2 ms makes timers that are created between two
ticks; delays of 1 and 3 are shorter than a tick and no multiple of it. The task
is taken to need less than a millisecond once it can run, as it has the highest
priority (`passed`). `Lag = 4` lets a timer be overdue by two ticks while the task is
in a send, long enough for several interrupts to be lost. For `Micros`, interrupts are
disabled for less than a period (`Section`), a call lasts at most `Long`, more
than two periods, and the word is larger than the errors that are to be told
apart.

For the drivers, two clients: one whose request is in hand and one that waits.
Rings of 2 are full, empty and wrap within a few keys, and a text of 3 does not
fit. With `Fifo = 2` in `serial` a second key comes before the first has been
read, and between the reading and the clearing of `RXDRDY`; more only add to the
backlog. On the bus, the accelerometer's own transactions have up to 6 bytes;
the others' include a READ of 256 bytes, which is sent as an empty one. The display shows pictures
that have LEDs in rows of both boards; `image_set` gets every pixel and two that
are off the display. The pads given to `adc_reading` are the six inputs and
`PAD5`, which is none.

For the parts, the heap has room for three processes or fewer, depending on
their sizes (5, to be rounded, and 12), and frames of 2 words, so that stacks
overflow by system calls alone and by calls of functions (`MAXUSE`), with the
last word written or stepped over. Memory has
6 bytes of RAM and 3 of flash, so that areas overlap by every distance. Words
have 8 bits: all of them are converted, the least int included. `printf` has a
buffer of 2 and formats of up to 2 pieces, with text below, at and above the
buffer's size. `prandom` has M = 17 and A = 3, with R < Q as in the code; all 16
seeds come up.

A kernel may stop (all blocked or dead, or a panic), a driver may panic or hang
in the cases named, and clients need not call, so deadlock is checked only in
`micros_preempted`; the liveness properties say what must go on.

Fairness. `kernel_live` assumes weak fairness of the idle task's one yield
and of each process's `Yield`: a process that has the processor gives it up
sooner or later. Nothing is assumed about other calls or about interrupts.
Without it a process that loops would keep the processor, since the kernel does
not slice time. In `serial` and `drivers` the tasks have the highest priority and
so run when they can; the hardware finishes what it was told to do; interrupts
are delivered. The radio's task has strong fairness for the receipt of
requests: an interrupt comes before any of them, but a packet takes far longer
than the task's few instructions, so that it does get to its queue between two
packets. Of the timer's clients, `drivers` makes
the whole of the comment's assumption (`Prompt = TRUE`): a client that has a
pulse gets the processor and goes on to its `receive` in time. The display's task
clears its image because processes of low priority take turns, as an interrupt puts
the one it preempts behind the others; from then on it has a higher priority, and
goes on because the timer sends it pulses. No client need ever make a call, and
keys and packets need never come.

## Theorems

Every safety property that a passing run checks is also a theorem, for every
value of the constants that the assumptions in the modules allow.

`ListFacts` proves what appending, taking the head, removing an element and
swapping the last one in do to a list. `TimeoutFacts` proves that each
operation of the service preserves `TimeoutsInv`, under the operation's own
assertion and for any caller. The first part of `PartProofs` combines these with
invariants of the clock and its callers into the inductive invariant `IInv` of
`TickClock`, and derives from it type correctness, `TimeoutsInv`, that no
assertion fails, that no timeout is early or late, and that `TickClock`
implements `Countdown`.
The strengthening is needed because neither "never early" nor "never late"
is inductive: both rest on the relation `Ages` between a timeout's due time,
the accumulator, and the time since it was asked for.

`KernelProofs` proves `KInv` inductive for `Kernel`, with any number of
processes, interrupts and message types. `KInv` says which processes the ready
queues hold (`Queued`: the active ones but the current one, each in the queue
of its priority) and which the senders' queues hold (`Waits`: the blocked ones,
each once in one queue), and one lemma for each operation on queues
(`EnqueueStep`, `ChooseStep`, `WaitsAppend`, `WaitsRemove`) says how the set
changes; each handler is then a short sum of such changes. It is strengthened
by `TimedFiltered`: a process with a timeout waits with a filter of
`TimedFilters`, so by `Disciplined` a call or an interrupt never wakes it, and
`TimedOnlyWaiting` survives `mini_sendrec` and `interrupt`. From `KInv` follow
`QueuesMatchStates`, `TimedOnlyWaiting`, `TimeoutsInv`, `AssertionsHold` and
`IdleOnlyWhenNothingToDo`. The run `kernel_stale` shows that `Disciplined` cannot
be dropped.

The second part of `KernelProofs` has `MInv`, which adds what `KInv` leaves
open: that a process in a sender's queue has a message in its buffer, which the
types of all messages rest on, and, for each receiver, that no message it accepts
is there. The latter is
inductive given `KInv`: a queue only grows by a message that its receiver has
just refused, and a process only starts to wait after a search that failed, in
a queue whose messages stay as they are. It yields `TypeOK` and
`NoMissedMeeting`.

The last parts are about steps. Only six actions wake a process (`StepsThatWake`),
and for each a lemma says who wakes and with what in the buffer (`WakesWell`); the
action properties `CallGetsReply`, `ReceivesWhatItAsked` and `SendEndsByHandover`
follow. They need one more invariant, `NoReplyCalls`: `mini_sendrec()` refuses to
send a REPLY, so the sender that `await_reply()` lets go waited in `send()` and is
owed nothing more. `PromptDispatch` follows from `KInv` before and after the step: a
handler that wakes is in the first ready queue afterwards unless it runs, so
`choose_proc()` found that queue occupied, and all in it are handlers.

`TimerDriverProofs` proves for `TimerDriver` that there is no standoff, that no
delay ends early, and that only a full table makes the task panic. The
invariant says what the client of each slot is doing (`Served`). The difficult
moment is the one between the PING of a delay and the freeing of its slot
(`Clearing`): the client may already be blocked in its next request, and so the
slot is exempt until it is freed. A new slot then belongs to a client that has
no other (`NoSlot`), since a request is only received when no slot is being
cleared.

Its second part proves `NoDrift`. `Pulses` says that each pulse is due a whole
number of periods after the tick before its creation, be interrupts lost or not;
and, unless one was lost, no slot is more overdue than the ticks that the loop has still to count
for it, the one in hand if the loop has not come to the slot and the one whose
interrupt is pending (`Behind`).

Its third part proves `MicrosAccurate`. All arithmetic is modulo the size of a
word, so that "equal" is `Same`. `ClockRight` relates the counter, its flag and
`millis` to the true time. For each caller `CallRight` says what the captures and
`millis` it has read so far are worth: while interrupts are disabled the counter
goes on from the first capture and past its end at most once (`Captured`,
`Inspected`); what it has then read is the time of a moment within the call
(`Exactly`), which stays so for a caller that no expiry can overtake, while for any
other the milliseconds are less than two periods old (`Roughly`).

`SerialProofs` proves, for any number of clients, any texts and any backlog of
the UART, that the serial driver keeps one token for the transmitter, leaves
nothing undone when it waits, loses the event of no character but one that came
while the event of an earlier one was set, and can be stopped only by a text
longer than the ring. `SInv` adds to these what holds in the middle of the task's
work: where the interrupt is enabled or pending (`Armed`), what each half of `reply()` has established
(`Served`), that `RXDRDY` is set when the task comes to clear it (`Clearing`), and,
for the last theorem, that all there is in the ring while the transmitter is
idle belongs to the request in hand (`Queued`, by way of `Calls`). The last one
needs rings of two characters at least, since `serial_putc()` queues two for a
newline.

`DriverProofs` has one invariant for each driver. All have the same shape: which
clients are blocked and on what, who is in hand, where the interrupt is enabled
or pending, and, for each point at which the task can be, the state of the device
and the events that can still come.

* `RadioInv`: `Phases` says for each place in `radio_await` what the radio does
  and which events it has; `Deaf`, that it hears the wrong group only after
  `radio_group` was called under it. From it follow `RadioAgrees` and
  `PacketsTrue`: a packet is delivered as it came from the air, and sent in full.
* `I2CInv` and `LevelInv`: `BusPhases` says where the bus is, `Count` how many
  bytes the request, the driver and the bus have still to agree on, `Outcome`
  that an error belongs to the transaction in hand. `ProgramInv` relates each
  step of `accel_start` and `accel_reading` to the reply it waits for. From these
  follow `BusKept` and `AnswersTrue`.
* `AdcInv`: the channel selected is the one the tables give for the pad in hand;
  `ReadingsTrue` follows, once the tables of both boards are shown to give each
  pad a pin of its own.
* `DrawInv` and `DisplayInv`: the first says of every word of an image which
  pixels have made it, so that `image_set` and `IMAGE` agree. The second says,
  for each step of the refresh, which pins are high (`RefreshInv`), which words
  of the image are of which picture while copies are under way, the task's own
  clearing included (`CopyInv`), and
  what `spin` has done (`SpinInv`). What an LED shows is then a matter of how the
  words of a row are spread over the ports, which is proved for both boards
  pixel by pixel. `PicturesRight` follows.

`PartProofs` proves of `Heap`, for every size of memory, table, frame and stack,
that stacks and descriptors never overlap (`Disjoint`), that an overrun of a
stack reaches no descriptor, that one which wrote the last word of the stack gets
no further than the next system call and any other stepped over that word, and
that without one nobody's frame or stack is touched (`StacksSafe`). `HInv` is
needed since none of this is inductive. It says where a stack pointer may be
(`InStack`: all but the runner have a frame above theirs), that the last word of a
stack that was once written is not blank any more (`Marked`, which is why the
check at system calls finds an overrun that happened before), that a stack pointer
came down past that word only by writing it or skipping it (`Accounted`), and that
everybody's frame is their own while nobody has overrun (`OwnFrames`).
`Continues` is what a call, a system call and a context switch have in common;
`CreationStep` is the other half of the argument.

Of `Context` it proves `FramesKept` on both processors. `ContextInv` says, for
each stage of the way into the kernel and out of it, which registers of the
process that runs are in its frame and which still hold their values (`Stages`,
`Still`), while all others have a whole frame (`SavedFrame`).

Of `Kprintf` it proves `PrintingHarmless`. `KprintfInv` is a balance: the
characters and events on the way (`OnTheWay`) are those that the printer and the
driver wait for (`Wanted`).

Of `Interrupts` it proves `InterruptsReachDrivers`. `ServiceInv` says where the
interrupt of a device is (pending, active, or to come) in each state of its driver
(`Served`); `PriorityInv`, that each byte of a priority register is what was last
asked for its interrupt, which needs that `SET_BYTE` changes one byte of a
word, and that two interrupts share no byte.

`RoutineProofs` begins with induction on natural numbers, in a form that the
provers can use: over a set in place of a predicate, from the fact that a set of
numbers that is not empty has a least member; and, from that, with the existence of
a function that follows a rule from each number to the next, which gives the
recursive functions of `Numbers` and `Printf` their values.

* `MemoryInv`: which bytes `__reset` or the routine in hand has written or read
  so far. For `memmove` the bytes still to be read are those not yet overwritten,
  whichever way it goes. It gives `MemoryAsMeant`.
* `RingsInv` bounds the pointers and counts; the refinement mapping reads `Live`
  characters from a place on, and a lemma for each way to change a ring
  (append, take the first, take back the last, pass characters from one
  sequence to the other) says what becomes of them, with places modulo `NBUF`.
  It gives `ImplementsConsole`.
* `RandomCorrect` holds for every modulus `M` and multiplier `A` with `R < Q`, the
  condition of Schrage's method, true of those in lib.c: `Schrage` shows that
  neither product leaves `0 .. M` and that the result is `(A * x) % M`. The proof
  needs only that quotient and remainder are unique (`Division`,
  `RemainderUnique`), since the multiplications are by variables and so beyond
  linear arithmetic. `RInv` adds the concurrency: who is between the reading and
  the writing of the seed has interrupts masked, so nobody else is.
* `NumbersInv`: there is a function `h` of places such that `h[i]` is what the
  digits before place `i` are worth (`PrefixValues`), at the end the
  number itself, and the loop of `atoi` or `xtou` has computed `h` at the place it
  has reached; and the number still to be converted is below ten to the power of the
  room left (`RoomLeft`), which is why `NMAX` characters are enough. It gives
  `ConversionsCorrect`.
* `PrintfInv`: some pieces of each format are `Left`, such that `fmt` is what they
  spell, `va` their arguments, and what they print is what is missing from the
  text so far, the buffer included. A `%` alone can only be the last piece, so
  the loop reads the pieces as they were meant. It gives `PrintingCorrect`.

Assumptions: `TimeoutsAssumption`, `RoomForAll` (finitely many processes,
fewer than NPROCS, which `create_proc` enforces) and `KernelAssumption` and, as
hypotheses of the theorems, `SmallDelays`: delays and the tick are well below
the range of an int, which the code takes for granted (`ticks + ms` would wrap
and the timeout fire at once), and for the kernel `Disciplined`. All other
theorems need only the assumptions on their constants, which are those of the
code: rings of at least one character (two for `Serial`), a slot in the timer's
table, buffers that have room for an int, `R < Q`.

The types of the variables, the properties of `TickClock` other than the
refinement, and `TimeoutsInv` inside the kernel are proved and not repeated among
the properties of the runs.

Only model-checked are the four liveness properties (`HandlerRuns`, `PrintEnds`,
`RequestsEnd`, `EveryPixelLit`), which are out of the prover's reach, and the five
violations, which are counterexamples.

## What could be done next

1. The queues of `Kernel` as linked lists through `next`, `head` and `tail`,
   shown to implement the sequences.
2. An abstract specification of message passing alone, implemented by `Kernel`.

## Not modelled

- The convenience functions for pins in hardware.h and lib.c, and the register
  definitions, device tables and linker scripts: they are names and constants,
  without behaviour of their own. Where one of them decides what a program does
  (the pins of the lights, the word size of images, interrupt numbers and
  priority registers) `Boards`, `Images`, `Interrupts` and `Display` have it.
- The configuration of clocks, of the UART, of the radio and of the converter:
  fixed sequences of writes whose effect is only in the hardware. The `startup.c` of
  V2 clears GPIO0_OUT twice at the end of the seven stars, where the second
  may have been meant for GPIO1 (lines 236-237); this is harmless, since all rows
  of lights are pins of GPIO0.
- The instruction cache of V2, and the branches of `serial.c` for the KL25Z, a
  board whose startup code is not in the repository.
- The texts of dumps and of `kprintf`, and the widths and number formats of
  `printf` beyond the conversions of `Numbers`.
- The choice of bytes and signs in an accelerometer reading.
- The example programs: each is an instance of the general clients of `Kernel`
  and of the drivers, who may make any call at any time.
- `millis` and the times of `timer[]` after 49 days, which a comment at
  timer.c:19 gives up.
