# KOZOS in TLA+

KOZOS is a small operating system for the H8/3069F micro controller: a boot
loader that receives a program over XMODEM (`src/src/bootload`), a kernel with
threads, messages and dynamic memory (`src/src/os/kozos.c`, `memory.c`,
`syscall.c`), and a console made of a serial driver thread and a command shell
(`consdrv.c`, `command.c`, `main.c`). This directory holds TLA+ models of it,
the TLC runs that check them on small instances, and TLAPS proofs of what can
be proved for every size of the system.

## 1. The system

| component | state | operations | works with |
|---|---|---|---|
| memory manager, `os/memory.c` | three pools of fixed-size blocks, a free list each | `kzmem_init`, `kzmem_alloc`, `kzmem_free` | called by the kernel, inside traps and interrupts |
| ready queues, `os/kozos.c` | `readyque[]`; `next`, `flag.bit.ready`, `priority` of `threads[]` | `get`, `put`, `schedule`, `dispatch` | every kernel entry |
| message boxes, `os/kozos.c` | `msg_boxes[]`; message buffers in blocks of the memory manager | `sendmsg`, `recvmsg`, `enque`, `deque` | memory manager, ready queues |
| kernel calls and interrupts, `os/kozos.c`, `os/syscall.c`, `misc/interrupt.c` | `current`, `threads[]`, `handlers[]` | twelve `kz_` calls, the `kx_` calls of handlers, the soft error trap, `thread_intr` | all of the above |
| console driver, `os/consdrv.c` | `consreg[0]`: port, user, send and receive buffer | messages `u` (use) and `w` (write); the serial interrupt | message boxes, memory, serial driver |
| command shell, `os/command.c` | the line it works on | reads a line, writes the answer and a prompt | message boxes, memory |
| system start, `os/main.c` | | creates the two threads above, becomes the idle thread | kernel calls |
| serial driver, `misc/serial.c` | the registers of the SCI | send, receive, interrupt enable | console driver, boot loader |
| XMODEM receiver, `bootload/xmodem.c` | block number, position in the buffer | `xmodem_wait`, `xmodem_read_block`, `xmodem_recv` | serial driver (polling), the host's `sx` |
| boot loader commands, `bootload/main.c`, `elf.c` | `size`, `loadbuf`, the buffer, the memory programs are loaded to | `init`, `load`, `wait`, `run`, `exit`; `dump` prints | XMODEM receiver, `elf_load` |
| entry and exit of the kernel, `bootload/vector.c`, `intr.S`, `misc/interrupt.c`, `os/startup.s` | registers, stacks, `softvec`, `context.sp` of a TCB | vectors, saving and restoring of registers, `interrupt`, `dispatch` | the kernel; every thread |
| library functions, `misc/lib.c` | | strings, memory, polled terminal | everything |
| flash writer, `writer/h8write.c` | the image of the file, the page being written | the dialogue with the board, the S-records, the writing | the boot program in the board's ROM |

Threads and the kernel share all kernel state, but the kernel runs only in
traps and interrupts with further interrupts masked: one kernel entry is
atomic, and what interleaves is application code with interrupts. The driver
thread and its own interrupt handler share `consreg` and the port, and exclude
each other by the mask bit of the CCR, which is saved and restored with every
thread. Boot loader and host share a line that garbles and loses bytes; so do
the flash writer and the board it writes the boot loader to.

### What is hard, and what makes each part correct

* **Ready queues.** A thread is in a queue exactly when it is flagged ready;
  queues are FIFO; an interrupt takes the processor only for a more urgent
  thread. `get` leaves a stale `next` behind, and `put` changes a thread that
  is already queued.
* **Kernel calls.** Every call takes its caller off its queue first. It must
  come back whatever goes wrong, unless the call is meant to block.
* **Messages.** A message sent while a receiver waits must be handed over in
  the same entry, through pointers into the stack of a thread that must still
  be blocked in that call. Order; and no buffer or data lost or owned twice.
* **Memory.** No double allocation; the smallest block that fits; exhaustion
  stops the system.
* **Console.** Driver and handler write one buffer and hand the duty to send
  over to each other through the transmit interrupt's enable bit: no stall, no
  busy waiting in the handler, no character lost or out of order.
* **Context switch.** A thread is stopped between any two instructions, and its
  registers, mask and place must come back from its own stack; a call passes
  its arguments through the TCB with interrupts enabled; all of the kernel runs
  on one interrupt stack.
* **Flash writer.** Every byte it reads decides what it does next, some without
  any check; it may be stopped half-way and run again on a board that is in
  another mode than it expects. Success must mean that the program is there.
* **XMODEM.** Answers get lost, blocks are repeated, bytes garbled; a block is
  stored before it is known to be good. No block twice, no part of a file for
  the whole.

`PROJECT.json` ("hazards") lists the places in the code and the property that
watches each of them.

## 2. Modules

```
LinkedList --- KzPool --- KzMemory            (memory alone)    MCKzMemory
     |--- KzReady|
     |--- KzMsg -+--- Kozos
                        |--- KozosRefinement (FifoScheduler, Mailbox)   MCKozos
              Serial ---+--- Console --- ConsoleRefinement (Terminal)   MCConsole
              Context --- ContextRefinement (Processors)                MCContext
              Xmodem --- BootLoader (Transfer)  ---.                    MCBootLoader
                          H8Write (Flashing)  ------+--- Install        MCInstall
```

Each module of theorems extends the modules it is about and the theorems it
rests on:

```
KzPoolProofs --- KzMemoryProofs     (LinkedList, KzMemory)
     |--- KozosProofs               (Kozos)
            |--- KozosBoxProofs     (KozosRefinement) ---.
            |--- KozosQueueProofs   (KozosRefinement) ---+--- ConsoleProofs     (ConsoleRefinement)
                                                                |--- TerminalProofs
ContextProofs                       (ContextRefinement)
```

* `LinkedList`: reading pointer lists as sequences and sets. Models keep the
  pointers of the C code; only properties and refinement mappings read them as
  lists.
* `KzPool`, `KzReady`, `KzMsg`: the data structures as operators on a record of
  their C fields, named after the functions (`kzmem_alloc`, `get`, `put`,
  `enque`, ...). A block is `<<pool, number>>`, a thread its index in
  `threads[]`.
* `KzMemory`: the memory manager with arbitrary clients.
* `Kozos`: the kernel, one action per call, trap or interrupt. An action is the
  whole entry: `syscall_proc`'s `get`, the function of `call_functions`, then
  `schedule` and `dispatch` (`Dispatch`). What applications do is decided by
  constants (`Calls`, `RunPriorities`, `AllocSizes`, `WakeReady`, ...), so that
  one module serves unrestrained and well-behaved applications. `mode` is
  "down" after `kz_sysdown` and "wild" after a write outside the tables.
* `FifoScheduler`, `Mailbox`: what scheduling and messages promise, without
  pointers, buffers and pools; `KozosRefinement` maps the kernel to both.
* `Serial`: the registers of one SCI port.
* `Console`: the three threads of `main.c` as programs over the kernel's
  actions - each has a `pc` and takes one step per kernel call or per stretch of
  code an interrupt may split - with `consdrv_intr`, the port's hardware and a
  person who types.
* `Terminal`: what the console promises, without any of that, the one way in
  which it may end (`Overrun`) included;
  `ConsoleRefinement` maps the console to it.
* `Context`: what `Kozos` takes for one step, instruction by instruction: an
  exception pushes CCR and PC on the stack of a thread, the entry code pushes
  the registers, changes to the interrupt stack and calls `interrupt`,
  `thread_intr` keeps the stack pointer in the TCB and calls a handler, and
  `dispatch` resumes a thread from what its stack holds. Memory is an array of
  words; popped words and the stacks of ended threads are overwritten with
  `Unused`, so that nothing can rely on them. Which thread is resumed is left
  open: that is `Kozos`'s part. A write to a wrong place, or an interrupt in
  the kernel, is not prevented by a guard: it happens, and shows.
* `Processors`: what that code promises: each thread has a processor of its
  own. `ContextRefinement` puts a thread's processor together from wherever its
  parts are (in the registers, on its stack, half and half).
* `Xmodem`: the receiver, one step per byte, the host's `sx` and the line.
  `BootLoader` adds the command loop with the port that overruns while `wait`
  runs, and `elf_load` on a memory (`ram`, `buffer`) in which the buffer follows
  the programs: `run` writes it also when there turns out to be no entry point
  ("run error!"). `Transfer` is what loading promises.
* `H8Write`: the flash writer from the bit rate to the last page, with the
  board's boot program, the line, and a person who stops it and runs it again
  after a reset or without. `Flashing` is what writing a program promises.
* `Install` composes them: the writer writes the boot loader, the board is
  started from its flash memory (`init`), and loads and starts programs.
* `...Proofs`: theorems. `MC...`: the small instances.

Definitions marked "Mutant:" are slips the code could have made. They are used
by no specification; each shows that some property notices it.

Left out on purpose: names, arguments and stack contents of threads; the size
field of messages (it travels with the pointer); `send_buf` and `recv_buf` as
addresses inside blocks (their contents are the sequences `cons.send` and
`cons.recv`, the blocks are kept); the two command characters of driver
messages ("use" and "write" stand for them); the format of the line. In
`H8Write` an address or a number is one byte (the signs of addresses and the
checksums are kept), and the selection of device and clock is one of each. In
`BootLoader` the header of an ELF file and those of its segments are three bytes
each (`MAGIC`, number of segments, entry point; address, offset, type and sizes),
one behind the other.

## 3. Runs

| run | question | instance |
|---|---|---|
| `memory` | Are free lists exact, allocation best fit and never double? | 3 pools, 7 sizes up to and beyond the largest block |
| `kernel_any` | What holds whatever applications do - ready threads woken, vectors that do not exist, threads that end while registered as receivers? | 3 threads, 2 priorities, 1 box, 2 blocks |
| `kernel_sched` | Queues, FIFO by priority, no starvation | 3 threads, 2 priorities, no boxes |
| `kernel_msg` | Blocking, waiting receivers, ownership, FIFO mailboxes | 3 threads, 1 box, 3 blocks, at most 2 messages pending |
| `console` | Is the console a terminal, does everything move on, do the buffers hold, and what alone can bring the system down? | pools of 4, 4 and 1 blocks, so that memory can run out; a line typed ahead; a send buffer of 10 characters, which the longest replies fill exactly |
| `context` | Does every thread keep its registers, mask and place, is the call served that was made, are stacks kept apart, is the kernel never interrupted? | 2 threads and 3 stack areas (one TCB is used twice), 3 registers, an interrupt before every instruction |
| `install` | Does success of the flash writer mean that the boot loader is there, do transfers over a bad line, and is what is started what was sent? | a flash memory of 3 pages, 2 files, a garbled byte, a kill, 2 runs; then 4 files of up to 3 blocks, 2 loads, a garbled byte, a lost answer |
| `wake_ready` | violated: `NoLostThread` when a ready thread is woken | |
| `full_table` | violated: `FullTableIsHarmless` when every TCB is in use | |
| `three_pending` | violated: `NoBlockLeaked` with a third pending message | |
| `echo_overrun` | violated: `MessageFits` for the echo of five characters | the real words |
| `transfer_cut` | violated: `ReturnsFileSize` with one garbled byte | |

The five violations are disagreements between the code and what its comments
or headers say; `PROJECT.json` ("findings") quotes both sides.

More were met and are not kept as runs. `thread_setintr` with a vector out
of range returns -1 without putting its caller back: the caller is lost
(`OnlyBlockingCallsBlock` fails when `IntrTypes` has such a vector, which
`kernel_any` allows and `kernel_msg` does not). And the echo of a line of 18
characters, with the line end and prompt behind it, needs more than the 24
characters of the send buffer, whose fill nobody tests (`BuffersHold` fails with
the real words and such lines; those of the run fit exactly). In the flash
writer, the fatal error of a device query has the code 0, so that a Makefile
sees success; a record that ends where the memory ends is left out, by one; the
checksum of the memory's bounds is read and not added up; and a run on a board
that answers more errors than one to the bit rate bytes takes what is left over
for answers to later queries, and may wait for ever for one (`FlashingEnds` is
therefore about first runs).

### Bounds and why they are enough

* Three threads are the fewest with a caller, a thread it serves and one that
  stands by in between, which every queue error found here needs. Two
  priorities decide every comparison the scheduler makes. `STACK_NUM` bounds
  how often threads are created, as the stack area does on the board.
* `MaxPending` = 2 in the passing kernel runs: from the third pending message on
  `enque` loses one (`three_pending`); on the board one line typed ahead of
  another that waits is the second.
* `WakeReady` = FALSE where queues are claimed to be exact: applications wake
  only sleeping threads, as `kz_wakeup` is used by the test programs.
* In the console runs a person types one of a few short lines, up to
  `TypeAhead` lines before the shell has read, and presses a key when the one
  before has been taken and at most `OutLimit` characters wait. A prompt, an
  echo word and an error message of one or two characters (one containing a
  line end, which becomes two) keep few characters on the way. `CONS_SIZE` = 10
  is the least that holds them: with 9 `BuffersHold` fails. `MessageFits` is
  run with the real strings and sizes. `Calls`, `AllocSizes` and the like, which
  say what applications do, have the values `ConsoleAssumption` and
  `AllocAssumption` ask for. `ItsMemory` says that the instance meets the
  hypotheses of the theorems about the console: `EnoughBlocks` and `MaxPending` = 2,
  and `BuffersSuffice(4)` for the short words.
* The pools of the `console` run are the smallest with which the system starts
  and works, so that type-ahead exhausts them; with one block of 32 bytes more it
  never goes down at this type-ahead.
* `context`: two threads are the interrupted one and another; the third stack
  area is for a thread that is started in a TCB used before. Three registers
  stand for seven: the two that carry arguments (er0, er1) and one that does
  nothing but keep its value. `MaxDepth` = 1: a stack is empty or not. `STACK`
  is exactly what a thread pushes, the frame of one exception and the return
  address need, so that one word too many reaches the next area.
* `install`: the flash memory has three pages of two bytes, so that a record
  crosses a page, pages stay untouched, and a record ends with the memory. `Glitch` are values with a meaning elsewhere in the dialogue: the
  acknowledgement, the erase command, and an error response that is negative as
  the first byte of an address. `MAX_TRIES` is 3 for 64. Two runs are one that
  is stopped and one that finds the board as it was left.
* In the loader a byte has 32 values, so that SOH, EOT, ACK, NAK and CAN keep
  their real ones; a block has three data bytes. Block numbers are so small
  that their inverses are no control characters, which on the board holds for
  all 58 blocks its buffer has room for. A garbled byte becomes a value that is
  no control character: a SOH turned into an EOT ends a transfer in any XMODEM,
  and `transfer_cut` shows the code's own case of it. The memory below the
  buffer has five bytes. Of the files, one has two segments, the first ending
  where the buffer begins; one is copied into the buffer, over its own last block,
  which it does not need, so that it can be started after a transfer that failed
  there; one has no entry point, a segment that is copied all the same, and one of
  another type, which would become the entry point if it were; and one is empty.
  `StartsWhatWasSent` asks for no success of the transfer, only that what `elf_load`
  reads has come (`ReceivedProgram`) and is not overwritten before it is read
  (`Undisturbed`). Neither is tested by the code.
* `CHECK_DEADLOCK FALSE` only for the boot loader: it ends when the program has
  been started, at "exit", or when a port that was overrun hears nothing more.

### Fairness

* `FairSpec` of the kernel: weak fairness of `SystemCall`: the running thread
  goes on to its next call. A thread that computes for ever without one starves
  the others of its priority: there is no time slice. Interrupts are not fair.
* `ConsoleFairSpec`: weak fairness of the threads (the processor executes
  instructions), of `consdrv_intr` (an unmasked request is served; it stays
  pending until then) and of `Transmit` (the port sends). The person is not
  fair: one may stop typing.
* `LoaderFair`: weak fairness of the receiver's steps and of the host's reading
  of answers and timeouts. The host may give up at any time and the line is not
  fair in either direction.
* `WriterFair`: weak fairness of the writer and the board together, which take
  turns: each waits for the other. The line and the person are not fair.
* `context` has no liveness: instructions follow each other.

## 4. Proofs

All theorems are for any number of threads, priorities, boxes, pools, blocks,
block sizes, registers and stack areas, under the assumptions named in the
modules: `PoolAssumption` (sizes increase, no pool is empty),
`ReadyAssumption`, `KozosAssumption`, `SizesAssumption`, `ContextAssumption`;
those of the console add `ConsoleAssumption` and `AllocAssumption`, which fix the
kernel's constants to what the three threads and the handler do with it (the
calls they make, their priorities, the sizes they ask for), and leave open the
prompt, the command word, the answer to unknown commands, the lines, the pools
and how much is typed ahead. The runs evaluate these for their instances.

### Lists

The first part of `KzPoolProofs`. The code keeps lists in pointers, and the properties read
them as sequences (`ListSeq`, a recursive function). No induction rule of the
library can be used, so statements about a whole list are proved by way of the
least index at which they would fail (`LeastElement`). Once: that `ListSeq`
gives *the* sequence that starts at the head, follows the pointers and ends in
NULL (`ListRead`), so that the pointers alone decide how long it is.
Everything else is about what the four things done to a list do to that
sequence: taking the first (`ListTail`), putting one in front (`ListCons`) or at
the end (`ListAppend`), and writing to a pointer outside of it
(`ListUnchanged`).

### Memory manager

`KzPoolProofs`, `KzMemoryProofs`. `ExactLists`: every free list holds, once
each, exactly the blocks of its pool that nobody holds. It is inductive as it
stands, and gives `MemoryFreeListsExact` and `MemoryNoDoubleAlloc`; with
`SizesDiffer` (two pools never have the same size, so `kzmem_free` finds the pool
of a block by its size) also `MemorySmallestFit`.

### Kernel, whatever applications do

* `KozosProofs`: first the ready queues. `get` and `put` keep `QInv`, for any
  thread, the ready one included. The head of a queue is ready, of the priority of the queue, and the
  queue has a tail; the tail is ready, of that priority, and followed by
  nothing; a ready thread is followed by a ready thread of its priority, never
  by a head, and no two by the same one. That is weaker than "queues are
  exact", which waking a ready thread destroys; it is what survives that, and is
  just enough for the processor never to go to a thread that is not ready.
* Then the kernel: `KernelInv` = `SchedInv` (queues and the caller) /\ `IpcInv`
  (a box with a receiver is empty, types of the memory) /\ `RestOK`. Its parts
  are kept by each kernel entry separately: every action is first reduced to
  what it does to the queues and ends with `Dispatch`, for which there is one
  lemma. `KernelTypeCorrect`, `KernelCallerIsHead`, `KernelNoMessageWaits` are
  its consequences, and `KernelPreemption` is the action property that an
  interrupt gives the processor only to a more urgent thread.
* `KozosBoxProofs`: `BlocksInv` = `BoxShape` (either end of a box is NULL if the
  other is; the last buffer points to nothing, and the first one, if it is
  another, to the last) and the books: `ExactLists` for the free lists,
  and `Accounted`, that the blocks in use are the message buffers of boxes, the
  data they carry and what threads hold, each at most once. Boxes are looked at
  by their two ends only. That is enough because `enque` links a new buffer
  behind the first one: from the third message on, the one before is on no
  list any more. `KernelBlockExclusive`, that no block is owned twice, holds
  without any restraint: what `enque` loses, nobody owns.

### Kernel, used as intended

Some kinds of use break it, and the theorems name them as hypotheses; that
each is needed is shown by a run or, for the vectors, by `kernel_any`'s
instance.

* `Lossless`: at most two messages pending (a third is lost: `three_pending`),
  and no thread ends, neither by `kz_exit` nor by the soft error (what it
  holds is not given back; nothing in the code does). Then `KernelNoBlockLeaked`:
  the second half of the books, that every block in use is somebody's.
* `MaxPending <= 2`: `KernelImplementsMailbox`. Step by step the boxes are those
  of `Mailbox`: FIFO sequences of what was sent, of any data, given to the
  receiver that waits. Threads may end here.
* `~WakeReady` (nobody wakes a thread that is ready: `wake_ready`):
  `KernelNoLostThread` and `KernelImplementsFifoScheduler`. `QueuesInv`
  says that the pointers of every queue spell a sequence without repetition of
  just the ready threads of its priority; `get` takes the first, `put` appends.
  Every entry is one of six outcomes for the queues - the caller goes away,
  comes back, comes back and wakes one, stays, stays and one is woken, the
  system stops - so that the simulation has six cases and not fifteen.
  `KernelWaiterIsBlocked` rests on the same two invariants: `WaitersInv` ties a
  box's `reciever` to the thread that called `kz_recv` for it and is asleep.
* Legal vectors in `kz_setintr`: `KernelOnlyBlockingCallsBlock`, whatever is
  woken, from `BlockedInv`: a thread off the queues is in `kz_sleep`, or
  registered at the box of its `kz_recv`.

### Entry and exit of the kernel

`ContextProofs`.

* `KernelMasked`: interrupts are masked from the entry of the kernel to its exit
  (`KernelIsMasked`), whatever threads do with their own masks. This is
  what makes the actions of `Kozos` and `Console` atomic, so that the other
  theorems are about the code and not only about its model; and it is why one
  interrupt stack is enough.
* `ContextFramesInPlace`, `ContextCallIsCallers`. Neither is inductive: that
  a frame is where the stack pointer says is true because of where it was at
  the instruction before. `ContextInv` adds the types, the layout of the areas
  (`Layout`: no two threads share one, and the interrupt stack is nobody's), where
  the stack pointer is at each instruction of the entry and exit code and how
  many registers are already on the stack (`Places`), what the entry code has
  still in its registers (`Entry`), and that a call in the TCB is the one its
  thread made, from the setting of `param` to the trap (`CallsInv`).
* `ContextImplementsProcessors`: each thread has a processor of its own, which
  only that thread's instructions change. The lemmas about `Frame` say what a
  push, a pop, a trap and an `rte` do to the processor that is put together from
  memory and registers; from them, each instruction of the kernel leaves all
  processors alone (`Kept`), and an instruction of a thread changes its own
  as the instruction says, and no other (`OthersGoOn`).

### Console

`ConsoleProofs`. The kernel's theorems are about applications that may do
anything; the console is one application, and does little of it.

* `ConsoleUsesKernel`: each of its steps is a kernel entry that `Kozos` allows, or
  leaves the kernel alone, so `ConsoleSpec => Spec`. With it every theorem above
  holds of the system `main.c` starts; `ConsoleKernelCorrect` names five whose
  hypotheses its assumptions give. That a step is allowed needs the
  invariant: a thread may send or free only a block it holds.
* `ConsoleInv` = `KernelHolds` (the kernel's invariants) /\ `Always` /\ `RunInv`.
  `Roles` says which threads exist, with which priorities, and who may wait at
  which box. From it and the kernel's exact queues comes `Running`: the driver
  runs until it waits for a message, the shell only while the driver waits,
  idle only while both do. So a message is dealt with before the next one is sent,
  and what one thread is in the middle of fixes where the others stand:
  `DriverInv` and `ShellInv` (which block each has at which step, and what is
  written in it), `UseInv` (the port is untouched until both buffers are there;
  they are never among the blocks messages come in), `InputInv` (the shell's
  box holds lines), `PortInv` (characters that wait have the transmit interrupt
  enabled, or the thread is about to start sending with interrupts masked). Each
  action keeps each part; the handler, which may come between any two steps of the
  threads, is shown to meet only what `IntrFinds` lists.
* Its consequences: `ConsoleTypeCorrect`, `SendingIsStarted`, `PortIsReady`,
  `BuffersAreThere`, which are the run's `ConsoleTypeOK`, `SendingGoesOn`,
  `NeverSpins` and `BuffersFirst`.
* `ConsoleStopsForMemory`: when the system stops, a call or the handler has asked
  for a block and no pool had one. There is no other way: no second
  receiver at a box, no `kz_run` with a full table, no result written to a thread
  that is not waiting for it (`WaitersInv`), and the queues are never empty, as idle
  neither sleeps nor receives. Whose request it is says `DownByTypeAhead`, below.

`TerminalProofs`. What the person at the terminal may rely on. The steps of the
console are first reduced to what they *move* (`Moves`): a block from a thread to
another or to the box, a text into a block, a line to the shell's box or out of it
(`Waiting`, the lines in it), characters into the send buffer and onto the line. A
move mentions no pointer and no queue. The theorems are about moves only.

* `MovesInv` is inductive together with `ConsoleInv`. `HeldInv` says which blocks
  each thread has at each of its steps, and that it has no others: a message is
  freed when it has been dealt with, a line when it has been answered. `CopyInv`
  says that between the copy of a string and the start of sending, it is the end of
  the send buffer.
* `ConsoleDownByTypeAhead` assumes `EnoughBlocks` - counts of blocks of the
  sizes that matter: eight that fit any string the shell sends, five for the buffers,
  lines and messages - and `MaxPending <= 2`. When the kernel finds no block of a size,
  all that are large enough belong to somebody (`AllTaken`, from `ExactLists` and the
  books of the kernel), and `HeldInv` counts who may have how many. So neither the
  driver's two buffers nor the shell's answers can be refused, and a message or a line
  can be only while another line is with the shell. The board's memory (8, 8 and 4
  blocks) meets the hypothesis, as the run with the real sizes verifies.
* `ConsoleImplementsTerminal`, under the same two hypotheses: a step of the console
  is a step of `Terminal` or none that is seen from there. What is on its way out
  (`Out`) does not yet contain a string that is being copied, which is
  written at the moment sending has been taken care of; every character between is
  the handler's, at the end of what it finds. The answers still to be written are in
  the text of a message and the place of the shell in its program (`AtDriver`,
  `AtShell`). That the system may stop only as `Overrun` says comes from the previous
  theorem's lemmas.
* `ConsoleBuffersHold` assumes `BuffersSuffice(n)`: lines are shorter than their
  blocks (so that the shell's terminator fits, `TerminatorFits`), n is at least the
  number of characters of any answer with the prompt behind it, and the send buffer has room for
  `TypeAhead` + 1 answers, the `OutLimit` characters that were there when a key was
  pressed, and the echo of a line end. The bound on what is there is not inductive; what is
  bounded is `Load`, which adds what is still to come: the string the driver has been given,
  the rest of the shell's answer, the echo of the key in the port, and n for each line
  that has not been looked at. A key adds to it, within the limits the person keeps;
  everything else only moves characters from one summand to another, or takes some
  away. On the board, with 24 characters, the hypothesis allows an answer of 17
  characters (the least there is) to 22, and no line ahead.

### Only model-checked

* Liveness (`NoStarvation`, `KeysAreTaken`, `LinesAreRead`, `OutputMoves`,
  `TransferEnds`, `FlashingEnds`): out of the prover's reach, as is `ENABLED`, on
  which fairness depends. The theorems about the console say what it does when it
  does something.
* The boot loader and the flash writer: `InstallTypeOK`, `HostIsRight`,
  `StartsWhatWasSent`, `SuccessIsHeard`, `StartsKzload`, `ImplementsTransfer`,
  `ImplementsFlashing`. They hold for the noise of the instance and not for every
  noise: a garbled byte must not become a control character, block numbers and
  their inverses must not look like one, and the number of lost answers is bounded.
  And checksums, the segments of a program and the records of a file are folds over
  data, where a proof would need induction.
* `MessageFits` is violated by the real words, which is a finding and no theorem.

## 5. Not modelled

* The SCI's framing and parity errors; its overrun while the console runs (a key
  pressed before the last one has been taken sets ORER, which nothing clears:
  modelled for the boot loader, in `wait`); `serial_intr_recv_disable` and the
  port numbers (one port is used).
* `kx_kmfree` and `kx_recv`, which have no caller; `kz_wakeup` with the id of a
  thread that has ended; what `kz_kmfree` of static data reads (`FreeStatic`
  takes it for the size of no pool).
* What a segment copied to an address outside of both memories does, and what
  the boot loader does when bytes never written have been taken for a header
  (`Wild`: all of memory is unknown then; that its own variables are hit is left
  out).
* `dump` and `putxval`, which only print; `gets` with lines longer than its
  buffer, and files longer than the load buffer, which nothing tests.
* Of `misc/lib.c`, `strcpy`, `strlen` and the comparisons are used by their
  results, since names and commands are model values.
* Of `writer/h8write.c`: the branch for older processors (a program sent to the
  board byte by byte, and the tables that hold it), the options, terminal
  settings, and the Windows port. `make write` uses none of them. A damaged
  file (the checksum of an S-record is not looked at).
* The exercises `os/test*.c`, whose call patterns the kernel runs contain, the
  unused `os/msg.*`, `os/consdrv.s` (compiler output), `tests/serialTest.cc`,
  build files.

## 6. Plan

1. Proofs: that a transfer over a line that only loses answers stores a prefix of
   the file, which needs a form of `Xmodem` whose checksum is a recursive function.
2. Models: overruns of the port in the console; the two boxes and ending threads
   with the mailbox refinement; the writer's branch for older processors.
