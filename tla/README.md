# Verification of Geometry OS

TLA+ models of the core of Geometry OS, a pixel virtual machine with processes,
virtual memory, pipes and reactive canvas cells written in Rust, checked with
TLC on small instances. Every invariant and every action property that a run
checks is also proved with TLAPS, for every value of the constants; what runs
alone show is liveness.
Paths below are relative to the repository root; `vm/` is `src/vm/`.

## 1. The system

One host thread (`main.rs`, or `bin/geos_term.rs` without a window) owns one
`Vm`. In every frame it executes up to a million instructions of the main
program, and after each of them calls `step_all_processes`, which gives every
runnable child process one instruction. All state is plain fields of `Vm`;
what looks like concurrency is the interleaving of main program, children and
host at instruction granularity. True threads exist only behind the terminals
of host programs (`vm/ops_pty.rs`), the RISC-V live view (`riscv/live.rs`) and
audio.

| Component | State | Operations | Interacts with |
|---|---|---|---|
| Host loop (`main.rs` 1696-1801) | running flag, canvas, active applications | execute, schedule, poll shutdown, clean up applications | everything in `Vm` |
| Process table and scheduler (`vm/scheduler.rs`, opcodes in `vm/ops_*.rs`) | `processes`, per process state, priority, slice, sleep, mode, messages, handlers | SPAWN, SPAWNC, EXEC, EXECP, KILL, WAITPID, EXIT, SIGNAL, SIGSET, MSGSND, MSGRCV, SYSCALL, RETK, YIELD, SLEEP, SETPRIORITY, SHUTDOWN | pages, descriptors, windows by pid |
| Memory (`vm/memory.rs`) | `allocated_pages`, `page_ref_count`, `page_cow`, page directories | allocate, free, translate, fault, copy on write | process creation and death, every store |
| Pipes (`vm/types.rs`) | ring of 256 words, two cursors, count | write_word, read_word | READ and WRITE of processes |
| Formula engine (`vm/formula.rs`) | formulas, dependency index, canvas cells | FORMULA, FORMULAREM, FORMULACLEAR, recalculation by STORE | canvas memory, the host's canvas |
| Keyboard (`vm/mod.rs` 104-115, 334-344) | ring of 16 slots, legacy port | push_key, IKEY, READLN, reset | host's key events, programs |
| Descriptors and devices (`vm/ops_syscall.rs`) | pipe numbers, device numbers | PIPE, READ, WRITE, CLOSE, IOCTL | pipes, files, processes |
| Files of the host (`vfs.rs`) | descriptor tables by pid | open, read, write, seek, close, dup | EXEC, EXECP, process death |
| Inode file system (`inode_fs.rs`) | inodes, next number, working directory | create, mkdir, unlink, chdir, write, truncate | crash dumps |
| Terminals (`vm/ops_pty.rs`) | four slots: child, channel, closed flag | PTYOPEN, PTYREAD, PTYWRITE, PTYCLOSE, PTYSIZE | a reader thread each |
| Windows and applications (`vm/mod.rs`, `main.rs`) | windows with owner pids, application slots | create, raise, destroy, launch, clean up | process table |
| Snapshots, traces (`vm/mod.rs` 495-524, `vm/trace.rs`) | snapshots, three rings, step counter | FORK (save and restore), record, replay, query | registers, RAM, screen |
| Save files (`save.rs`, `vm/io.rs`) | a file | save, load | VM and canvas |
| RISC-V translation (`riscv/mmu.rs`, `riscv/bus.rs`) | TLB, page tables, known tables | walk, insert, fence, repair of stores | satp, stores |
| RISC-V hart, firmware, timer (`riscv/cpu`, `riscv/csr`, `riscv/boot.rs`, `riscv/sbi.rs`, `riscv/clint.rs`) | mode, trap registers, enable and pending bits, timer | trap, return, forward, SBI call, tick | translation faults |
| RISC-V guest in a thread (`riscv/live.rs`, `main.rs`) | handle, three channels, machine | run, kill, type, snapshot, pause, resume, reset | main loop, UART, framebuffer |
| Tools (assembler, canvas, rendering, network, QEMU bridge, MCP server, fuzzers) | | | |

What is hard in this code, and where (the full list is `hazards` in
`PROJECT.json`):

* a child executes against a process table that has been moved out of the VM
  (`scheduler.rs` 15): what it looks up is not there, what it spawns is added
  at the end of the pass;
* pids are the length of the table plus one, and repeat after a reap;
* page reference counts are kept by hand in five places, over directories that
  share pages in two different ways, with an allocator that does not know page
  2 is in use;
* fairness rests on a new round that starts only when everyone is exhausted,
  where sleeping and halted processes must count as exhausted;
* the formula index holds positions in a vector from whose middle formulas are
  removed;
* ring buffers tell full from empty by a separate count, or by a slot left
  free, and the logs of the debugger correct a step counter that has already
  moved, each in its own way;
* reader threads race the opcodes that look at their closed flag, and a guest
  in a thread races the main loop that drops its handle;
* application slots, window numbers and pids each repeat on a rule of their own,
  and the clean-up finds its victims by pid;
* a trap of the RISC-V guest reaches its kernel through firmware written in the
  host's loop, which rewrites the kernel's trap registers, while another trap
  may be on its way;
* translations outlive the tables they came from until a fence of four kinds
  names them, and tables must be known before they are stored to;
* a save may stop between any two words.

What makes each component correct: the scheduler starves nobody, leaves the
halted halted and stops when told to; pages have the owners their counts say
and never two of them by mistake; pipes are queues; formulas are a sheet of
cells without cycles; descriptors, windows and terminals belong to a process
that lives; a snapshot or save restores what it says; the TLB agrees with the
page tables up to the last flush.

## 2. Modules

| Module | Models | Extended or used by |
|---|---|---|
| `PipeQueue` | what a pipe promises: a bounded FIFO queue | `Pipe` (refinement) |
| `Pipe` | `struct Pipe`, `vm/types.rs` 195-257 | `PipeProofs`, `MCPipe` |
| `Kernel` | host loop, scheduler, process opcodes | `KernelProofs`, `MCKernel` |
| `Paging` | `vm/memory.rs` and the opcodes that create, write, stop and reap processes | `PagingProofs`, `MCPaging` |
| `FormulaSheet` | what the reactive canvas promises: cells, each with a value and at most one formula | `Formulas` (refinement) |
| `Formulas` | `vm/formula.rs` and its callers | `FormulasProofs`, `MCFormulas` |
| `Keyboard` | key ring and port, `vm/mod.rs`; refines `PipeQueue` | `MCPipe` |
| `InodeFs` | `inode_fs.rs` and the crash dump | `MCTrace` |
| `Pty` | `vm/ops_pty.rs` with reader thread and host program | `MCHost` |
| `Ring` | the ring all three logs are (operators) | `Trace` |
| `TraceHistory` | what the logs promise: the last entries of complete recordings | `Trace` (refinement) |
| `Trace` | trace, checkpoints, pixel log, snapshots | `MCTrace` |
| `Descriptors` | `vfs.rs` tables, `vm/ops_syscall.rs` pipes, over a reduced process table | `DescriptorsProofs`, `MCDescriptors` |
| `Mmu` | RISC-V translation, TLB, repair of tables | `MmuProofs`, `MCRiscv` |
| `Hart` | RISC-V traps, firmware loop, timer | `MCRiscv` |
| `Apps` | windows and launched applications | `MCHost` |
| `SaveFile` | `save.rs` and its callers | `MCHost` |
| `Live` | `riscv/live.rs` and the main loop's use of it | `MCHost` |
| `PipeProofs`, `KernelProofs`, `PagingProofs`, `FormulasProofs`, `DescriptorsProofs`, `MmuProofs`, `TraceProofs`, `HostProofs` | theorems and proofs; the first, and the last three, are about `MCPipe`, `MCRiscv`, `MCTrace` and `MCHost`, and so about every module put together there | |
| `MC...` | values, symmetries and views for TLC; `MCPipe`, `MCTrace`, `MCRiscv` and `MCHost` put parts side by side | |

Definitions with the comment "Mutant:" are wrong versions of a definition that
follows them. No specification uses them. They record which mistake each
property was seen to catch.

### Pipe
`write_word` and `read_word` with the array, both cursors and the count as in
the code; `accepted` and `got` are the two return values. The array keeps old
words, as in the code, so that reading one of them would be visible.

### Kernel
`processes` is the field of `Vm` and `procs` the vector `step_all_processes`
works on; a child's opcode gets the (nearly empty) field, as in the code. One
action is one step of the host loop: `RunMain` (one instruction of the main
program), `StepAllBegin` (tick, new round, sort by priority), `RunChild` and
`SkipChild` (one turn of the loop over the children), `StepAllEnd` (the table
goes back), `HostPoll` (the look at `shutdown_requested`). An opcode is an
operator from the context that executes it to a record of its effects, and
`SaveBack` is what the scheduler stores into a process afterwards. Registers,
RAM and program counters are left out: which opcode comes next is any of
`MainOps` or `ChildOps`. `sched_tick` and `sleep_until` are kept relative to
each other, which makes the state finite. `id` is a ghost that tells processes
with the same pid apart; `event` records who executed what, for properties.
A Term or Stop signal with a handler, and messages' contents, only change data,
so those opcodes are reduced to what they do to the table.

### Paging
Slots stand for processes. The two mappings of SPAWN (`SpawnIdentity` for
starts in pages 0-2, `SpawnSequential` for others), EXEC, reaping with its
twins (WAITPID removes every entry with the pid and frees one directory), KILL,
SHUTDOWN, copy-on-write stores, and stores that bypass it (PUSH, STRO, the main
program). `free_page_dir` is stated for the whole directory: a page mapped n
times loses n references. `wrote` records the pages the last instruction wrote
and for whom. Demand faults do not appear because the default memory areas
cover only the four pages a directory already maps.

### Formulas
`formula_register` with its three outcomes (refused by the limits, refused by
the cycle check *after* the old formula was removed, done), `formula_remove`,
`formula_clear_all`, stores with `formula_recalc`, and the host's copy of its
canvas into the VM's without recalculation. The code's walk over the dependency
graph is stated as reachability: `Reaches(fs, S, t)` holds when `t` lies in
every set that contains `S` and is closed under the formulas. `crashed` is the
index past a dependency list in `formula_eval`, which ends the program. A cell
holds words of `Width` bits, whose limit is the last of the list of powers
`TwoTo`.

### Keyboard
The ring as in the code, one slot always free, beside the port. `push_key`
writes both or neither; IKEY takes from the ring, or from the port when the
ring is empty, and always clears the port. `TakePort` stands for all that read
the port past the ring (READLN, reads of the keyboard device, and the reset).
`Held`, the keys between the cursors, refines `PipeQueue` with a room of the
size less one.

### InodeFs
A tree of inodes with `.` and `..` entries everywhere but in the root, numbers
given out once, and paths reduced to a directory and one component, which may
be `.`, `..` or empty (the end of a path in a slash). File bytes are sizes.
`core_dump` is the walk of `write_core_dump`: make the directories, then the
file, and stop where a name is taken by something else. No opcode uses the
descriptors of this file system, so they are left out.

### Pty
Bytes are numbered, so order is visible. A write and a read of an opcode are
one step per byte, as both meet the reader thread there: `Take` fills the
thread's buffer from the terminal, `Send` passes one byte on, `EndOfOutput`
sets the flag, and `ReadEnd` looks at it after the last receive. The child
consumes and emits at will, through a terminal that holds a bounded number of
bytes each way. An open that fails changes nothing, PTYSIZE passes a size on.
The flag is stored and read with relaxed ordering; the model has it ordered
after the sends of the same thread, as the channel's own synchronisation and
the processors this runs on give it.

### Trace, Ring, TraceHistory
`Fetch` is the head of every instruction: the entry goes into the trace, then
the counter moves. PSET and FRAME log after it, with the counter less one and
with the counter. The newest checkpoint with the pixels after it laid over it
is the screen, unless something drew without logging. `era` numbers the clears
of the trace, after which steps count from 0 again while checkpoints and pixels
keep theirs; it is a ghost, and the properties that compare steps use it.
`TraceHistory` has no rings: lists that forget their oldest entry, appended to
once per event, and `REPLAY` counting from their end.

### Descriptors
The process table is reduced to what descriptor operations see of it: who runs,
which entries a pass has hidden, which pids are alive. `opened` holds for every
open file (a file cell shared by `try_clone`) the processes that may use it:
who opened it and whom an EXECP handed it on to. `outdated` are the pids whose
table a reset left behind. A pipe keeps what was accepted (`sent`) and what was
handed out (`got`) next to its queue; the ring under it is `Pipe`.

### Mmu
Virtual pages are pairs of indices, page-table words are members of a small
set, a page is a table when something points at it. `Translate` is lookup, else
walk and insert; `Walk` has the superpage, linear and identity cases in the
order of the code. `StorePte` is a store as the bus sees it: it repairs the
word and notes a table that comes into sight. `stale` is a ghost: which pages
may have an entry older than their tables, and whether a fence of one address
space has reached it. Accessed and dirty bits are not written by this code.
Physical page numbers are assumed below twice `PAGE_OFFSET` (`WordsAre32Bit`).

### Hart
One action is one turn of the firmware loop (`boot.rs` 1037-1545): forward or
serve a trap if the hart stands at the firmware's address, advance the clock,
synchronise `mip`, and one `step`, which takes an interrupt or executes one
instruction of the guest. Which instruction it is, is open: any fault, ECALL,
CSR write, SRET or store to the CLINT. The guest never writes machine-level
registers and executes no MRET, as Linux does not. `frame`, `away` and
`unmasked` are ghosts: the context the kernel's handler will return to, the
one the firmware was entered from, and how often an interrupt came in with
interrupts off.

### Apps, SaveFile, Live
`Apps` has the process table as pids with a halted flag, the windows as a list
with numbers, owners and heights, and the RAM of the code regions in blocks of
4096 words, two to a region. A block holds zeroes, words of some application
(with its launch and its slot), or words that came from elsewhere. A launch
zeroes its region and copies its program, however long, past the end of the
region too (`Loaded`); a file or main program may be loaded over any beginning
of the regions (`LoadProgram`); a reset clears all of RAM and a load of a saved
state puts there what was saved (`Reset`, `Load`), while the host's list of
applications stays. `Cleanup` removes the halted from `active_apps` by their
positions from behind, as the code does (`RemovedFrom`), keeps the windows of
the rest (`Retained`), and clears both regions of the slots. Words that running
programs store are left out. `SaveFile`
is the file as the words written so far; `Killed` may fall between any two.
`Live` has a channel for controls, one for frames and one for status; the
guest's thread takes at most one control per batch, the main loop polls frames
and then status, and a drop sends Shutdown and joins.

## 3. Runs

| Run | Question | Bounds, and why they are enough |
|---|---|---|
| `pipe` | is the ring buffer a bounded FIFO queue, across wrap-around; are keys lost or swapped between ring and port? | capacity 3, two words: every pair of cursors with every count; a key ring of 3 with keys 0 to 2, 0 being no key |
| `kernel_sched` | does anyone starve; do sleepers wake with an old slice; can pids collide without reaping? | 2 live children, 3 table entries, slice of one instruction, sleeps up to 2 ticks, priorities 0 and 1: each skip reason, refill, tie and preference occurs, and a child born while others sleep |
| `kernel_ops` | is halting final; does SHUTDOWN from anyone stop the host; who leaves the table with whom? | 2 children, queue of one message, windowed applications present: reap, reuse of a pid, messages to the halted, nested calls, shutdown by a child in the middle of a pass |
| `paging_cow` | are reference counts sound with both ways of sharing, copies, kills, reaps, shutdown? Do stores of children spare the main program's pages while there is memory? | 8 pages, 2 processes, processes over pages 0-2 while their counts are at most 3 (`MaxLowRef`), over later pages at most 1 (`MaxRef`; both hold back SPAWN only), an EXEC between, stores to virtual pages 0 and 2: pages shared by main and two children, two sharers of a page with a copy each, copies onto page 2, and all memory in use with a page of the main program still marked |
| `paging_exec` | do programs loaded with EXEC stay apart; is a page freed only when nobody maps it? | 13 pages, 3 processes, images of one page and of four, stores of the main program, a shutdown: all memory used, freed in any order and used again |
| `formulas` | does the index follow every removal; is the sheet acyclic; does the vector behave as a sheet? | 4 cells, 3 formulas, lists of up to 2 cells: cycles through three formulas, removal from the middle, full table, lists too short, too long and out of range |
| `terminals` | in what order do bytes and the end arrive; does a write ever hang; does the end become known? What does a load find after a save cut short? | one slot used twice, 2 and 4 bytes, reader buffer 2, transfers of 2, a terminal of 1 byte in and 2 out: a full terminal each way, a second session in the slot while the first's thread lives. Save files of 8 words (4 of the VM, the length of the canvas, 3 of the canvas), 3 states each: cuts in the VM's part, in the canvas's and between them, and saves over older ones |
| `trace` | do trace, checkpoints and pixels agree on the steps; does the past rebuild the screen; are the rings the last entries? Is the inode tree a tree, with one name per node; does the working directory exist; are numbers ever given twice? | rings of 2, 2 pixels, 2 colours, 3 steps, one clear, one snapshot: each ring wraps, at different times. 3 names (those of the dump's directories), 4 numbers, files of at most 2 words: nesting of three levels, removal in the middle, dumps over existing names, writes past the limit |
| `riscv` | is the TLB right after the fences; are tables known; do traps return and the timer arrive? | 2x2 pages, 3 tables, 2 address spaces, 2 table stores, four accesses (fetch, load and store, in every mode, SUM and MXR each on once); two guest instructions, one tick of timer, a store fault and a fetch fault: each fence kind, superpages, links made before and after satp; traps in traps, forwarded and not |
| `descriptors` | are open files private; do tables die with their processes; do pipe words come in order? | main and 2 child entries with reused pids, 1 descriptor beside the standard ones, 1 open file, 1 pipe of two words, transfers of one and two words, 3 words sent: two words in the pipe at once, a write taken in part or refused, a read given in part |
| `windows` | do windows, slots, code regions and applications agree; does the clean-up take those with a halted number and no others? | 1 window for programs, 2 slots, programs of one block and of four, 2 processes, 2 windows, 3 numbers, 2 heights, 3 launches: several applications halt in one frame, a slot, a pid and a height come back, a program's window meets the host's number, a program of slot 0 covers slot 1 before or after another runs there |
| `guest` | is what the main loop knows of a guest ever out of date, out of order or of another guest; does each end? | 2 guests, 2 calls, 1 drawing, batches of one step, 1 frame waiting: a call before, during and after each step of the thread, a guest that halts by itself while it is killed, a second one with the answers of the first outstanding |

`pipe`, `trace`, `riscv` and `terminals` check parts that share no state side
by side. In each behaviour of the last three one part moves, so that what is
explored is the sum of the parts and not their product; `windows` and `guest`
are the other two parts of the same module, `MCHost`, with runs of their own. In
`pipe` both parts move; both are small.

The processes of `Paging`, the ghost identities of `Descriptors` and the pixels
of `Trace` are interchangeable (symmetry); none of these runs checks liveness.
Views leave out what no later step and no property of the run can tell: in the
runs of `Paging` the record `wrote`, which is read only in the step that sets
it; in `descriptors` what went through a pipe before the words in its queue, as long as
it came in order, and which words are there but for which of them are equal; in `windows` what a block holds that holds no application's words.

Deadlock is checked but in `descriptors` (a SHUTDOWN stops everything),
`terminals` (all bytes are written and read), `guest` (the calls are used up
and no guest is left) and `riscv` (the stores are used up, or the guest has shut
down).

### Conjunctions
The invariants of a component that concern one another are checked as one,
whose parts are named and can be read on their own:

| Invariant | Parts, besides the types |
|---|---|
| `Pipe!Inv` | `CursorsAgree`, `UnreadSlotsWritten` |
| `Keyboard!KeysSound` | `PortIsNewest` |
| `Kernel!TableSound` | `SleepersHoldNoSlice`, `PidsUnique` |
| `Paging!Inv` | `CowCounted` |
| `Formulas!VectorSound` | `DepIndexExact`, `OneFormulaPerCell` (types apart) |
| `InodeFs!TreeSound` | `InTree`, `OneName`, `CwdExists` |
| `MCHost!HostSound`, `Pty!NobodyWaits` | `Pty!StreamsSound` (`BytesInOrder`) and the types of `SaveFile`; `WriteReturns` and `EndBecomesKnown` |
| `Trace!StepsSound` | `StepsFollow`, `PixelStepsMatch`, `FrameStepsMatch` |
| `Mmu!Inv` | `OneSpace`, `TablesInUseKnown` |
| `Hart!HartSound` | `OnlyFirmwareInMachineMode`, `FrameKept`, `UnmaskedAtMostOnce` |
| `Descriptors!TablesSound` | `TablesHaveHolder` |
| `Apps!AppsSound` | `WindowsHaveApp`, `OwnCode`, `SlotsApart`, `ActiveBounded`, `IdsOfPrograms`, `HeightsDiffer` |
| `Live!GuestSound`, `GuestsEnd` | `AnswersAreRecent`, `InputInOrder`, `PausedAsTold`, `KilledGuestsGone`; `ShutdownReturns` and `HaltNoticed` |

Each part has a wrong version of its own ("Mutant:" in the modules) that breaks
that part when it is checked alone.

### Fairness
`Kernel`: `FairSpec` assumes weak fairness of `Next`: the host loop is one
thread that waits for nobody. It assumes strong fairness of `HostPoll`: the
inner loop of a frame ends after at most a million instructions, a FRAME or a
halt, and the loop then looks at `shutdown_requested`; the model lets this
happen between any two passes, so the action is enabled again and again but not
always. No fairness is assumed for children: that each of them runs is what
`EveryoneRuns` shows.

`Pty`: the threads of the host go on, that is, the opcode in progress and each
reader thread are weakly fair, and so is the program's polling for the end; the
child is fair only in reading what it was sent and in ending once it is hung
up. What it writes, and when it ends otherwise, is its own affair.

`Hart`: the loop goes on (weak fairness of a turn). The guest is not assumed to
do anything; `TimerArrives` holds of whatever it executes, as long as it keeps
its interrupts on until the turn in which the timer comes.

`Live`: each of the two threads goes on (weak fairness of the main loop's steps
and of the guest thread's). The user need not type, stop or launch anything.

### Limits of the properties
`PidsUnique` holds in a run without reaping and without children that spawn;
`LiveLeaveWithNamesake`, in `kernel_ops`, says what happens otherwise: a live
process leaves the table only together with a reaped one of its pid. `PrivatePagesDisjoint` holds
for processes loaded with EXEC; SPAWN shares pages on purpose, and
`ExecDisjoint` states that condition as a hypothesis. It is about who owns a
page, not about who writes to it: that a process writes to its own pages only
is not true of this code, and not stated. `StoresSpareMain` says what is left
of it for STORE and the main program's pages: a write reaches them only when
memory is full. An image too long for its pages, the opcodes that bypass the
copy, and the main program's own stores go elsewhere (section 5).
`OwnCode` lets a too long program of a lower slot, launched later, stand in an
application's region, as it does in the code, and says nothing of words that
were not put there by a launch: after a load of a saved state the region holds
what was saved. `HaltedAppsGone` says exactly which applications go; with a
halted one a live namesake is among them (section 5).
`FreedPagesUnmapped` is checked for processes loaded with EXEC; with SPAWN page
2 breaks it (section 5). `SecondEndIsTheEnd` speaks of the second of two
reports of the end in a row, because the first may come before the last bytes.
`HitsAreFresh` speaks of pages whose changed tables were fenced, and TLC
checks it with two stores to tables.
`FrameKept` leaves out the cause of a store access fault, `FilesPrivate` the
processes that share a pid, `PipesInOrder` a pipe from which a word was read to
an address past the end of RAM, and `PausedAsTold` the time after a reset; each
is described in section 5.

## 4. Proofs

The proofs hold for every value of the constants that satisfies the named
assumptions of the modules: `PipeAssumption` and `RingsAssumption` (positive
sizes), `KernelAssumption` (positive limits), `PagingAssumption` (at least eight
pages, finitely many processes), `FormulasAssumption`, `DescriptorsAssumption`,
`MmuAssumption` and `WordsAre32Bit` (page numbers below twice the kernel's
offset), `HartAssumption`, `TraceAssumption`, `InodeFsAssumption` (`.`, `..` and
the empty name are no names of files, the dump's file has a name),
`PtyAssumption`, `SaveFileAssumption`, `LiveAssumption` and `AppsAssumption`.
TLC evaluates each of them on the instances of section 3. The constants that
bound a run (`MaxSteps`, `MaxCalls` and the like) are arbitrary in the proofs.

Some theorems have a hypothesis besides. `TableCorrect` (pids are unique)
assumes that nobody executes WAITPID and no child SPAWN, without which section 5
tells what happens; `kernel_sched` is such an instance. `ExecDisjoint` and
`ExecFreesItsOwn` assume that no process is spawned over existing pages;
`paging_exec` is such an instance.

* `PipeProofs`: `Correct` (the types, `CursorsAgree`, `UnreadSlotsWritten`, which
  are inductive together), and the refinement of `PipeQueue`.
  The argument is that reading advances the read cursor as it lowers the count
  and writing leaves both ends of what is unread in place, so that `Contents`
  loses its head or gains a last element. The lemmas on modulo carry it; the
  inductive invariant adds to the types that unread slots hold words. The ring
  of keys has no count: `KeysAreQueued` first removes the modulus from the
  distance of its cursors (`KeySlots`, `Distance`) and then goes the same way.
  `KeysAreSound` is inductive as it stands, for a push writes ring and port in
  one step and IKEY clears the port with what it takes.
* `KernelProofs`: the scheduler moves processes between the table and its
  vector, and an opcode between them sees one of the two. The invariant is that
  entries of both have their types and ids, which are unique over both
  together, and that who sleeps holds no slice. What an opcode may make of the
  table it sees is stated once (`Follows`: each entry is new or carries on an
  old one, and a halted one stays halted; one that is gone went with a zombie of
  its pid), so that an opcode needs one lemma and the scheduler's steps
  one for all opcodes. `TableCorrect` adds
  that the process at place i has pid i (`NumberInv`); whichever of table and
  vector is empty at the time is where this could be lost. `HaltedStay` and
  `LiveLeaveOnlySo` follow processes by id through every kind of step
  (`StepKind`).
* `PagingProofs`: the two parts of `Correct`, types and `CowCounted`, need each other: the
  unchecked decrement keeps the count a natural number because a copy-on-write
  page has a reference, and this in turn survives because every action that
  lowers a count to at most one also clears the mark. `KernelPages` needs more:
  directories map pages 0 and 1 only one to one, and until SHUTDOWN the count
  of each exceeds the number of directories that map it (`Covered`), so no
  order of frees takes the last reference. `ExecDisjoint` needs that pages held
  privately are allocated, page 3 excepted (`ExecInv`); `ExecFreesItsOwn`
  follows. `MainIsSpared` needs that until SHUTDOWN pages 0 and 1 stay marked
  for copying as long as a directory maps them (`MarkInv`): a copy must not take
  the mark from those who still share the page, and by `Covered` it never finds
  itself the last.
* `FormulasProofs`: the invariant `IInv` says that vector and index have their
  types, that no cell has two formulas, and that the index is exact; `Sound` is what a
  reader needs of it. Removal is
  described by which formulas stay (`RemovedShape`) and how positions move
  (`RemovedIndexShape`). `NeverCyclic` uses closed sets: of the set that shows
  an old formula does not reach its cell and the one for the new formula, the
  old one, their intersection or their union shows it again after the new
  formula is appended. `Refinement` maps the vector to the formula of each cell
  and shows that every step is a step of the sheet. `TypesCorrect` is about the
  values: each of the fourteen operations gives a word, the bitwise ones because
  for any given bits there is a word that has them. Both that and the list of
  powers of two are shown by the least width at which they would fail.
* `DescriptorsProofs`: two processes may have one pid, so what is true of a
  table is said of the processes that never shared theirs (`exclusive`).
  `TableInv` says that such a process has its pid for itself and that no reset
  left a table behind for it; `FilesSound` that what its table refers to was
  opened by it or handed to it. A pass may hide entries of the table, which is
  why the invariant ranges over `Entries`, the table and the pass together. The
  opcodes that leave every table alone are shown to be so once (`Quiet`).
  `PipesAreInOrder` needs that no queue is longer than the buffer.
* `MmuProofs`: `KnownTables` needs to know that a repaired word points below
  the limit of tables, so that a root's second-level tables stay known when
  another word changes; noting precedes the store in one action. `OneSpaceAtATime`
  uses that every change of satp empties the buffer and that a walk under the
  present satp inserts under its own tag, or tag 0 if global. `TypeCorrect`
  needs both to know what a walk returns. `Correct` puts the three together.
  `HitsFresh` strengthens the property to the entries a lookup does not reach at
  present (`FreshInv`): global ones are under tag 0 only, and are fresh unless a
  global page changed since the last fence of all address spaces.
  For the hart, `HartInv` adds to `HartSound` what a stay in machine mode looks
  at: the firmware's registers are those of the context it was entered from
  (`AwayKept`), and once an interrupt was forwarded to a kernel that had them
  off, the machine's interrupts are off for good (`OffForGood`), which is why
  it happens once at most. `FirmwareGoesBack` follows from `AwayKept`.
* `TraceProofs`: all of the log's properties rest on what `push` does to the
  entries of a ring (`RingPush`: appended, less the oldest when full). Step
  numbers need that nothing logged in the present era is numbered later than
  the counter (`PixelsPast`, `FramesPast`), whose corrections differ between
  PSET and FRAME. `ScreenIsRebuilt` needs that writes are logged in the order
  of the instructions, that a steady screen was checkpointed in this era, and
  that as long as nothing later than the checkpoint was dropped the screen is
  the checkpoint with the writes laid over it (`RebuildInv`). `Refinement` maps
  each ring to its entries.
  The inode tree is sound because every node but the root is listed once, by
  the directory it names as its parent (`ListedOnce`, `AllListed`), and `.` and
  `..` of directories are right (`DotsRight`), which the paths that end in them
  need. A crash dump is at most three creations, taken one by one.
* `HostProofs`: of a terminal, what was read, what is in the channel, in the
  reader's buffer and in the terminal are together what the child made
  (`InOrder`), and a set flag means that the last two are empty
  (`SessionSound`). `SecondReportIsTheEnd` also needs that a read which found
  nothing after a report of the end had drained the channel (`OpcodeSound`).
  Of a save, the file is its beginning and what is still to be written is the
  rest (`SaveInv`); a file that can be loaded is as long as a whole one.
  Of a guest, `LiveInv` bounds the controls on their way by the calls that were
  made, says that the bytes received and those on their way are the last ones
  typed, in order (`WaitInOrder`), that the commands on their way lead the
  guest from the state it is in to the one that was asked for (`LeadsTo`), and
  that frames on their way are of the present guest, which was not killed
  unless its handle is being dropped (`KilledKept`).
  Of the windows, `AppsInv` pairs each window of the host with an application
  of its own (`Opened`), which is what bounds them; numbers of the programs'
  windows are apart and behind the counter, heights are apart but at 0, and no
  two applications share a slot. Of the regions it says what an application may
  find in its own (`MayHold`): a program that runs past its region only reaches
  higher slots (`Regions`), and does so with a later launch. The clean-up is the
  hard step:
  `RemovedIsNotRetained` and `RemainingIs` show that removing positions from
  behind leaves the applications whose pid no halted process has, in their
  order, and `KeptTogether` that windows and applications that are kept still
  pair off.

Only checked by TLC: `EveryoneRuns`, `ShutdownStops`, `NobodyWaits`, `GuestsEnd`
and `TimerArrives`. They are liveness properties, which need the rules for
fairness and `ENABLED` that the proof system does not support. No invariant and no
action property is left to TLC alone.

## 5. Found while modelling

These differences between the code and what the repository says of it, and
other surprises, follow from one or two definitions. The models have them as the
code does; no run is spent on showing them.

Processes
* "Zombie -> gone (parent calls WAITPID, reaps exit code)" (`vm/types.rs` 312):
  WAITPID drops every entry with the pid, and pids repeat after a reap, so live
  processes leave too; only one of the directories is freed
  (`ops_extended.rs` 413).
* "If no message: process blocks (scheduler will retry)" (`ops_syscall.rs`
  440): a child does not find itself in the table, does not block and goes on
  without a message. READ of an empty pipe is the same (`ops_syscall.rs` 151),
  and may block a namesake (455). If that is a zombie it is a zombie no longer,
  the one exception `HaltedIsFinal` makes.
* Each process has its own kernel stack (`types.rs` 514-516), but the stack is
  cleared before every instruction of a child: RETK always halts it.
* `types.rs` 69 and `docs/ARCHITECTURE.md` 196 limit live processes to
  `MAX_PROCESSES`. A child's SPAWN counts an empty table (`ops_graphics.rs` 446).
* SIGSET of a child registers nothing, for the same reason (`ops_extended.rs` 727).
* PROCINFO indexes the table by pid (`vm/mod.rs` 3287).

Memory
* "A write to a COW page triggers a copy" (`vm/mod.rs` 34): PUSH and STRO write
  to the shared page, and so do the main program's stores (`memory.rs` 118,
  `ops_memory.rs` 161).
* A page is freed when its count drops to 0 (`memory.rs` 24): page 2 is
  allocated while in use, its count set to 1, and freed under a live child. A
  copy may land on it (`memory.rs` 127).
* The first EXEC gets page 3 as a private page (`memory.rs` 80), which later
  directories share.
* EXEC copies an image longer than its pages on into the next pages
  (`ops_extended.rs` 234).

Formulas
* "All downstream cells recompute automatically" (`README.md` 292): one level
  does. With 1 = COPY 0 and 2 = COPY 1 a store to 0 leaves 2 old.
* FORMULA accepts fewer dependencies than the operation reads; the next store
  to one of them ends the program (`formula.rs` 103). A refused cyclic formula
  removes the old one. A new formula has no value until a dependency is stored.
* FORMULAREM is listed with a register operand and takes an immediate
  (`ops_extended.rs` 912).

Files and descriptors
* `reset`, "Reset the VM to initial state" (`vm/mod.rs` 404), leaves the
  descriptor tables: a later process with the pid finds the files open. It also
  clears the key port but not the key ring.
* SHUTDOWN "closes all file descriptors" (`ops_extended.rs` 613) but those of
  zombies, and, executed by a child, those of the other children.
* EXECP's "fd redirection for pipes" looks pipe numbers up in the file table
  and never redirects one. The "independent handle" of `dup_fd` shares its
  position (`vfs.rs` 615-651).
* CLOSE of either end kills a pipe with the words in it (`ops_syscall.rs` 318).
  A word read to an address past the end of RAM is gone (164).
* Opening for writing truncates before the descriptor table is found full
  (`vfs.rs` 386). FCOPY of a file onto itself empties it.
* `unlink` of a path that ends in `.` or `/` removes the node and leaves the
  entry in its parent (`inode_fs.rs` 263-311). A crash dump whose file exists,
  from an earlier process with the pid, is dropped (`vm/mod.rs` 4617).

Terminals and keyboard
* The end of a terminal may be reported before its last bytes, and is not final
  (`ops_pty.rs` 307). PTYCLOSE drops the slot; its comment says it kills the
  child and joins the reader (314).
* "Supports up to 16 queued keys" (`vm/mod.rs` 105): the ring holds 15. A key
  read from the port comes again from IKEY; IKEY's fallback to the port never
  has a key to give.

Trace and snapshots
* SNAP_TRACE mode 2 restarts the step numbers while checkpoints and pixels keep
  theirs (`ops_extended.rs` 1018). `replay_from` with a step older than every
  entry starts at the newest (`trace.rs` 171-174 says otherwise). The index of
  TRACE_READ moves while recording is on. A checkpoint has no windows in it.
* FORK is listed in `README.md` as the creation of a child and described in
  `ops_extended.rs` 1052 as saving the full VM state; it saves registers, RAM,
  screen, mode and pid, which another process may restore (`vm/mod.rs` 514),
  and no processes, pages, pipes or canvas.

Windows and applications
* The host numbers its windows by the length of the list (`main.rs` 2712, 4478)
  and WINSYS by a counter: numbers meet, and DESTROY and FOCUS take the first.
  `MAX_WINDOWS` (`vm/mod.rs` 164) bounds programs only. Windows of the host are
  at height 0, where HITTEST (1539) never finds them. Windows of other
  processes are never removed, and anyone destroys any.
* The clean-up finds processes by pid (`main.rs` 1760): it may take a namesake,
  and an application launched under the pid of an old zombie goes within a
  turn. One that was reaped in the frame it halted, or lost its process to a
  reset or a load, keeps its slot for ever.
* The data regions lie in other slots' code: that of slot 0 in slot 2, those
  of 1 and 2 in slot 3; the region cleared at the end of one application is
  another's program (`main.rs` 1782). Titles and camera lie in slot 1's code.
  Launch does not compare the length of a program with its region: what is too
  long is copied over the next slots, whatever runs there (`main.rs` 2653, 4449).
* A load of a saved state puts back the RAM of that time (`save.rs` 107), and
  loadbin, F8, ASMSELF and a launch without a window load over RAM from its
  beginning or the canvas's place on (`main.rs` 2401, 3817): an application still
  tracked has its slot, whoever's code is in it.
* A window made smaller after its viewport was moved makes `ww - vp_x` wrap
  (`vm/mod.rs` 3387), HITTEST of a small one `w.x + w.w - 2 - 8`.

Save files
* A save empties the file first (`io.rs` 245), so that a stop loses the save
  before as well. A file cut 4 to 11 bytes after the first version's length
  passes the check (`save.rs` 74) and is indexed past its end at every start.
* `load_from_file` accepts files of the first version, `load_state` does not.
  Processes, pages, windows and files are empty after a load.

RISC-V
* A store access fault has number 7, as the machine timer interrupt; the loop
  compares without the interrupt bit and forwards it as a timer (`boot.rs`
  1226). Interrupts 9 and 11 are taken for ECALLs likewise.
* "Retry the faulting instruction" (`boot.rs` 1168) skips it. Only fetch faults
  reach the code that maps on demand; load and store faults are delegated.
* The first machine timer interrupt is forwarded even while the kernel has its
  interrupts off, over the trap registers of a running handler; MIE then stays
  off. An interrupt while stvec is 0 skips an instruction.
* The loop ticks the timer 100 times a turn and `step` once more. mtimecmp is
  stored in two halves, with a turn between them. The PLIC is never signalled,
  and the addresses of its claim register lie outside the range it answers.
* A write of satp = 0 with repair on makes page 0 a known table (`bus.rs` 628).
  Known tables never become unknown. The identity fallback stays in the TLB
  over a later mapping until a fence (`mmu.rs` 316); a fetch in user mode that
  succeeds by it faults when it hits it. SFENCE's address space is not masked.
* `sync_mip`'s comment (`bus.rs` 465-477) and `pending_interrupt` disagree on
  who gates a supervisor interrupt; privilege of CSRs and xRET is not checked.
* An atomic operation writes its register before its store is translated
  (`cpu/atomic.rs` 98, 226): retried after a page fault it uses the new value.
  A reservation survives traps and the hart's own stores.
* The last frame of a guest that halts between the two polls of the main loop is
  lost (`main.rs` 4068-4086). A snapshot's drain discards frames not yet shown;
  an answer that came too late is shown as if presented; and on a timeout it
  returns the last frame, where its comment says None (`live.rs` 110, 131).
  `is_paused` stays true after a reset, which does not pause (160, 329).
  `last_frame` is "updated by render loop" (93) by nobody. A halted guest's
  picture stays, with no command to clear it (`main.rs` 3130, 3168).

## 6. Plan

Modelled, in the order of how much of the system rests on them: `Pipe`, `Kernel`,
`Paging`, `Formulas`, then `Descriptors`, `Pty`, `Apps`, `Trace`, `Keyboard`,
`InodeFs`, `Mmu`, `Hart`, `SaveFile` and `Live`. Proved of each: its types, its
safety invariants, its action properties, and that `Pipe`, `Keyboard`, `Formulas`
and `Trace` implement their abstract specifications.

Next:

1. Abstract specifications of what is now stated by invariants: a terminal's
   session as two queues with an end, descriptor tables as sets of rights, the
   TLB as a set of answers a fence makes fresh; and the refinements.
2. The safety half of the liveness properties: that a process which waits
   for a slice is passed over at most once per round (of `EveryoneRuns`), that
   after SHUTDOWN nothing starts a program (of `ShutdownStops`), that a thread
   of a dropped guest has its Shutdown before it (of `GuestsEnd`, now a part of
   `ControlsCounted`).
3. `PidsUnique` beyond `TableCorrect`: which of the namesakes an opcode that
   takes a pid reaches.

To be modelled if the code grows to need it: a runner for background VMs, an
interrupt source for the PLIC, the queue of the virtio disk, a second hart.

## 7. Not modelled

Components without a module are listed in `PROJECT.json` with the reason. The
assembler, drawing, fonts, the instruction sets, the decoder tables, and the
network, audio and host-file opcodes are sequential functions, or wrappers that
make one call to a service of the host. Background VMs are entries of a table
that no code runs; mailboxes are two buffers that FRAME swaps. Of the RISC-V
devices the PLIC is never signalled and the virtio queue never processed. The
RISC-V loaders patch guest images. The MCP server, the command line and the
language-model tools issue one request at a time over operations that are
modelled. Programs, fuzzers and the pixelflow experiments are not part of the
system's own logic.

Within the modelled components left out are contents of pages, messages,
registers and files, positions of windows, and the numeric limits of counters
(`u32` ticks and pids) that the bounds keep far away.
