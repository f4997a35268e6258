# TLA+ models of HarOS

HarOS is a small 32-bit x86 kernel in C++: one processor, preemptive kernel tasks, a mutex, a
heap, a buddy allocator for page frames, page tables, a keyboard driver, a text terminal and
console, and a polled disk with a read-only ext2.  This directory models its stateful parts in
TLA+, checks them with TLC on small instances and proves with TLAPS, for every value of the
constants, the safety of lists, scheduler, mutex, boot and interrupts, keyboard, terminal, console,
heap, buddy allocator, page tables and disk.

`tlc -config X.cfg M` checks a configuration; `tlapm M_proofs.tla` checks the proofs.

## The system

| part | state | operations | works with |
|---|---|---|---|
| Scheduler (`kernel/tasking`) | `rq`, `expired_q`, `cur_`, each task's `time_slices` and `need_reschedule` | `init`, `tick`, `schedule`, `activate_task`, `deactivate_task` | timer interrupt, wait queues, fork |
| WaitQueue, Mutex (`kernel/wait_queue`, `kernel/locks`) | `val`, `owner`, `wait_queue` | `acquire`, `release`, `add`, `wake_up_one` | blocks and wakes through the scheduler |
| Interrupts (`arch/x86`) | handler table, interrupt flag, the two 8259 | stubs, `intr_handler_cpp_linkage`: end of interrupt, handler, then `schedule()` if asked | every driver; preempts every task |
| Boot, fork (`kernel.cpp`, `kernel/fork`, `IdleProcess`) | what is initialised; pids, children | `kmain`, `ktask_create`, init task | everything below |
| Intrusive list (`libcpp/list.hpp`) | `head`, `tail`, node links | `append`, `left_append`, `pop`, `left_pop`, `remove` | scheduler, wait queue, buddy allocator |
| Keyboard (`devices/Keyboard`) | `modifiers_`, queue | `handle_irq`, `get_key`, `get_keys` | the interrupt fills, the init task drains with interrupts off |
| CircularQueue, Spinlock | ring; saved flags | `enqueue`, `dequeue`; `acquire`, `release` | Keyboard |
| TTY (`kernel/tty`) | ring of lines, window, cursor | `write`, `scroll_up`, `scroll_down`, `set_input` | video memory |
| Heap (`MemoryManager`) | list of block headers | `kmalloc*`, `kfree` | operator new |
| BuddyManager | free lists, pair bits, `frames` | `free_range`, `free_pages`, `alloc_frames` | `init_frames` at boot |
| Paging (`kernel/memory/init.cpp`, `MemoryManager`) | page directory and tables | `init_paging`, `get_physical_mem_size`, `init_kernel_paging` | the heap gives the tables, the memory map their number |
| Console (`devices/vga`, `kernel/stdio`, `libcpp/cstring`) | video memory, cursor, a mutex | `kprint`, `print_color`, `clear`, `panic_detail`, `vsnprintf` | every task; a panic ends them all |
| PCI, PATA (`devices`) | configuration space, channels, drives | `find_device`, `init`, `read_sectors` | drives that work on their own |
| Ext2 (`kernel/fs/ext2`) | super block, group descriptors | mount, `get_inode`, `traverse_dir` | reads of the disk; its caller is commented out in `IdleProcess.cpp` |

What is hard here: timer interrupts between any two instructions that run with interrupts on; a
task that leaves the processor in the middle of `acquire` and looks again later; wake-ups that
race releases; task switches inside interrupt handlers; an interrupt handler and a task that share
a queue; a driver constructed while its interrupts are on; tasks that print at once; drives that
answer late, fail or are not there; rings that wrap and windows over them; pointer surgery on
headers that move; bits that must agree with lists.  `PROJECT.json` lists each hazard at its line
with the properties that cover it, or the reason none does.

What makes each part correct: the queues partition the tasks, a ready task runs, a waiter is
woken, and the lock is exclusive; every interrupt is served, and ended where it must be; keys come
out in order, with the case they were typed in; the screen is the window over the text; a printed
number reads back; allocations do not overlap and freed memory can be used again; a read gives the
sectors asked for, and a listing every name.

## Modules

| module | models | how it corresponds |
|---|---|---|
| `Scheduler` | the scheduler's functions | one operator for each member function, from a record of the C++ fields to another; `panic` is a failed assertion or a null `cur_` |
| `Mutex` (extends `Scheduler`) | tasks, mutex, wait queue, interrupts | `acquire` up to `schedule()` and `acquire_resume` behind it are two steps, since the task switch lies between them; so are the two of a creation; `TimerIrq` and `DeviceIrq` occur only where interrupts are on |
| `Queues`, `IntrusiveList` | lists of tasks as sequences, and with their pointers | `remove` on sequences, which `Scheduler` uses; `append`, `pop`, `left_pop`, `remove` on `next`, `prev`, `list`, `head_`, `tail_`, `size_`, beside the sequence each list stands for |
| `AbstractLock`, `TaskLifecycle` | what the two promise | a lock with a holder; task states with their legal changes |
| `Interrupts` | boot, both interrupt controllers, the path of an interrupt, the keyboard's construction | one action for each call of `kmain` and each stretch of the path; a task's place on its own stack is `at`; which task `schedule()` picks is `Mutex`'s concern and any here; IRQ 14's stub pushes its neighbour's number (`pushed`) as in `irq.S` |
| `CircularQueue`, `BoundedFifo` | the ring and its promise | indices and count as in the code; a sequence that drops what does not fit |
| `Keyboard` (extends `CircularQueue`) | driver, controller and reader | one step for each byte's interrupt; `get_keys` cut wherever interrupts are on; `FakeShift` and `LoseByte` are the keyboard's |
| `TTY` | the terminal | one action for each public function; a cell remembers the position it was written for, so that old text in the ring can be told from current text |
| `Heap` | block list | headers at their addresses, in cells of four bytes; every branch of `split_block` is an operator of its own |
| `Buddy` | frames, free lists, pair bits | a chunk is its first frame; lists keep their order, since head and tail are chosen from |
| `Paging` | page tables | functions from the memory map to a directory, and the processor's `walk` over it |
| `PCI` | search of configuration space | operators over a configuration, with the code's uses of bit 7 of the header type |
| `PATAChannel` (extends `PCI`) | channels and drives | the task's steps between reads of a status register, and the drives' own; a port keeps the last two bytes written, and `Addressed` is how a drive reads them |
| `Ext2FS` (extends `PATAChannel`) | mount and traversal | one action for each stretch between two disk reads; the recursion's frames are `fs.stack`; a sector is its number, an image says what is in it |
| `CString` | `vsnprintf`, `number`, `str_to_*` | folds and functions from format and arguments to text |
| `Console` (extends `CString`) | video memory, cursor, lock | one action for each access of what tasks share: `++` on the volatile cursor is a read and a write, the cursor's ports are four; a panic takes a new lock and runs `clear` and two prints through the same actions, alone |
| `MC*` | | the instances for TLC |
| `Tasking_proofs` (lists, scheduler, mutex), `Interrupts_proofs`, `Keyboard_proofs`, `TTY_proofs`, `Console_proofs`, `Heap_proofs`, `Memory_proofs` (frames, page tables), `Disk_proofs` (bus, channels) | | the theorems |

Registers, stacks and port numbers are abstracted away.  Interrupt and task code is atomic wherever
the code runs with interrupts off, and only there.  `ktask_create` runs with them on, up to and
through the `append` to the run queue.  In `Mutex` it is two steps, `ktask_create` and
`activate_made`, with the append between them open to every interrupt; the tick that would end the
creator's slice there stops the model (`torn`, see below).  In `Interrupts` it is one step, since
the lists are not in that module.  Heap and Buddy are sequential: at this commit one task allocates,
and the frames are released at boot.

Operators headed "Mutant" are plausible mistakes that no specification uses.  Each replaces
one definition to show that a property notices.

## Runs

| run | question | bounds |
|---|---|---|
| `mutex` | Do queues, lock and wake-ups stay right under preemption, and is nobody forgotten? Refines `AbstractLock` and `TaskLifecycle`; liveness | four tasks, slices of two ticks |
| `mutex_reentrant` (violation) | May the holder acquire again? | two tasks, nesting of two |
| `list` | Are the pointers of the lists the sequences the other modules use, whatever nodes move where? | five nodes, three lists |
| `boot` | Does boot let interrupts in in time, is every request served and ended on both controllers, and is every scan code read? | lines 0, 1, 8, 14; two requests of each of the first two, one of the others; one worker |
| `keyboard` | Are keys delivered in order, none with a shift that was not there, are interrupts restored, are queued keys used? Bytes are lost, and fake shifts come between real ones. Refines `BoundedFifo` | queue of 2, four codes sent, two shift keys, the extended control key, a letter |
| `tty` | Do screen, window, ring and cursor agree after every operation? | 2x2 screen, ring of two screens, positions up to 18 |
| `heap` | Do allocations stay apart, is the list sound, does freed memory come back? For whole units freed in any order, and for any size and alignment with nothing freed | 30 cells, 48 cells |
| `heap_reuse` (violation) | Any size and freed | 38 cells |
| `buddy` | Are chunks aligned, disjoint, merged and large enough, whatever regions are released and requested? Is all memory mapped before and after the switch of directories? | eight frames; memory maps of three regions up to 14 bytes, pages of 2, tables of 2 entries, 12 tables |
| `buddy_six` (violation) | Memory that is no power of two | six frames |
| `disk` | Are the drives found, do reads return the sectors asked for, is a listing complete, does every wait end? | two buses, two slots of three functions, all kinds of drives; bytes of 8 values, 2 heads, 3 sectors per track; two reads; a dozen images |
| `kprint` | Do numbers read back, does the screen show what was printed, is the cursor on it, is a panic shown? | words of six bits, a 4x2 screen, up to three prints, two tasks |

Why the bounds are enough.  Four tasks give a holder, two waiters in a queue and a bystander, in
both run queues, and creations while others wait; two ticks of slice tell a used slice from a spent
one.  A queue of two keys fills, wraps and overflows within four events; four are a fake shift, a
real one that comes and goes in it, and a letter.  A code beyond the driver's table acts as a
modifier or as a letter, so the run leaves it to the proof.  A position of 18 laps the ring of eight
cells twice.  The heap holds five of the smallest blocks, so there are holes with neighbours
allocated and free on both sides.  Eight frames have four orders, with merges across all of them.
Memory maps of up to seven pages end within a page, within a table and behind the window. In `boot`
the lines are the timer, the keyboard, the first line of the second controller and the one whose
stub is wrong; two requests of the timer and a worker let a task switch happen inside a handler that
another interrupt follows, before and after the keyboard is there. In `disk` a byte of eight values
puts all three ways to address a sector, and both bytes of each port, on a disk of about a thousand
sectors; the images hold three levels of directories and each of the cases that the code gets wrong.
Every number of a word of six bits is printed, the smallest negative one included; two lines fill
the screen's eight cells and scroll them.

`mutex` checks for deadlock too (`Stopped` is the step of a model that `torn` has ended).  Where
deadlock checking is off, the model really ends: the keyboard's bounded events or the
bounded requests of `boot` are used up, the heap is full, the scripts of `kprint` are printed or a
panic halted the machine, the disk's reads are made, or the code followed a bad pointer
(`heap_reuse`, `buddy`, and the places called `undefined` and `fault`).

### Fairness

`Mutex`, `Keyboard`, `Interrupts`, `Ext2FS` and `Console` assume some.  In `Mutex` the timer's
interrupt is weakly fair: it is periodic and the 8259 keeps the request while interrupts are off.  A
task that resumes in `acquire` runs on with interrupts off, so it gets to the loop's test, and one
that is in `append` goes on with it.  `release` is strongly fair: critical sections are finite
straight-line code, so a task that gets the processor inside one again and again leaves it.  In
`Keyboard` a pending interrupt is served once interrupts are on, and the init task is scheduled.  In
`Interrupts` the processor goes on with the code it is in, which is weak fairness for each stretch
of an interrupt's path and of `kmain`; and it takes an interrupt that the controllers pass on when
interrupts are on again and again, which is strong fairness for each line, since interrupts may go
off in between.  No fairness there makes a task do anything.  In `Ext2FS` the task runs on, and a
drive ends what it was told to do, well or with an error.  In `Console` the task that panics runs
on: it turned interrupts off first.  Nobody has to press a key, acquire the lock or create a task.

`WaiterEventuallyWoken` says that a waiter is woken, not that it gets the lock: a woken task can
find it taken again, each time, and the code does not prevent this.

### What the violation runs show

- `mutex_reentrant`: `acquire` succeeds for the holder and keeps no depth, so the inner
  `release` frees the lock and two tasks are inside.  The callers of this commit do not nest.
- `heap_reuse`: aligning inside a hole writes a null `next` (`MemoryManager.cpp:115`) and cuts off
  the blocks behind.  Whole multiples of eight avoid it, and so do requests that are never freed
  (`heap`), unless a wide alignment of the very first leaves a large hole before it.
- `buddy_six`: pairs are numbered from `frame_count`, which gives aligned buddies only if
  that is a multiple of the largest chunk.

### Where the code falls short inside passing runs

These are in the models.  The properties claim what the code does keep, and a comment says where
that ends.

- Interrupts: a scan code that arrives before the keyboard is registered is never read, and the
  8042 sends nothing more (`early`).  A key in the few instructions between the base class's
  constructor and the members' meets a raw keyboard (`fault`).  IRQ 14 is dispatched as 13.
- Creation: `activate_task` appends to the run queue with interrupts on (`Scheduler.cpp:162-165`,
  `list.hpp:106-121`).  If the run queue holds only the creator, and its slice ends on a tick
  between the test of `tail_` and the write through it, `tick` takes the creator out, `head_` and
  `tail_` become null, and the queues are swapped; the append goes on, as if there were a tail, in
  what is now the expired queue, which ends with a `size_` of 1 and no `head_`: the new task cannot
  be reached, and at the next swap `head()` asserts.  At other instructions such a tick does other
  harm or none.  `Mutex` has the tick (`TimerIrqInAppend`), sets `torn` and goes no further, so
  `NoPanic`, `NoTaskLostOrDuplicated` and the liveness properties hold up to it; they do say that
  all other interrupts in a creation are harmless.  `ktask_create` and `utask_create` have no caller
  at this commit.
- Keyboard: it starts with its handler registered; how that comes about is in `Interrupts`.
  `modifiers_` is uninitialised, so `NoPhantomShift` judges a key once a shift's code was read.  The
  driver drops `0xe0` (`Keyboard.cpp:60-62`), so the fake shifts a keyboard sends around grey keys
  and PrintScreen count as shift keys, and a letter typed meanwhile is shifted; `NoPhantomShift`
  allows that until the keyboard takes the fake shift back, and no longer.  A lost code of a shift
  key leaves shift as it was until the next one: in between nothing is judged.
- Terminal: a string in which a backspace precedes text is stored but not printed from the right
  cell on, and two line feeds in one string leave the line between them with an earlier lap's text.
  Callers write one character at a time (`OneByOne`), and so does the run.
- Heap: a block that moves and keeps its remainder is given a size one header too large
  (`split_moved`), so that the last block can claim to reach behind the pool.  Nothing reads it
  while nothing is freed.
- Console: what runs past the bottom line within one string is lost, prints of two tasks mix, and
  `kprint` does not check its buffer (`"overflow"`).  `ScreenShowsPaper` judges undisturbed
  prints, `CursorOnScreen` all of them.  `PanicIsShown` says that a panic gets to its end through
  `clear`'s lock and its own prints, whoever held the lock, and that its message is then alone on the
  screen, but for overflow and strings that run past the bottom line.
- PCI: a controller at 0:0.0, or one with bit 7 of its header type set, is not found (`Findable`).
- Disk: `PATAChannel::init` has no live caller, as it is commented out in `IdleProcess.cpp` like the
  mount of the ext2 behind it; what is modelled is what these do when called.  A count is cut to a
  byte, so that a read of 256 sectors is one of none (`oversized`); a missing drive is a null
  pointer.
- Ext2: positive error codes go unseen; `get_inode` counts blocks from the wrong number; buffers
  hold 1024 bytes whatever the block size; only the first block of a directory is read; inode 0 is
  followed.  `Benign` names the disks without any of this.
- Paging: the size of memory is 32 bits wide, so a machine of 4 GB has none; the run's memory maps
  stay below that.
- Buddy: it starts with clear pair bits, which the code relies on without ensuring, and gives
  `frames` one entry more than the code allocates, since the end of a region is released as if it
  were its last frame.  Regions do not overlap.  `alloc_frames` loses a chunk of the very order
  that was asked for (`take_larger`), so no property claims that all frames stay free or given.

## Proofs

`Tasking_proofs` proves, for any finite or infinite set of tasks, any slice length and any nesting
bound, with only the named assumptions of `Scheduler` and `Mutex`:

- `TypeCorrectness`, `PanicFreedom`, `QueuesPartitionTasks`, `WakeupsAreNotLost`:
  `Spec => []` of `TypeOK`, `NoPanic`, `NoTaskLostOrDuplicated`, `NoLostWakeup`, the second and third
  up to the tick that tears the lists (`torn`), with every other interrupt in a creation;
- `MutexIsExclusive` and `MutexImplementsLock`, under `~Reentrant`;
- `KernelImplementsLifecycle`: every step maps to a legal change of task states or to none.

The argument.  `NoPanic` is not inductive: to see that `tick`'s assertion holds and that
`deactivate_task` finds its task, one needs where tasks are and what slices they have.  The
inductive invariant `IInv` therefore joins

- `SchedOK`: no queued task twice or in both queues, positive slices in the run queue, no panic;
- `CurOK`: the running task is the head of the run queue, or it is the dummy task, whose slices never
  count down because it asked to be rescheduled;
- `VarsOK`: types of the remaining variables;
- `Partition`: run, expired and wait queue are disjoint and make up the created tasks, one of
  them is ready, and the waiting ones are inside `acquire`;
- `OwnerReady`: the lock is free, or its owner is ready and not inside `acquire`.

`OwnerReady` is what rules out an empty pair of queues: when a task blocks, the owner is another
ready one.  `NoLostWakeup` is inductive once `IInv` is known, and so is `OwnerInside`, from which
mutual exclusion and the refinement of the lock follow: without nested calls a task is inside
exactly when it is the owner.

It also proves, for any number of nodes and lists, that the pointers of every list are its sequence
(`ListsHoldTheirQueues`), that no assertion fails (`ListsDoNotPanic`), and that what `append`
asserts of pointers is what `HasNeighbour` of `Scheduler` says of sequences (`NeighboursInLists`).
The invariant adds that no node is in a list twice and that a node in no list has no neighbours; the
three ways out of a list are one case, `Unlinked`.  What remains the callers' part, to append what
is in no list and to remove members only, is what `NoTaskLostOrDuplicated` and `NoPanic` of `Mutex`
show of the kernel.

Its first part has the lemmas about the operators: what `remove`, `Append` and the queue swap
do to the elements of a queue, and from them `ScheduleOK` and `TickOK`, which say that
`schedule()` and `tick()` keep `SchedOK`.  The other theorems follow from `IInv` with one step
per action.

`Interrupts_proofs` proves, for any lines, tasks and numbers of requests, that interrupts are on
only when no line is in service (`InterruptsEnd`) and that boot's order is right
(`BootIsOrdered`).  The first is not inductive: a task switch inside a handler suspends one stack
and resumes another.  The invariant `IInv` therefore has `InService`: only the running task can be
at the entry of a stub, what is in service there is what its number will end, and nothing is in
service anywhere else; so whatever `schedule()` or `acquire` resumes owes no end.
`EndedIsEmpty` shows that for each line the number its stub pushes ends the controllers that
wait, IRQ 14's wrong one included.  `BootAlone` says that boot runs undisturbed up to its last step.

`Keyboard_proofs` proves, for any capacity, keys and number of events, that keys are used in the
order they were typed whatever is lost (`KeyOrder`), that no shift is seen but one that was down or
a fake one in force, as far as no shift's code was lost (`ShiftIsTrue`), and that `CircularQueue` is
a bounded FIFO (`QueueIsFifo`).  Its `IInv` says that `tail_` is where `head_` and `size_` put it
(`RingOK`), and numbers the events: what is on the way to the init task was typed before what is
still on the wire (`Numbered`).  The shift bit is true because the bytes ahead of it on the wire
still tell of every change, real or fake (`ShiftKnown`).  `KeyboardAssumption` says of keys, not of
codes, that a shift key is no other key, and that the prefix is no key's byte; the fake shifts,
which have a shift key's code behind the prefix, are an action of their own.

`TTY_proofs` proves, for any screen, ring and text, that the window lies in the lines the ring still
holds (`WindowStays`), that the screen is the window (`ScreenStays`), that no line shows an earlier
lap (`TextIsFresh`), and that the cursor follows (`CursorFollows`, an action property).  `IInv`
places the window within the ring, gives every cell of the ring its own position or none
(`RingIsFresh`), and keeps the cursor on while it is in view.  The arithmetic of lines and laps is a
dozen lemmas.  `TTYAssumption` asks for two rows and two screens; `OneByOne` is the callers' part.

`Console_proofs` proves, for any tasks, prints and screen, that the cursor is on the screen whenever
nobody prints, and when a panic has ended (`CursorComesBack`), although tasks read and write it
unprotected, and a panic stops them in the midst of that.  The invariant behind it is
`CursorIsTested`: while the cursor is beyond an edge, some task is still before the test that brings
it back.  A panic breaks that, as its victims never get to their tests, until its own `clear` has put
the cursor home: that stretch is `Unwiped`, and from there on the panicking task alone matters.

`Heap_proofs` proves that allocations stay apart (`MemoryIsSafe`), that the list is sound
(`ListStaysSound`), that nothing handed out is lost (`NothingIsLost`) and that freed memory is merged
(`FreedIsMerged`), for every pool and every set of requests in two cases:

- memory is freed, and sizes are multiples of every alignment asked for, which divides the header
  (`Orderly`; the kernel's eight and sixteen);
- nothing is freed, and the first request needs no alignment (`FirstInPlace`).  That is boot:
  `MemoryManager::init` allocates its own object first, and pages at any alignment behind it.

Outside of them `NothingIsLost` is false: `heap_reuse` shows it for the first case, and a first
request that leaves a hole of more than two headers before it for the second.

The invariant says that *some* set `L` of addresses is linked into one list (`Linked`: neighbours
know each other, no block reaches into the next), that the allocated ones are those handed out
(`Owned`), and which blocks can be free (`WholeShape`, `BootShape`).  With a set instead of the
sequence, each branch of `split_block` and `merge_blocks` is one lemma about adding, removing or
moving one address (`InsertKeeps`, `MergeKeeps`, `MoveKeeps`), and writing a header or data destroys
nothing of `L` because it stays inside a block (`Apart`).  That the sequence `Chain` is that set
comes last (`ChainIsList`).  It needs an induction, done by least counterexample: `FoldExists` gives
the fold behind `Chain` as a function of the number of steps, and `ChainGrows` that each step adds a
block until the last.

`Memory_proofs` proves of the buddy allocator, for any memory of a power of two frames
(`PowerOfTwo`), any regions and any requests, that no frame is free or given twice (`NoFrameTwice`),
that free chunks are aligned (`ChunksStayAligned`), that released regions merge fully
(`RegionsMergeFully`) and that requests get their frames (`RequestsGetTheirFrames`).  The hypothesis
is needed: `buddy_six` is the counterexample without it.  Powers of two are a recursive function
there, with its laws; the lists are read as one set of free chunks, and buddies are the two halves
of a pair, whose number does not depend on which half is freed.  The loops of `free_pages` and
`free_range` are folds, each followed along the sequence of its states to the least one that would
break the invariant.  That invariant (`AllocatorIsConsistent`) says of the boot that pair bits and
frame pointers agree with the lists; it says so only until `init_frames` is done, because
`alloc_frames` loses chunks and leaves bits behind.  What is free stays disjoint and aligned always.

Of the page tables it proves `AllMemoryIsMapped`, for any memory map, page size and number of
tables.  An address is split into table, page and byte, and every loop that fills a table is a
function of those.  `MemoryFits` asks that memory end a table below the top of the address space,
since a memory of 4 GB has no size in 32 bits.

`Disk_proofs` proves that `init` finds the drives (`DrivesAreFound`) and that a read which reports
success has the sectors asked for (`ReadsAreExact`), for any bus, any drives, whether they answer,
fail or are missing, any sizes of a byte and of the geometry, and whether single reads or the file
system ask.  The second is not inductive, as the drives work on their own and an earlier read may
have stopped half way.  `IInv` (`DiskInvariant`) therefore says

- `Discovery`: a drive that `init` has not come to is as at power-on, and one behind it is known
  for what it is;
- `Settled`: no ATA drive but the one that is read from has data to hand over, as long as no count
  was `oversized`;
- `Polling`: the buffer holds the sectors so far in order, and what the drive still has to deliver is
  the rest of the request;
- `FSTypes`: what the file system asks for is a number of blocks from a block.

`AddressIsExact` is the arithmetic behind it: the bytes that `ata_access` writes to the ports, two to
some of them, name the very sector for a drive that reads them as cylinder, head and sector, or as 28
or 48 bits.  `SearchFinds` is the bus's part.  The named assumptions say that buses, slots and
functions are numbered from 0 (`PCIAssumption`), that heads fit a nibble and sectors a byte, sizes are
32 bits and a drive without linear addresses has no sector it cannot name (`PATAAssumption`), and
that images hold numbers where the code reads numbers (`Ext2Assumption`).

Only model-checked:

- liveness, `PanicIsShown` included, which is out of the prover's reach, and the absence of deadlock;
- `NumbersReadBack`, `ScreenShowsPaper` and `ListingIsComplete`: `vsnprintf` and the listing of a
  directory recurse over data, on which the provers cannot induct.

## Not modelled

- Descriptor tables, segments and the boot assembly: constants written once.
- The processor's exceptions: none has a handler.
- Pids, parents and children of `ktask_create`: no code reads them, and nothing calls it.
- What a tick that ends the creator's slice within `append` leaves of the lists, instruction by
  instruction: the model stops there.
- The heap under preemption: `kmalloc` and `kfree` take no lock, but only one task allocates.
- The branches of `ata_access` that write or use DMA, `left_append`, the bulk `enqueue`,
  `utask_create`, `PCIMMIO`, `%n`: no call reaches them.  `memcpy`, `strcmp` and the like: no state.
- Freeing a chunk that `alloc_frames` gave out: nothing in the kernel does, and its bit is wrong then.
- Files that are commented out, empty or unused: IDE controller, floppy, RAM disk, VGA device,
  semaphore, pseudo-terminals, FAT, virtual file system, system calls, containers.

## Plan

1. Done: every part above is modelled and model-checked, and its safety proved, up to what
   recursion over data keeps from the provers.
2. When the code gets there: the torn lists pointer by pointer once something calls `ktask_create`,
   the heap under preemption once a second task allocates, disk writes and interrupts once they are
   used.
