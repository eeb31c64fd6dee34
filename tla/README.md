# MyOS kernel: TLA+ models, model checking and proofs

This directory holds a formal model of MyOS, the 64-bit SMP x86 kernel under
`src/kernel/`, from the scheduler to the file system and the terminal: TLA+ modules translated from the C and
assembly source, TLC instances that check them, and TLAPS proofs for any number
of CPUs and processes. `PROJECT.json` is the index: components, runs, the map
from every definition to its source lines, mutants, hazards, findings, theorems.

    tlc -workers 2 -config MCSchedLife.cfg MCSched     # one run
    tlapm MmProof.tla                                  # one module of proofs, some minutes

Paths below are relative to `src/kernel/`.

## 1. The system

MyOS boots on one CPU, starts the others, and runs Unix-like processes with
`fork`, `exec`, `wait`, signals, job control, pipes, a VFS with tmpfs, devfs and
ext2, and a terminal. Everything else in the repository (user programs, the
textbook, exercises, labs, a RISC-V emulator) is outside the kernel.

| Component | State it keeps | Operations | What makes it correct |
|---|---|---|---|
| Scheduler, processes (`proc/process.c`, `proc/exec.c`, `proc/switch.asm`) | `procs[]`, `rr_next`, per CPU `cur_proc`, stack, CR3 | scheduler loop, tick, yield, sleep, fork, spawn, exec, exit, wait, reap | one CPU per kernel stack, no use of freed stacks or page tables, no lost wakeup or zombie, fairness |
| Spinlocks, per-CPU data (`lib/spinlock.c`, `arch/percpu.c`) | owner, `ncli`, `intena` | lock, unlock, `push_off`, `pop_off` | exclusion, no self-deadlock, the interrupt flag restored |
| Mutex (`lib/mutex.c`) | `locked`, `owner` | lock, unlock | exclusion, no lost wakeup, progress |
| Signals, job control (`proc/signal.c`, ends of `sys/syscall.c` and `arch/interrupts.c`) | pending, blocked, actions, `killed`, `stop_reported`, frames on user stacks | kill, sigaction, sigprocmask, sigreturn, deliver, stop, continue | no signal slept through, SIGKILL always works, wait sees every stop |
| Pipes (`fs/pipe.c`) | ring buffer, open ends | read, write, close | FIFO, no lost wakeup, freed once |
| TLB shootdown (`arch/smp.c`), vmalloc (`mm/vmalloc.c`, `mm/vmm.c`) | inboxes, request on the sender's stack, list of areas, kernel page table | `tlb_shootdown`, `vmalloc`, `vfree` | no stale translation, no deadlock, frames neither lost nor shared |
| Physical memory (`mm/pmm.c`, `mm/memblock.c`), slab (`mm/slab.c`) | regions, free lists, page descriptors, slabs | reserve, hand over, alloc, free, get and put a page | every page in one block, buddies merged, no object given out twice |
| Address spaces (`mm/mm.c`, `mm/vmm.c`) | areas, page tables, reference counts, TLB | fault, copy-on-write, fork, mmap, munmap, sbrk, exit | counts agree with mappings, no stale translation, each process has its own memory |
| Block cache (`fs/block.c`) | list of buffers, counts | bread, bwrite, brelse | one buffer per block, none in use is taken, cache agrees with the disk |
| VFS (`fs/vfs.c`), ext2 (`fs/ext2.c`) | inodes in memory and on the disk, bitmaps, directories, locks | open, write, truncate, close, unlink, mkdir, rmdir, rename | disk consistent at rest and harmless after a power loss, one inode in memory for one on the disk, names kept |
| Terminal (`drivers/tty.c`, `drivers/console.c`, `drivers/vt.c`) | typed bytes, line, mode, foreground group; cells, cursor, parser | key, read, write, ioctl | lines whole, no reader asleep on a key or signal, screen shows the cells |
| Disk drivers, boot, ACPI, clock, screen, formatted output | device registers | - | not modelled: pure I/O or run once before there is concurrency |

How they interact. Every blocking operation ends in `proc_sleep(channel, lock)`,
which takes `proc_lock` before it gives up the caller's lock; `proc_wakeup` takes
`proc_lock`. Signals change the same fields under the same lock and wake any
sleeper. `proc_lock` is also held across `context_switch`, so it is taken on one
stack and released on another. `vfree` (kernel stacks of reaped processes, exec
buffers) sends TLB shootdowns and waits for the other CPUs, which is why it is
called with no spinlock held. The kernel is preemptible wherever interrupts are
on: code in the middle of a system call may continue on another CPU.

What is hard here: interleavings of CPUs and of the timer interrupt; locks handed
over between stacks; the window between a test and going to sleep; values read
before a lock is released and used after; requests on another CPU's stack; error
paths half way through an allocation; a full disk; a power loss between two writes
of one operation (the kernel has no recovery code, so the order of writes is all
there is); arithmetic at the edges of a region, a ring buffer or the screen.
`PROJECT.json` lists the hazards
with the line where each one bites and the properties aimed at it.

## 2. Modules

| Module | Models | Checked by |
|---|---|---|
| `Sched` | scheduler, processes, spinlock, timer | `MCSched` (3 runs), `SchedProof` |
| `Mutex`, `AbstractLock` | mutex on `proc_sleep`; the promise of a lock | `Mutex.cfg`, `MutexProof` |
| `Signal` | signals and job control | `MCSignal`, `MCSignalHist`, `SignalProof` |
| `Pipe`, `Fifo` | pipes; the promise of a byte queue | `Pipe.cfg`, `PipeProof` |
| `Tlb`, `Vmalloc` | TLB shootdown; vmalloc and the kernel page table on it | `MCVmalloc`, `KernelMemoryProof` |
| `Memblock`, `Buddy`, `Slab` | memory of the start; pages on it; objects on pages | `MCMemory`, `KernelMemoryProof` |
| `Mm`, `PrivateMemory` | address spaces; the promise of a memory of one's own | `MCMm`, `MmProof` |
| `BufferCache` | cache of disk blocks | `MCBufferCache`, `BufferCacheProof` |
| `Ext2`, `Vfs` | the disk and its inodes; operations on names and files on it | `MCVfs` |
| `Vt`, `Tty` | terminal emulator; line discipline, input queue and job control on it | `MCTty`, `TtyProof` |

A step of a model is the code between two points where something else can come
in: a critical section under a spinlock is one step (interrupts are off and the
lock excludes the rest), unless the code leaves the lock, switches stacks, or
reads data that is not guarded by that lock; then it is cut there.

### Sched

`lock`, `ifl`, `ncli`, `intena` are `proc_lock` and the per-CPU interrupt state;
`cur`, `stk`, `cr3`, `spc` say for each CPU its `cur_proc`, whose stack it
executes on, which page tables are loaded and where its scheduler loop is;
`state`, `parent`, `wait_channel`, `quantum`, `pml4`, `kstack`, `live` are
`struct process` and what is allocated; `pc`, `ret`, `saved`, `ipc`, `child`,
`old` are the code position and local variables on each kernel stack. A process
takes a step only when some CPU executes on its stack; the two halves of
`context_switch` (`SwitchOut`/`SwitchBack`, `SwitchIn`) are separate, so a
process that is READY and still on its stack is a state of the model. `left` is
`wake_tick` minus the clock. `Ops` chooses the system calls of an instance.
The increment of `ticks` and CPU0's scan for sleepers are one step, because only
CPU0 does both and nobody reads the clock outside `proc_lock` in between. File
descriptors, the working directory and the ELF file are left out; `SpawnLoad` and
`ExecLoad` keep only that loading yields page tables or fails.

### Mutex

`mutex_lock` is cut at each shared access: `this_cpu()`, `->ncli`, `m->lock`, the
test, `proc_sleep`'s taking of `proc_lock`, the release of `m->lock`. Threads move
between CPUs, and signals wake them from the sleep (signal.c:97 wakes whoever is
BLOCKED). `AbstractLock` has a holder and a set of those who wait; `owner` is the
refinement mapping.

### Signal

`proc[p]` is the part of `struct process` guarded by `proc_lock`; `taken` holds
`signal_deliver`'s locals between taking a signal and acting on it, `frames` the
signal frames on the user stack, `result` what the call left in RAX/RIP. RUNNING
stands for READY and RUNNING. `Kill` reaches one process or all of them (a
process group). The sigaction flags that matter only when a frame is built
(SA_NODEFER, SA_RESETHAND, `sa_mask`) are chosen in `SetupFrame`; SA_RESTART is part
of the disposition ("HR"). A fault is `Exception`; an unusable user stack is
`FrameFails`. Groups are in `Tty`, as far as the terminal uses them; sessions are not
kept.

### Pipe

The ring buffer, the open ends and the two file reference counts. `ReadSleep` and
`WriteSleep` end with the pipe's lock held and the decision to sleep taken;
`Sleep` makes the process BLOCKED. Signals come between, since they are sent under
`proc_lock`. `Fifo` is a bounded queue with atomic puts and gets of what one step
transfers; `Contents`, the bytes from `head`, is the mapping.

### Tlb and Vmalloc

`inbox[c][s]`, the request on the sender's stack (`req[t]`), the latched interrupt
of each local APIC, and each CPU's cached translations. `on[t]` is the CPU of a
thread with interrupts off. With interrupts on a thread may be on any CPU, so
`FlushLocal` and `PushOff` each choose theirs, and the interval between them is
the code's own. The hardware (`TlbFill`, external) may cache any present entry at
any time. Slots of the inbox that are empty are passed over in the step that takes
the next request; looking at an empty slot changes nothing, and one that is
filled later is left for the interrupt that follows. Frames come from and return
to a set: the buddy allocator is another component. Locals are reset when a call
ends, which keeps the state space small.

Of the four levels of the kernel's page table two are kept: `table`, a directory, and
the entries `pte[g]` of the table in frame g. Nothing locks them, so `vmm_map_page` is cut
where `next_level` is: `MapPage` looks into the directory, `MakeTable` allocates a table and
enters it without looking again, `SetEntry` writes the entry into the table that was found
or made (`pt[t]`). Two threads can both find no table; the later one then replaces the
table of the earlier one with the mapping in it (section 5, `AreasMapped`). The history
variable `overwritten` says that this has happened, and `FrameInOnePlace` and
`OtherCpusFlushed` speak of executions up to that point: what is lost then, no code
finds again. `TlbFill` finds a table that was replaced too, since a CPU may still remember
the directory's old entry. `vmm_unmap_page` reads an entry and clears it in one step: two
threads come to the same present entry only after a table was replaced.

### Memblock, Buddy and Slab

`Memblock` is the list of regions as operators: `reserve` cuts it, the right rests
going to the end as long as there is room. `Buddy` starts from what is left
(`FreeRange`, one block a step) and then serves threads. Free lists are sets: which
block of an order comes first is history only. A zone's lists change in one step
under its lock; the descriptor of the block is filled in after the lock is released
(`Descriptor`) and cleared before it is taken (`ClearDescriptor`), as in the code, so
that the window is a state. `Slab` calls `Buddy` with the cache's lock held; a block
it owns is `owned` by the cache.

### Mm and PrivateMemory

A process has one thread, so its areas and page table change at once; a step ends
where another CPU sees a difference, that is, at each change of a reference count or
a frame's contents. `pt[p]` is the page table, `mm[p]` the areas and the break, `kern[p]`
where a fork, a fault or an exit is. The levels of a page table above the last are one
frame, the root. `tlb[p]` is one translation the CPU remembers; an access takes one from
the table, flushes drop it. Frames that hold pages are named after the page they were
taken for, so that the choice of a frame, which means nothing, multiplies no states;
there are as many names (`Copies`) as the memory has frames. Memory may run out at every
allocation (`frames` of the scenario). A `munmap` that needs a new area and gets no
memory has dropped the pages and keeps the area, as the code does. `mapcount`, which
nothing reads, is left out. `PrivateMemory` gives each process a map from its pages to
values; the mapping reads a page through the page table, or as zeros when it is still
to be made. These maps alone do not tell why a page has changed: a copy that lost the
page would look like a `munmap`. `ImplementsPrivate` therefore also ties each step of Mm to
the call or access it answers (`PrivateStep`): a store changes the page it stores to;
`mm_map`, a growing stack and `sbrk` make zeros of holes; only `munmap` and `sbrk` give
pages up, among those they are called for; a load, `CowCopy`, `CowPut`, the steps of a fork,
`Evict` and the prune of tables change no page of anybody.

### BufferCache

`bget` finds or makes a buffer under `bcache_lock`, which it gives up to allocate; the
step `Insert` looks again. Contents are version numbers. A failed `bwrite` leaves the
newer contents in the cache; `failed` remembers that, and `CacheCoherent` exempts those
blocks. `BCACHE_MAX` can be exceeded when all buffers are in use: the code allows it.

### Ext2 and Vfs

`dino`, `dblk`, `ibm`, `bbm` are the disk, `mem` and `icache` the inodes in memory, `lk`
and `rename_lock` the locks. A thread's work is a sequence of steps `th[t].todo`: a C
function that calls others is a step that puts theirs in its place, an error skips to
the next "mark", where the code's cleanup starts. A step ends at a lock or at one
`bwrite`, so every state is also one in which the power may go: `CrashSafe` is an
invariant of the disk. Reading is not a step of its own where nothing changes. Sizes
are in blocks; one direct pointer and one indirect block with two entries stand for
the map. `lost` and `refreed` are history: a directory removed while something was
made in it, a block freed twice.

### Vt and Tty

`Vt` is `vt.c` as operators on one record, because all of it runs under `console_lock`:
UTF-8 and escape parser, attributes, scroll region, alternate screen, cursor, and
`screen`, what the driver was told to draw. A byte is a string ("x", "NL", "ESC",
"lead2", ...); four-byte characters are outside the BMP and shown as "?". Unsigned
sums are modulo `UINT_MOD`, 2^32 in the code. `stuck` stands for the endless loop of
section 5.

`Tty` has the queue of typed bytes, `struct tty`, the mutex, the keyboard interrupt cut
at its locks (`Key`, `KeyFlush`, `KeySend`, `KeyPut`) and programs whose calls are
sequences of steps. What signals do is the part of `signal.c` that a reader meets:
default actions, ignored signals, the restart of a stopped call, groups. ICRNL and
ECHOE are on in every mode. The answer of the terminal (ESC [ 6 n) is taken by the
write that causes it and queued byte by byte, so that keys come between. `edited` and
`given` are history for `LinesWhole`: the lines sent, the line being typed and the escape
sequence begun, brought up to date key by key with what a terminal is to make of a key
(`Typed`), and the bytes that canonical reads returned. Both start anew when the mode is
changed and the line dropped; only the escape sequence stays, as `esc_state` does.

## 3. Runs

| Run | Bounds | Shows |
|---|---|---|
| `sched_life` | 2 CPUs, 3 slots, 2 page tables | spawn, fork, exec, exit, yield, reap: `StackAllocated`, `LoadedTablesLive`, `TablesOwnedOnce`, `ParentAlive` |
| `sched_wait` | 2 CPUs, 3 slots, slices of 2 ticks | kernel threads that create, wait and exit: `OneCpuPerStack`, `WaiterNotForgotten`, `OneHandlerPerSlot`, `InterruptFlagFollowsProcess` |
| `sched_live` | 2 CPUs, 3 slots, slices and sleeps of 1 tick | `NoPanic`, `ReadyRuns`, `SleepEnds` |
| `mutex` | 3 threads, 2 CPUs | `ImplementsLock`, `Progress` |
| `signal` | shell and job with SIGKILL, SIGCONT, SIGTSTP, SIGCHLD; a process with 2 nested frames, SIGINT, SIGKILL, SIGSEGV | `SleepersUninterrupted`, `WaiterTold`, `KilledNotStopped`, `KillEnds`, `PendingDelivered` |
| `pipe` | 2 writers, 1 reader, buffer of 2, transfers up to 2 of 2 bytes | `SleepersHaveReason`, `FreedOnceUnused`, `ImplementsFifo` |
| `vmalloc` | 2 threads, 2 CPUs, areas of 1 page (t1) and 2 pages (t2), 3 frames, a table of 8 entries; one CPU looks up page 1 | `RequestAlive`, `FrameInOnePlace`, `OtherCpusFlushed`, `ShootdownEnds` |
| `memory` | 2 memory maps of 8 and 9 pages, zones that meet at page 4, orders 0 to 2, 2 threads, 1 cache of 2 objects per slab | `PagesAccounted`, `FreeRunsFindable`, `ObjectsOnce` |
| `mm` | 2 processes with 2 areas, 3 with one, 1 with every call; 6 or 7 frames | `FramesAccounted`, `TlbAgrees`, `ImplementsPrivate` |
| `bcache` | 2 threads, 3 blocks of 2 sizes, cache of 1, 2 writes, 1 error | `HeldBufferKept`, `CacheCoherent` |
| `files` | 10 pairs of programs, 5 inodes, 5 blocks, 4 names in a directory | `CrashSafe`, `RefsAccounted`, `Consistent`, `NamesKept` |
| `terminal` | 3 programs, up to 4 keys, queue of 3, lines of 3; screen of 3 by 3, any 3 of 78 messages | `LinesWhole`, `ScreenShowsCells`, `ReaderTold` |

Why the bounds are enough for what they are to show. Three slots are the least
with which an orphan, its dead parent and init exist together, a slot is reused
while a stale pointer could remain, and round robin has somebody to pass over; two
CPUs suffice for every race on `proc_lock`, a kernel stack or CR3, because each of
the properties speaks about at most two CPUs at a time. Two page tables let
`exec` hold the new one while it frees the old, and run out. `sched_wait` uses a VIEW
that leaves out what nobody will read: fields of a free slot, which `proc_alloc`
clears, and the time slice of a process that is not running, which starts anew. Three
mutex threads on two CPUs give a holder, a waiter that is woken and one that comes in
between. A buffer of two with transfers of one or two wraps at every offset and cuts
transfers; two writers interleave theirs. An area of two pages lets memory run out
with one page mapped; a page, a table and one frame more let two threads make a table at
the same time, and leave the frame that a `vmalloc` needs to meet a page that is still
mapped. Each thread releases areas of its own size (`Releases`), and the hardware looks up
the page that both threads use, on the CPU 0 (`Touched`): threads move between the CPUs, so
that this CPU is at one time the sender's and at another a receiver's.

The memory maps have a region across the border of the zones, a free block of the
largest order, kept pages in the middle and two regions that touch inside one block;
two threads are enough to meet at a descriptor or a slab. Two processes that share two
pages copy one while the other is counted, three share one page through two forks.
A cache of one buffer is full at once, so that every second block evicts. The pairs of
programs are those whose operations meet: in one directory, on one file, on the last
block, on a directory that goes or moves; the disk has room for four blocks beyond the
root, so that each kind of allocation fails somewhere. Three keys are a signal
between two others, and the mode or the foreground group changes while the interrupt of
one of them is under way; a queue of three overflows with the answer of the terminal; on
three rows of three there is a row and a column that is neither first nor last, and
three messages set a position or region, change something there and write after it.

`CHECK_DEADLOCK FALSE` is set where the system may really come to rest: all
processes have exited (Signal, Mm) or closed their ends (Pipe), everything is allocated
by threads that keep it (Memory), the kernel has panicked (Mutex, Vmalloc), or nobody
presses a key (Tty). In `sched_*`, `bcache` and `files` deadlock is checked: in `files` a
state where threads wait for each other's locks is an error.

Fairness. `Sched`: each CPU and the timer go on; strong where the code waits for a
spinlock, because a CPU that loses every race for it ends in the panic of
spinlock.c:34, so executions without that panic are the fair ones; the local APIC
latches a timer interrupt that finds interrupts off. `Mutex`, `Signal`: threads
get the CPU, which is Sched's `ReadyRuns`; the timer interrupts a program in user
mode; nobody has to ask for a mutex, but its holder gives it back. `Vmalloc`: code
with interrupts off goes on, and a latched interrupt is delivered when interrupts
come on (strong, because a thread can keep turning them off). The other runs check
safety and need none.

`PendingDelivered` says what the code provides and no more: `next_signal` takes the
lowest number first, so signals that keep coming can hold back a higher one.

Each property has a mutant in `PROJECT.json`, a plausible slip in the code
(definitions `Mut...`), that breaks it.

## 4. Proofs

Proved with TLAPS, for every value of the constants that the named ASSUMEs of the
modules allow: any number of processes, threads, CPUs, slots, pages, frames, any size
of a buffer. The runs evaluate the same ASSUMEs and check the same definitions on small
instances.

| Module | Theorem | States |
|---|---|---|
| `SchedProof` | `Inductive`, `TypeCorrect` | `IInv` and its types always hold |
| | `StacksExclusive`, `StacksAllocated`, `PanicFree`, `InterruptFlagKept` | `OneCpuPerStack`, `StackAllocated`, `NoPanic`, `InterruptFlagFollowsProcess` |
| | `OwnersInvariant` | `OwnInv`, on top of `IInv` |
| | `LoadedTablesAlive`, `TablesHaveOneOwner`, `ParentsAlive`, `WaitersNotForgotten`, `SlotsHaveOneHandler` | `LoadedTablesLive`, `TablesOwnedOnce`, `ParentAlive`, `WaiterNotForgotten`, `OneHandlerPerSlot` |
| `MutexProof` | `MutexInvariant`, `MutexImplementsLock` | `IInv`; the refinement `ImplementsLock` |
| `PipeProof` | `PipeInvariant`, `SleepersNotForgotten`, `PipeFreedOnce`, `PipeImplementsFifo` | `IInv`, `SleepersHaveReason`, `FreedOnceUnused`; the refinement `ImplementsFifo` |
| `SignalProof` | `SignalInvariant`, `NobodySleepsThroughSignal`, `ParentsTold`, `KillBeatsStop` | `IInv`, `SleepersUninterrupted`, `WaiterTold`, `KilledNotStopped` |
| `KernelMemoryProof` | `VmallocInvariant`, `RequestsAlive`, `FramesInOnePlace`, `OthersFlushed` | `IInv`, `RequestAlive`, `FrameInOnePlace`; the action property `OtherCpusFlushed` |
| | `MemoryInvariant` | `MemoryInv` of Buddy and Slab |
| | `PagesAreAccounted`, `FreeRunsAreFound`, `ObjectsAreOnce` | `PagesAccounted`, `FreeRunsFindable`, `ObjectsOnce` |
| `MmProof` | `MmInvariant`, `FramesAreAccounted`, `TlbAlwaysAgrees` | `IInv`, `FramesAccounted`, `TlbAgrees` |
| | `MemoryInvariant`, `CopyOnWriteInvisible` | `MemoryInv`, on top of `IInv`; the refinement `ImplementsPrivate` |
| `BufferCacheProof` | `CacheInvariant`, `HeldBuffersKept`, `CacheIsCoherent` | `IInv`, `HeldBufferKept`, `CacheCoherent` |
| `TtyProof` | `TtyInvariant`, `LinesAreWhole`, `ReadersAreTold` | `TtyInv`, `LinesWhole`, `ReaderTold` |

Each proof has the same plan. The properties are not inductive; the component's module
ends with `IInv`, a conjunction of named parts that is (for Tty, `TtyInv` at the start of
`TtyProof`; for Buddy and Slab, `MemoryInv` in `KernelMemoryProof`). Every part was first checked by
TLC as an invariant of the component's run, then proved: `Init` gives it, each action
keeps it (one step per action, under it one per part that the action can disturb), and
the properties follow from it. What several actions do alike is a lemma about the shape
of a step (`LocalShape` and `StillShape` in `MmProof`, for example).

**Assumptions.** At least one slot, CPU or end where the code has one; sizes and bounds are
natural numbers; sets that are counted are finite; stand-ins such as `None` are not
members of the sets they stand outside of. `MmAssumption` has the layout of
`mm/layout.h` (the mmap area lies in user space, below the stack) and that there are
names for as many frames as the memory has; `CallsAssumption` that lengths are not 0 and
areas are those of page numbers, which the calls check first. `TtyAssumption` has room for
a newline in the line and for a byte in the queue, and that who reads asks for at least
one byte: `tty_read` returns at once when `len` is 0. `SlabAssumption`: a slab has room for
an object (slab.c:80 panics otherwise). `OrderAssumption` says what powers of two are. None
of these restricts the code.

`StartAssumption` does say something of it: for each memory map, what memblock leaves to
`pmm_init` is regions without pages in common, inside the memory map and outside
what is reserved, and short of nothing but `BootPages`. `HandedOver` computes that with folds,
which the prover cannot follow; TLC evaluates the assumption on the maps of the run `memory`.
So the first part of `PagesAccounted` is proved from then on: whatever is handed over,
`free_range` gives the allocator all of it and nothing is lost later.

**Sched.** That no two CPUs execute on one stack depends on `proc_lock` being held while a
process is READY and still on its stack; who holds it depends on where the code of each
CPU and of the switched-out process is. `IInv` is `TypeOK` with

- `LockInv`: a CPU holds `proc_lock` exactly in the code positions that say so,
  with depth 1 and interrupts off;
- `CpuInv`: how `cur_proc`, the stack and the scheduler loop fit together; two
  CPUs never have the same current process; a process on a CPU is RUNNING except
  inside `sched()`;
- `CodeInv`: where the code of a slot can be in each state; anything but a position
  after `sched()` or before the first run belongs to a stack some CPU executes on;
- `ChildInv`: whom a slot is creating or freeing, no two the same;
- `FlagInv`: where the value of `intena` lives: in the CPU inside a critical
  section, on the stack (`saved`) while switched out.

`OwnInv` adds who has which page tables: no two slots or local variables the same,
free slots and those who have given theirs up none, a CPU those of its process or the
ones its process is about to leave; that a process sleeps in `proc_sleep_ms` and
`proc_wait` only; and that the parent builds or frees a slot and the reaper only
orphans. The counts of `TablesOwnedOnce` and `OneHandlerPerSlot` follow from these.

**Mutex.** A CPU runs one thread; whoever is in a critical section has the spinlock on its
CPU and so runs; who is BLOCKED is inside `proc_sleep`; `locked` and `owner` say who is
between `mutex_lock` and `mutex_unlock`. Then every step is one of `AbstractLock` or
leaves `owner` and the waiters alone.

**Pipe.** Who is about to sleep holds the pipe's lock, so that what it saw is still so
when it sleeps, and each end is counted by who has not closed it. For `Fifo` the proof
shows that adding at `(head + count) % PIPE_SIZE` appends to the bytes from `head` on, and
taking at `head` removes the first of them, for every `head` and size.

**Signal.** The three properties hold together: a call tests and blocks in one step, and
each sender of a signal wakes. What remains is case analysis of `signal_send`, `deliver`,
stop and continue, for every set of signals, masks and handlers.

**Tlb and Vmalloc.** A request is known at most once to each CPU, only to CPUs that the
sender's loop has passed, and `pending` is the number of CPUs that still know it: so when
it is 0 nobody refers to the sender's stack. A CPU that the loop has passed and that does
not know the request any more has not got the frame in its TLB. For the frames, `Walked`
says that the table a thread has found or made is still the directory's when it writes the
entry, and that no other table has an entry that is present; `EntriesApart`, `TablesApart`
and `Somewhere`, that the entries of the pages, the tables, the free frames and those in
a hand share out all frames. These parts hold until `overwritten`, and `MakeTable` is the
only step that sets it.

**Buddy and Slab.** The free blocks, those given out and those in the hand of a thread
share out the pages that the allocator was given (`BlocksInv`): each is aligned, of a valid
order and inside one zone, and no two have a page in common. `FlagsInv` ties descriptors to
lists, which is what makes the test of the buddy in `buddy_free` right; `MergedInv`, that no
free block has a free buddy, and `CountInv` follow each merge and each cut; `TodoInv` is about
the regions still to be handed over. The lemmas below it are arithmetic (two aligned
blocks are nested or apart, a block and its buddy are the halves of the next one)
and one about sets of blocks (`Regrouped`): some blocks replaced by others with the same
pages, and perhaps new ones. `FreeRunsFindable` follows by taking the smallest free block in
a run that no block covers. Its buddy is in the run too, so its first page is in a free
block: the buddy itself, against `MergedInv`, or a larger one, which would have the pages of
the smallest. `SlabInv` says, for each cache, which list a slab is in, and that only the
thread that has the lock of the cache is on its way through the allocator for it.

**Mm.** What a process in the middle of a copy, a fork or an exit remembers is still so,
because nobody else changes its tables; a child that is not born has one parent, which
fills its table from the bottom; who has no address space has no frame, table or
translation. With that each step changes the number of entries with a frame, of processes
that are about to put one and of those that have counted one for a child by what it does
to `refcount`, and the number of tables likewise.

For `ImplementsPrivate`, `MemoryInv` adds that a page which is present lies in an area of its
process (`CoverInv`) and its frame holds something (`ContentInv`); that a frame to which
one table allows stores is in no other place (`StoreInv`), which is why a store is seen by
nobody else; and that, while a fork goes through the pages, the child has the areas of the
parent and, up to where the parent is, its frames, so that what the child will have is
already decided (`ForkInv`). Lemmas say what the edits of the areas (`do_munmap`, `do_mmap`,
`brk`) do to the set of pages that are covered. Every step is then shown to be the step of
`PrivateMemory` that `PrivateStep` names for it: that of a `munmap` changes only pages from its
first to its last, that of a `sbrk` only pages of the heap above the new break, and the
copy of a shared page, whatever the other owners do meanwhile, nothing that a process can
read.

**BufferCache.** A buffer is in the list once and no block has two, although `bget` gives
the lock up to allocate; who is about to insert a buffer has it for himself; the mutex of
a buffer is with the thread that reads or changes it; what a thread can release is valid
and agrees with the disk.

**Tty.** Who is in a read has the mutex; who waits for a byte does so with nothing ready;
between the test of the queue and the sleep the reader has `input_lock`, so who is asleep
left the queue empty, and a byte that comes later wakes everybody. It may find the queue
full, but then nobody is asleep. The signal of a key is sent by an interrupt that goes on
to put the byte of the key, unless the terminal was in raw mode when it began; so a sleeper
with such a signal pending will be woken by that byte. For `LinesWhole`, the line is what is
ready and not yet given followed by what is being typed, and each branch of `canon_input`
does to the latter what `Typed` says; reads in parts, two readers, signals and changes of
the mode leave that alone.

**Only model-checked.** Liveness under fairness (`ReadyRuns`, `SleepEnds`, `Progress`,
`KillEnds`, `PendingDelivered`, `ShootdownEnds`) and whatever needs ENABLED: the prover has
no rules for them. What `reserve` and `memblock_base` of Memblock make of a memory map
(`StartAssumption`): they are folds, and that needs induction over data. `CrashSafe`, `RefsAccounted`, `Consistent`,
`NamesKept`: they speak of what can be reached in trees on the disk. `ScreenShowsCells`: a
write is a fold over its bytes, and that a fold keeps what each byte keeps needs induction
over data.

## 5. Findings

Disagreements between the code and its own comments or assertions. Each is reproduced
by `tlc -config <cfg> <module>`, which ends with the execution (`MCVmallocFindings.cfg` lists three
properties, each of which fails on its own; TLC stops at the first):

| Where | What | Reproduced by |
|---|---|---|
| mm/vmalloc.c:146 | `release` takes an area off the list before it unmaps the pages; a `vmalloc` on another CPU gets the same addresses and panics in `vmm_map_page`. `fork` against `wait` suffices. vmalloc's own error path has the right order. | `MCVmallocFindings.cfg`, `MCVmalloc` (`NeverMappedTwice`) |
| mm/vmm.c:109 | `next_level` enters a new table without looking whether another CPU has entered one since; a page that `vmalloc` has mapped is not mapped any more, and its frame is lost. | `MCVmallocFindings.cfg`, `MCVmalloc` (`AreasMapped`) |
| arch/smp.c:89 | `flush_local` runs before `push_off`; a thread moved in between leaves the CPU it arrives on unflushed, and the frame is freed. What does hold is `OtherCpusFlushed`. | `MCVmallocFindings.cfg`, `MCVmalloc` (`NoStaleTranslation`) |
| fs/pipe.c:50 | A signal between the test of `signal_interrupted` and `proc_sleep` is slept through, SIGKILL too, until the other end acts. The calls that test under `proc_lock` do not have the window (`SleepersUninterrupted`). | `PipeSignal.cfg`, `Pipe` |
| drivers/console.c:197 | The same window in a raw read with ISIG, for SIGTTIN and `kill`, and for a key pressed in raw mode whose reader has changed to canonical mode. The signal of a key pressed in canonical mode is safe: its byte wakes the reader (`ReaderTold`). | `MCTtyRaw.cfg`, `MCTty` |
| proc/signal.c:259 | A SIGCONT that arrives after a stop signal was taken and before `proc_stop_self` is lost. | `MCSignalContBeatsEarlierStop.cfg`, `MCSignalHist` |
| fs/ext2.c:1319 | Two renames wait for each other: one inside a directory that the other one moves. | `MCVfsRenameDeadlock.cfg`, `MCVfs` |
| fs/ext2.c:523 | `ext2_iget` enters a copy read before another thread's change. | `MCVfsStaleInode.cfg`, `MCVfs` |
| fs/ext2.c:816 | Truncation frees blocks before the inode without them is written; after a power loss two files may share one. | `MCVfsSharedBlocks.cfg`, `MCVfs` |
| drivers/vt.c:143 | `scroll_up` of all rows from row 0 does not end: `b - n` is unsigned. | `MCTtyScroll.cfg`, `MCTty` |
| drivers/tty.c:195 | A reader that has lost the foreground keeps the mutex and gets the next line. | `MCTtySteal.cfg`, `MCTty` |
| drivers/tty.c:167 | The rest of a line that was read in part survives Ctrl-C and goes to the next reader. | `MCTtyFlush.cfg`, `MCTty` |

More that the models show and no comment denies:

- `mutex_lock` reads `this_cpu()->ncli` in two instructions with interrupts on
  (mutex.c:19) and can panic after a migration: the `panic` position of Mutex, and why
  `Progress` ends in "or panicked".
- `signal_should_restart` decides from the signal that is pending before
  `signal_deliver` (syscall.c:288), so a call stopped by Ctrl-Z can, after two such
  signals and a SIGCONT, return EINTR.
- The spinlock is an unfair test-and-set (spinlock.c:28), and orphans are reaped only
  when CPU0 finds nothing to run (process.c:283).
- `ext2_rmdir` looks whether a directory is empty, unlocks it and removes it; a file made
  in between is lost (`lost`). A rename of `/a/x` to `/a` locks a directory twice and
  panics. A write beyond the end that fails half way keeps the block it had.
- A failed `bwrite` leaves the newer contents in the cache, where the next reader finds
  them.
- The answer of the terminal and typed keys come in any order, also in the middle of the
  answer.

## 6. Plan

Proofs to follow: the references and locks of inodes (`RefsAccounted`, the part of
`Consistent` about `icache`), which do not speak of trees; `StartAssumption` from the
definition of `reserve`, with a prover that has induction.

Models to follow: file descriptors and their sharing by fork (`sys/sys_fs.c`), mounts,
tmpfs and devfs; sessions and orphaned groups; the start of the application
processors; the shell's job table (`user/bin/sh.c`) composed with Signal and Tty.

## 7. Not modelled

Disk and screen drivers, ACPI, boot and the descriptor tables: device registers, or
code that runs once before there is concurrency; only the state `kmain` leaves is
used, as `Sched`'s initial state. `kprintf`, the log and string functions: formatting.
The translation of scan codes. ELF parsing and the initial user stack. tmpfs, devfs
and initrd: tmpfs has the operations of ext2 without a disk under one lock per inode.
Mounting, which nothing undoes while files are open in practice. Weak memory order:
x86 is strongly ordered, and data shared between CPUs is guarded by locks or by the
atomics of smp.c; a step of a model is atomic. User programs are present as what
they may ask of the kernel. The textbook, exercises, labs and the virtual computer
are not part of the kernel; together with user programs, font data and device drivers
they are the larger part of the repository's lines, and have no shared state that a
model of interleavings or failures would say something about.
