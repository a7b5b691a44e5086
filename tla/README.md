# A verification of dord-os

dord-os is a small x86 operating system: a boot sector and a second stage that
collect information from the BIOS, and a kernel with a physical memory manager,
a preemptive scheduler, interrupt-driven PS/2 input, PIO disk access with a
minimal file system, and a window server and a client that run as kernel
processes. The repository has no tests and no documentation beyond its
comments; what the modules below state comes from the code.

## Inventory

| Part | State | Operations | Meets | Hard behaviour |
|---|---|---|---|---|
| Scheduler (`kernel/proc.c`, `x86/proc.asm`, `libk/spinlock.c`) | `proc_current`, `proc_idle`, `ready_q`, `waiting_q`, `sched_lock`, per process `state`, `time_end`, `esp` | create, register, sleep, yield, exit, schedule, switch | called by processes, by the timer's interrupt, by `SYS_YIELD`, by `kernel_enter` | interrupts between any two instructions; stacks left in the middle of a function; flags saved on one stack and restored on another; wrap of the clock |
| Timer and dispatch (`drivers/pit.c`, `x86/isr.asm`, `x86/interrupts.c`) | `pit_systime_msec`, the controller's in-service bit | tick, EOI, schedule | scheduler, `pit_sleep_msec` | EOI against a switch that does not come back |
| Physical memory (`kernel/pmman.c`) | a bitmap of 1024 blocks of 16 KiB | initialise, alloc, free | both processes, `proc_create`, `proc_exit` | no lock although callers are preemptible; rounding; ends of the map |
| Memory map (`stage2/memory_map.asm`) | the list of E820 entries | build, sort | pmman | order and overlap with blocks are the firmware's |
| Processor start (`kernel/kernel.c`, `drivers/apic.c`, `x86/trampoline.asm`) | `ap_init_lock`, one stack for all cores | INIT, SIPI, report, halt | PIT for delays | true concurrency; a lock taken by one core and released by another |
| Mouse (`drivers/mouse.c`) | a partly received packet, position, buttons | handle a byte, initialise | PS/2 controller, window server | packets cut by keyboard bytes; sign extension; late answers in the handshake |
| PS/2 controller (`drivers/ps2.c`) | port types | commands with 10 ms timeouts, identify | mouse, keyboard | an answer that comes after its timeout; handlers that take a polled byte |
| Keyboard (`drivers/keyboard.c`) | scan code prefix buffer, shift | handle a byte | PS/2 controller | sequences of prefixes; lost bytes |
| Window server and client (`kernel/kernel.c`) | windows in order, drag, focus | raise, focus, drag, draw | mouse's variables, pmman, scheduler | variables that interrupts change between two reads |
| Disk and files (`drivers/ide.c`, `drivers/dfs.c`, `write_img`) | drives; the chain of file headers | detect, read a sector, read a file | window server | errors ignored; unbounded waits |
| Drawing, terminal (`libk/render.c`, `drivers/terminal.c`) | framebuffer, cursor | put image, put character | | clipping at every edge |
| Tables (`x86/idt.c`, `x86/gdt.c`, `drivers/pic.c`, `drivers/apic.c`, `drivers/acpi.c`, `drivers/pci.c`) | vectors, routing, device lists | initialise once, acknowledge | interrupts | overrides, ends of tables, two controllers to acknowledge |
| Boot sector and stage 2 (`bootsector/`, `stage2/`) | disks found, the kernel's extent | set a mode, open A20, find disks, find and load the kernel | hands `klow`, `khigh` and the memory map to the kernel | the firmware may refuse every call; every read may fail, which stage 2 mostly ignores |

What would make each part correct:

* Scheduler: no hang on its own lock; no process lost or on two lists; sleepers
  woken at their tick; the idle process only when all sleep; every ready process
  runs; user code always preemptible; the timer never left unacknowledged.
* Physical memory: nothing outside the bitmap is touched; what is handed out is
  free, large enough and handed out once; reserved memory never is.
* Processor start: one core at a time on the shared stack; all cores report
  before the kernel goes on; the delays are as long as asked for.
* Mouse: position, wheel and buttons are the sums of what the device reported.
* PS/2: the type of a device and the packet size the kernel uses agree with the
  device, or the device is given up.
* Window server: the windows stay a permutation; a drag follows the cursor and
  ends with the button.
* Files: reading a file that write_img stored gives its sectors; the search ends.
* Keyboard: what is printed is what was typed, shifted if a shift key was held.
* Drawing: every visible pixel of an image is written and nothing else is.
* Terminal: the screen shows the tail of what was printed.
* Interrupts: each one reaches the handler of its device, and none is the last.
* Loader: the kernel is found if it is there, and is complete when entered.

## Modules

| Module | Models | Used by |
|---|---|---|
| `Proc` | scheduler, its lock, `proc_switch`, the timer interrupt from the line to `iretd`, `SYS_YIELD`, the end of `kernel_enter` | `MCProc`, `MCProcWrap`, `ProcProofs` |
| `PmmanMap` | the bitmap's geometry and conversions | `Pmman`, `PmmanInit` |
| `Pmman` | `pmman_alloc` and `pmman_free` in several threads, one bit per step | `MCPmman`, `PmmanProofs` |
| `PmmanInit` | from the firmware's memory map to the initial bitmap | `Boot`, `MCPmmanInit`, `BootProofs` |
| `ApStart` | start of the application processors | `KernelEnter`, `KernelEnterProofs` |
| `Mouse` | the mouse, the controller's output buffer and the interrupt handler | `Input`, `MCMouse`, `InputProofs` |
| `FileStore` | abstract: what reading files promises | `Dfs` |
| `Dfs` | `write_img`'s image and `dfs_fread` over it | `MCDfs`, `DfsProofs` |
| `Ide` | detection of drives and PIO reads by several threads | `MCIde`, `IdeProofs` |
| `Interrupts` | ACPI tables, PICs and APICs, descriptor table, `interrupt_handler` | `KernelEnter`, `KernelEnterProofs` |
| `Ps2` | `ps2_initialize`, `mouse_initialize`, the controller and its devices | `Input`, `InputProofs` |
| `Keyboard` | scan codes, losses on the line, the interrupt handler | `Input`, `InputProofs` |
| `WindowServer` | `proc_wserver`, `proc_wclient`, the mouse's reports | `Display` |
| `Loader` | from the boot sector to the kernel's entry | `Boot` |
| `Render` | the clipping and loops of `render_put_image`, `render_blend_image`, `render_rect` | `Display` |
| `Terminal` | `terminal_putc`, `terminal_clear` | `Display` |
| `Boot` | composition: `Loader`, then `PmmanInit` with the extent the loader found | `MCBoot`, `BootProofs` |
| `KernelEnter` | composition: the tables of `Interrupts`, the start of the processors they list (`ApStart`), then interrupts | `MCKernelEnter`, `KernelEnterProofs` |
| `Input` | composition: `Ps2`, then `Mouse` with the type and packet size it left, or `Keyboard` | `MCInput`, `InputProofs` |
| `Display` | `Terminal`, `Render` and `WindowServer` side by side | `MCDisplay`, `DisplayProofs` |
| `InputInv` | no code: the invariants of `Input` that are proved (`MouseInv`, `HandshakeInv`, `FoundInv`) | `InputProofs` |
| `ProcProofs`, `PmmanProofs`, `BootProofs`, `KernelEnterProofs`, `InputProofs`, `IdeProofs`, `DisplayProofs`, `DfsProofs` | theorems | |

The `MC` modules give the constants that a `.cfg` cannot write down. A composing
module extends the module whose properties it checks by name and instantiates the others
(`INSTANCE ... WITH`), with a step of its own for the handover. Those that are
instantiated state what they need of their constants as a definition, which the
composing module assumes.

### Proc

One CPU runs the scheduler: the application processors halt in `ap_enter` and no
interrupt is routed to them. Concurrency is therefore that of interrupts and of
the stacks they leave behind. A thread has two frames: `frame[t]`, the function
it executes with its program counter, argument and saved flags, and `under[t]`,
the frame that an interrupt gate was entered on. `proc_switch` leaves a frame on
one stack with the eflags it pushed and goes on with that of another; a process
that has never run has the frame `proc_init` prepares, which enters
`proc_startup`. `proc_lock` and `proc_release` are split at every instruction
(`getf`, `cli`, test-and-set; store, `setf`) because the timer may strike between
them. The loop of `proc_schedule` over `waiting_q` takes one step per entry.

The intrusive lists are sequences: `proc_register` and waking push to the front
(`Cons`), preemption appends. That agrees with pointers as long as no process is
inserted twice, which `OnePlace` checks. The PIT's line is one pending bit, as in
the controller: ticks may be lost. Processes decide freely when to sleep, yield,
exit or create another; `proc_create` takes memory as available (see hazards).

### Pmman and PmmanInit

Every look at a bit and every write of one is a step of one thread; the ghost
variables `live`, `reserved`, `asked` and `raced` record what was handed out, what
was in use from the start, what a call was made for, and whether two calls ever
overlapped. `PmmanInit` runs the BIOS loop (which does not count the last entry; the map is
assumed to fit into the 32 entries of stage 2's buffer, whose end the loop does not look at),
the selection sort, the clearing of usable memory and the three ranges
`kernel_enter` marks.

### ApStart

The boot core and the started cores take their steps in any order. INIT and SIPI
put a core where the processor would; the delays of `pit_sleep_msec` count ticks
of the boot core. `stack` is the core whose words are at the top of the stack all
cores share.

### Mouse

The device and the controller are external and modelled from how the driver uses
them: the device reports whole packets, the controller's buffer holds one byte,
from either device. The handler's conversions are modelled with their widths: the
offset is computed in 16 bits, as the code's shifts do, and the wheel in 8 or 4.

### FileStore, Dfs

`FileStore` is the promise: a call names a file and later returns, with the first
file of that name, with `ERR_NOTFOUND` if there is none, or with a drive's error.
`Dfs` first runs `write_img` on a command line, one argument per step, and then
calls of `dfs_fread`, one read of the drive per step. A sector is a header, a part of
a file or the boot sector. A read of a header that fails leaves the buffer as it
was, because `dfs_fread` ignores the result; `faulty` records that this happened
before the first header, when the buffer is uninitialised memory (one of `Junk`).
A file is loaded as `ws_load_font` and `ws_load_img` do: a call for its size,
memory of that size, a call for its contents. Where `write_img` gives up (`WriteFails`: an
option it does not know, a boot sector or a file that cannot be opened) the image stays without
its end, the phase is "failed" and nothing is read. `Store` maps the image's files to
`FileStore`'s, numbered by their arguments; `ImplementsStore` is checked as a property.

### Ide

Detection looks at the four positions in the order of `ide_initialize`; a position
holds nothing, an ATA or ATAPI drive, some other device, a drive that aborts
IDENTIFY, or one that leaves a wait of `ide_check_and_add_drive` unanswered: BSY does not clear, neither
DRQ nor ERR comes, or no DRQ after an ATAPI drive's own IDENTIFY. These waits have no end, so that
detection stays there (`waiting`) and nothing is ever read. Reads take a step for every group of register writes, so that another
thread may come in between. The drive is external: its registers keep the last two
values, a command takes the selected drive, the address and the count from them, and
a busy drive becomes ready or fails. `raced` records that two reads overlapped,
`stalled` that a drive failed between two sectors.

### Interrupts

A machine (a constant) says where its RSDPs are and whether they are valid, which
tables and MADT records it has, how its devices are wired to the I/O APIC, what
`cpuid` reports and whether its PICs raise spurious interrupts. The boot steps are those
of `acpi_initialize`, one per table and per record of the MADT, and of `apic_initialize` or `pic_initialize`; then devices raise
interrupts, the controller in use passes on the most urgent one it may, the CPU enters
a gate if there is one, and `interrupt_handler` selects the handler from the vector and
`acpi_intr_mappings`, and acknowledges. The timer's handler may switch to a process that
has never run and so never return on this stack. The two PICs are cascaded, with
request and in-service bits; an interrupt of the second blocks the first as well. Where
`Proc` has the timer alone and every instruction of the scheduler, this module has all
sources and the scheduler in one step.

### Ps2

The driver is the list `todo` of its accesses to the controller: commands, bytes,
polled reads and blind reads. What a read returns (or -1 after 10 ms) decides what is put on
the list next (`Received`). The controller has one input and one output buffer and a
configuration byte; the devices answer in their own time, and `late` counts how often
the driver went on before an answer that was coming. Until the driver has switched
interrupts off, the handlers may take bytes out of the buffer (`HandlerTakes`). A mouse
tracks the last three rates it was given, since these unlock its wheel. Mouse motion
reported during the set-up is left out.

### Keyboard

Seven keys stand for the kinds of scan codes there are: a character, two shift keys, a
key without a character, an extended key, and Print Screen and Pause with their long
sequences. Bytes carry the event they belong to as history; `Lose` drops one.
The user holds one shift key at a time, since the code has one bit for both.

### WindowServer

One step per read of the mouse's variables or write of a window, so that reports of the
mouse fall between any two; `torn` records that one fell into a pass. The client fills
the windows at any time relative to the server. The axes are handled alike, and the model has the
vertical one, on which the header makes a difference. Two windows, as in the code:
`mmove8` in `proc_wserver` copies forwards over its own source, which would be wrong for three.

### Loader

The boot sector's text mode and its two reads (the header of stage 2, then as many sectors as
it says), the search for a graphics mode, the calls for the memory map, the three ways to open
address line 20, the search of the PCI bus for an IDE controller, detection, the search
of each disk for `kernel.bin`, the read of the file and the copy of its sections, one
access per step. The firmware may refuse any of its calls, and the code then ends in `panic`: the text
mode, the VBE information block, the information on a mode it looks at, the mode itself, and a call for the
memory map (carry or a wrong signature). What the memory map says is used by the kernel only, so that `Loader`
has whether it was fetched and `PmmanInit` what it holds. A drive that does not answer keeps
detection waiting ("detecting"). A failed read of a header leaves the buffer as it was: `misled`
records that this happened on the first sector of a drive, where the buffer holds a
header of the drive before. The kernel's sections are assumed to end
below `TMP_ELF_ADDR`, where the file is read to; the build places them so.

### Boot, KernelEnter, Input, Display

`Boot` follows the kernel's extent: `klow` and `khigh`, computed from the ELF sections, are all
the kernel knows of itself when it marks its memory. `EnterKernel` hands them over and
forgets the loader's other variables. `KernelEnter` runs `acpi_initialize` and the choice of the controller,
starts the processors in `acpi_lapic_ids` if there is a local APIC and the list is not empty (`StartCores`),
and only then lets devices raise interrupts; while processors are started the timer's ticks are those
of `ApStart`. `Input` lets the mouse's handler work with the `mouse_type` and `mouse_packet_size` that the
handshake has left (`SetUpDone`), on machines with a mouse, and has keys typed on those without; it goes on only
where answers came in time, since otherwise driver and mouse may disagree. `Display` is a choice between three
parts that share no state; of `Render` it makes one call, since a call keeps nothing for the next.

### Render and Terminal

`Render` computes the pairs (pixel written, pixel of the image read) of a call with the code's
clipping per axis and its loop over rows in the flat array. `Terminal` keeps, beside the
screen, an endless sheet on which the same text is typed without scrolling: the screen has to be its tail.
The tab size divides the width, as 4 divides 80. `terminal_clear` does not update the
display's cursor registers, and the model does not either.

## Runs

| Run | Shows | Bounds |
|---|---|---|
| `proc_safety` | no deadlock, preemptible processes, acknowledged timer, `OnePlace`, `IdleOnlyWhenBlocked`, `Timely` (sleepers on time, slices respected), `BootCompletes` | 3 processes (2 created by `kernel_enter`, 1 by another process), clock up to 3 with slice 2 and sleeps of 1 and 3: slices end, deadlines meet, sleep outlasts a slice, blocks are reused after exit |
| `proc_live` | `SleepersWake`, `ReadyRuns` | the two processes of the kernel |
| `proc_wrap` | finding: a process is lost when the clock wraps | wrap at 8 ms instead of 2^32 |
| `pmman` | `InsideMap`, `SizeCovered`, `SerialAllocation`, `FirstFit`, `CallsReturn` | 4 blocks of 2 bytes, 2 threads, every initial bitmap; sizes 0, a block, a block and a byte, more than the map, and one at which the rounding wraps |
| `boot` | `KernelFound`, `KernelKept`, `SortedPermutation`, `ClearInsideMap`, `InitialMapSound` | 8 machines (the kernel in the middle, at the end, on the second and third drive, nowhere; A20 opened at each attempt or never; no mode; no IDE controller; a drive that does not answer), 2 images, failed reads and calls of the firmware; memory maps that fill stage 2's buffer; 6 blocks of 4 bytes; every order and type of three adjacent regions with ends inside blocks, at their borders and behind the map |
| `pmman_reserved` | finding: a partly reserved block is free | same memory maps, without the loader |
| `kernel_enter` | `StackOwned`, `AllStarted`, `SipiDelayed`, `BspProceeds`, `RoutedRight`, `Delivered` | 5 machines: with I/O APIC and without, overrides that move one device onto another's number, broken tables, an invalid RSDP before a valid one, spurious interrupts of the PICs; 2 cores to start, delays 2 and 1; 2 processes, 4 interrupts of any sources |
| `input` | `HandshakeAgrees`, `FoundIsThere`, `MouseTracked`, `KeysDecoded` | no, a one-port and a two-port controller, with or without a keyboard, four choices of mouse, six answers too late; 2 packets, offsets at the ends of 8 bits, keyboard bytes anywhere; 4 presses and releases of 7 keys, 2 lost bytes |
| `mouse_fast` | finding: 9-bit offsets are decoded with 8 | offsets beyond 8 bits |
| `dfs_store` | `ImplementsStore`, `ReadsWhole`, `FreadReturns` | every command line of one to three arguments, given up at any of them, files of 0 to 3 bytes in sectors of 2 (empty, partial, full), equal names, options anywhere |
| `ide_reads` | `DrivesListed`, `SerialReads`, `ReadReturns` | 2 threads, 2 reads, every pair of devices, or of drives that do not answer, on the first channel and a drive on the second; addresses and counts that need the high and the low value |
| `display` | `DrawsVisible`, `ShowsTail`, `WindowsKept`, `DragFollows`, `Settles` | every place from before to behind each edge of a 4 by 3 buffer, sizes 0 to 5; 2 lines of 4 cells, tabs of 2, two scrolls; 2 overlapping windows of different heights, 4 positions, 4 reports: press, drag over the other window, release, press again |

Two packets suffice for the mouse since what is carried from one to the next is
`packet_byte` and the last buttons. Two threads suffice for pmman's loops since a
thread meets the others only through the bits. Two started cores suffice for the
shared stack, which two of them would have to meet on. Four interrupts are enough for one of
either PIC to be in service while two more wait and the timer switches processes. Three processes are the least with
which both queues can hold more than one entry while another runs.

Each property was also checked against a plausible mistake in the code it is about
(the definitions commented "Mutant"), which it detects.

Deadlock checking is off where the modelled machine may come to rest: the clock
stops at the bound, all calls have returned, all cores halt, all input has been given.

### Fairness

* `Proc`: the CPU goes on executing (weak fairness of kernel code), the PIT ticks
  (weak fairness), and a pending interrupt is taken if interrupts are on again and
  again (strong fairness: the CPU looks for one at every instruction boundary, so
  it cannot keep missing the moments at which IF is set). No fairness is assumed
  of the processes: they may run on for ever.
* `Pmman`: a thread inside a call is scheduled again, which is what `ReadyRuns`
  shows for the two processes.
* `Dfs`: the code goes on, and a header whose read is tried for ever is read some time
  (strong fairness: errors of a drive are not permanent). Without it `dfs_fread`
  repeats the read for ever.
* `Ide`: threads are scheduled, and a busy drive becomes ready or fails.
* `KernelEnter`: every core executes, the PIT ticks while processors are started, and the
  boot core takes a pending interrupt that it may take (weak fairness of `CpuStep`); none of
  the devices.
* `Display`: the server and the client are scheduled (weak fairness of each), which
  is what `ReadyRuns` shows.
* `Boot`: the loader, alone on the machine, goes on.

### Findings

* `proc.c:71`: when `pit_systime_msec + msec` wraps, the sleeper is due at once, is
  picked from `ready_q` without becoming ACTIVE, and is dropped at the next switch
  to the idle process (`proc_wrap`).
* `pmman.c:117`: a block with the end of a usable region and the beginning of a
  reserved one is handed out (`pmman_reserved`).
* `mouse.c:37`: the offsets are extended from 8 bits, not from 9 (`mouse_fast`).

Observed while modelling, without a run of their own:

* `idt.c:106`: the I/O APIC's inputs have 24 vectors, of which 23 have a gate, and the spurious
  vector 0xFF of the local APIC (`apic.c:67`) has none. A device on input 23 would end in
  a protection fault. `RoutedRight` is checked for machines that use neither.
* `acpi.c:31`: the segment of the EBDA at 0x040E is used as an address, so that an RSDP in
  the EBDA is not found; the model keeps that (`RsdpPlaces`). On such a machine the kernel would take the timer's input for 0;
  `MachineAssumption` has machines whose tables are found, or whose wiring is that of the PICs.
* `ps2.c:94`: when the last byte of a mouse's self test (00) comes late, it is read as the ACK of
  IDENTIFY and the ACK is taken for the type. The mouse is then not recognised, which
  `FoundIsThere` allows.
* `kernel.c:403`: `mmove8(&w[1], &w[0], ...)` copies memory that overlaps in ascending order
  (`memory.c:22`). With three or more windows, raising the last would overwrite others. The
  client makes two, for which `WindowsAlwaysKept` is proved.

## Proofs

`ProcProofs` proves, for every set of processes and all values of the time
constants, with `ProcsAssumption` (the blocks, stacks and the null pointer are
distinct) and `TimeAssumption` (slice and sleeps below the wrap):

* `CtlInvariant`: `Spec => [](CtlInv /\ IdleOK)`. `NoSelfDeadlock` is not inductive:
  whether the lock is free where the CPU spins depends on what suspended stacks will
  do when they are resumed. `CtlInv` therefore says of every stack which function it
  can be in and where (`LegalAt`), what its saved flags are there (`FlagsAt`), what an
  interrupt can have been taken on (`UnderAt`), that a suspended thread goes on with
  releasing the lock (`SuspendedOK`), that the lock is held just where the code holds
  it (`LockOK`) and that IF is set just where the code wants it (`FlagOK`). One lemma
  per action shows that it is kept; `SwitchCtl` is the one for `proc_switch`.
* from it `TypeCorrect`, `NeverSelfDeadlocks`, `AlwaysMaskedWhileLocked`,
  `AlwaysPreemptible`, `AlwaysAcknowledged`.

Its second part goes on from there and proves, under `NoWrap` (the clock stays below its
wrap; past it a process may be woken inside its own `proc_sleep_msec`, which is the finding
`proc_wrap`):

* `ListInvariant`: `Spec => []ListInv`. `OnePlace` speaks of the states between calls only and is not inductive.
  `ListInv` holds at every instruction: each list holds a process once and is the one its state
  names (`QueuesOK`); the current process is on no list except between the
  insertion in `proc_sleep_msec` and the switch, and the idle process is current only with `ready_q` empty
  (`RunningOK`); a block that is being registered, perhaps by a thread an interrupt has suspended, is
  on no list yet and in no other thread's hands (`RegisterOK`); the boot stack has
  registered all it created when it leaves (`BootOK`); no sleeper is overdue except between
  a tick and the loop over `waiting_q` that follows it (`TimeOK`).
* from it `ProcessesInOnePlace`, `IdleWhenBlocked`, `BootAlwaysCompletes` (an action property)
  and, with slices of at least a millisecond and one more conjunct on the end of the slice
  (`SliceOK`), `AlwaysTimely`.

`PmmanProofs` proves, for every number of threads and blocks, from `MapAssumption`,
`SizesAssumption` and `MaxLiveAssumption`:

* `PmmanInvariant`: `Spec => [](LocalsOK /\ SerialOK)`. `LocalsOK` gives the range of the
  locals at each point of the loops and holds for every interleaving. `SerialOK` says
  that, while calls have not overlapped, a bit is set exactly for reserved blocks,
  blocks handed out and blocks a call in progress has marked or has still to clear.
* from it `TypeCorrect`, `AlwaysInsideMap`, `AlwaysSizeCovered`,
  `AlwaysSerialAllocation`. The invariants were checked with TLC before.
* `AlwaysFirstFit`, from a further conjunct on the search: no run of free blocks of the size
  asked for begins before the one the loop is counting.

`BootProofs` proves, for every memory map, every image of the kernel and every machine the
loader may run on, whatever fails on the way, with `MapsAssumption` (regions are disjoint, two at
least and no more than stage 2 has room for) and `ImageAssumption` (from `linker.ld`: the sections the kernel
uses are those `load_elf_kernel` loads, they do not overlap and fill one of the extents):

* `InitialMapInvariant`, whose `MapInv` follows the phases of the code. While entries are
  sorted, the prefix before the current pass is final and the set of entries is the
  firmware's (`SortOK`); while they are cleared, a bit is clear exactly if an entry already
  looked at covers its block (`ClearOK`); then what has been marked stays marked (`MarkOK`).
  From it `AlwaysSorted`, `AlwaysClearInsideMap` and `InitialMapAlwaysSound`, for `PmmanInit` on its own.
* `BootInvariant`: while `load_elf_kernel` copies, the sections before the current one are in place and
  `klow` and `khigh` are their least and greatest address (`LoaderOK`); once the kernel is
  entered all are, and `MapInv` holds with this extent (`EnteredOK`). From it
  `KernelAlwaysKept` and `BootMapSound`, of the whole boot (`BootSpec`).

`KernelEnterProofs` proves, first about `ApStart` on its own, `StackNeverShared`, `ProceedsAfterAll` and `SipiNeverEarly` for any
set of cores, answering or not, and any delays. The invariant (`HandOver`): cores the loop
has not come to are off, the earlier ones have released `ap_init_lock`, at most one core is in
flight, it is the one the lock was taken for, and the lock is free exactly when it has released it too.

Then, about the whole of `kernel_enter` (`KernelSpec`) and every machine that `MachineAssumption` and `ListAssumption` allow:

* `ListedCoresStartApart`: the stack is never shared and SIPI never early, by `KInv`, which needs nothing of what the tables list.
* `TablesAlways`: `TablesInv` is the invariant of the two nested loops of `acpi_initialize`. Of the records read so far (`ReadRec`),
  each input has its own number if none of them is an override for it, and otherwise that of one that is (`MapOK`); the list of
  processors is empty or has those of a MADT as far as it has been read (`CpusOK`); there is a local APIC only if
  a MADT was found.
* `ListedCoresReport`: `KernelSpec => []AllStarted`. By `TablesInv` the list from which `StartCores` begins is all of `Aps`, so that
  it leads from a state in which no core has been touched (`Waiting`) to an initial state of `ApStart`, whose invariant holds from there on.
* `AlwaysRoutedRight`: `GatesSuffice => (KernelSpec => []RoutedRight)`. `RunInv`: interrupts are off while tables are read; the
  redirection table is that of the mappings; what the core has taken came by the vector its device has with the controller in use
  (`VecOK`). When interrupts are enabled all records have been read, hence the number of an input is one the firmware
  gives it (`Mapped`). The hypothesis `GatesSuffice` says that no input beyond 22 is in use and that the local APIC raises no spurious
  interrupts, for which `idt_make_default` has no gates (see "Observed" above).

`InputProofs` proves `CursorTracksMouse` for every kind of mouse and every sequence of reports, with
bytes of the keyboard anywhere between those of the packets. `MouseInv`: the bytes in the handler's
`packet`, the one in the controller's buffer and those the mouse still has are together one report, and
the position lacks just that report (`UnderWay`); or the last byte of one is in the buffer and
the next is whole behind it (`Trailing`). The hypothesis `SlowMotions` keeps offsets to
8 bits; beyond them the property is false (finding `mouse_fast`).

`KeysAlwaysDecoded`, of the composition (`InputSpec`), is for every sequence of keys and every loss. `KeysInv`
numbers the bytes on the line (`at`): byte `n` is byte `at[n]` of its event, an event's bytes follow one another
and the next event begins when they are over, with the shift that the events before it leave (`Line`). While no byte
was lost, or an event has been read whole since, the handler's buffer holds exactly the prefixes its
event has sent since the last code (`Pending`), and while none was lost `shift_pressed` is the shift the next byte's
event was sent with. `EventReads` goes through the codes of all events byte by byte: a prefix
is followed by another byte, a code inside an event is no shift key, and the last one decodes to the key.

`HandshakeAlwaysAgrees`, also of the composition, is for every controller, with or without a keyboard, every kind
of mouse and every order in which driver, controller, handlers and devices take their steps. `HandshakeInv`
lists the points `ps2_initialize`, `mouse_initialize` and `ps2_enable_irqs` can be at while answers come in time (`InTime`).
At each it says which accesses are left, what the driver has concluded, and what it will find: the state of
the mouse once the controller has passed on what it was sent, and the bytes that will be read from the output
buffer and then from the device (`Settled`). These do not change while controller and device take steps, so that a point
is left by the driver's own access alone; a device whose answer is not waited for long enough counts as late.
Before the ports are enabled the devices have nothing to say (`Alone`), and the handlers may take
the configuration byte; both outcomes lead to a configuration in which they take nothing any more (`Cleared`, `Configs`).
The rates given to the mouse are followed through its window of the last three (`RatePoint`, `MagicPoint`),
which decides the id it answers with.

`FoundAlwaysThere` says what is left of this when answers come late (`late > 0`), where the driver may take one answer for
another: what it concludes is still true. `FoundInv` follows the driver through the same points (`Early`, `Finding`, `Starting`, `Ending`), but knows
only which bytes can be under way at all. A keyboard never sends the 0 that identifies a mouse and a mouse never the 0x83 of a
keyboard; 3 and 4 are sent by a mouse only when its id has become that, which only a reset undoes, and no reset is sent after
the identification. Accesses that are left are always the end of one of the driver's own sequences (`Proper`), so that a late byte
can lead nowhere else. Without a controller every byte read is 0xFF (`Absent`).

`CursorTracksFoundMouse` is `CursorTracksMouse` under `InputSpec`: `SetUpDone` starts the handler with the type and the packet
size that the handshake has left, which by `HandshakeInv` are those of the mouse.

`IdeProofs` proves `TableListsDrives` for every population of the four positions, and `SerialReadsRight`
for any threads, counts and addresses that fit the registers (`AddressAssumption`). `OnCourse` says what each step of
`ide_read_drive` has left in the controller; it is true of the only thread inside a read (`OneReader`),
as long as reads have not overlapped.

`DisplayProofs` proves, for every size of the buffers and any number of windows:

* `DrawingIsClipped`. `DrawsVisible` follows from the last call alone, so the work is in the lemmas:
  clipping one axis gives exactly the visible part of it; a row of the flat array does
  not run into the next; both together give the set of visible pixels. An image that
  begins before an edge and is also larger than the buffer is drawn in part only, which the
  theorem allows for.
* `TerminalStaysInside`: from a position on the screen no character moves further than the line
  below the last, so one scroll suffices. `TerminalShowsTail` needs of the endless sheet
  that it is blank below the screen (`BlankBelow`): that is what a scroll uncovers.
* `WindowsInvariant`: the server's indices stay among the windows filled (`Filled`, `InLoop`), the windows are a
  permutation at every step when there are at most two (`Kept`), and while no report
  has fallen into a pass only the first window can be dragged (`FirstDragged`, `FirstLoop`, `SecondLoop`).
  From it `WindowsAlwaysKept`, with `N <= 2`
  since the copy in `proc_wserver` loses windows when there are more, and `DragAlwaysFollows` for any number.
* `DisplayKeepsParts`: `DisplaySpec => Spec /\ DrawSpec`, the composition behaves as its parts do, so
  that the theorems about them hold of it (`DisplayShowsRight`).

The theorems on `ApStart` and `Mouse` under their own specifications are kept beside those under `KernelSpec` and `InputSpec`:
they hold for any list of processors and any type of mouse, also those that the tables and the handshake never lead to.

`TypeCorrect` of both modules, `AlwaysMaskedWhileLocked` and `TerminalStaysInside` state invariants
that no run lists: the runs keep to properties that say more, and the proofs cover these.

`DfsProofs` proves, for every command line of `write_img`, wherever it gives up, any sizes of files and sectors, any contents of the
uninitialised buffer and any reads that fail, from `DfsAssumption` (arguments are options or
files, a path is not empty):

* `ChainInvariant`: `Spec => []DfsInv`. The invariant has a list `at` with the LBA at which each argument's
  header is, or would be (`Laid`): behind a file's header come its parts and then the next file's, an option
  takes no room, and behind the last there are zeros. On the reader's side (`FreadOK`), while no first
  header has failed: the search is at an LBA before which no file has the name asked for
  (`SearchOK`), a stale header sends it back to where it is, what is found is the first file of the name
  (`FoundOK`), the caller's room is that of the size reported (`RoomOK`), and the reply
  is what `FileStore` allows (`ReplyOK`).
* `AlwaysReadsWhole`, and `FilesAreStored`: `Spec => ImplementsStore`, the refinement of `FileStore`: the
  initial states map to initial ones and every step to a call, a return or a stutter.

Only model-checked:

* all liveness properties (`SleepersWake`, `ReadyRuns`, `CallsReturn`, `KernelFound` with the loader's progress, `BspProceeds`, `Delivered`,
  `FreadReturns`, `ReadReturns`, `Settles`): fairness is out of the proof system's reach.

Every invariant that a passing run checks is also stated by a theorem.

## Limits

All parts of the code with behaviour worth checking have a module. The theorems carry hypotheses where the code needs them:
`NoWrap` (finding `proc_wrap`), reads and allocations that do not overlap, offsets of 8 bits (finding `mouse_fast`), at most two
windows, and `GatesSuffice`. What a recursive definition computes for inputs of any size, and progress, are shown
on the instances of the runs only.

## Not modelled

Formatted output (`libk/io.c`, `printf`), the serial port, VGA registers and the speaker: conversions
and port writes without state. Fonts and pictures (`libk/psf.c`, `libk/ppm.c`): conversions of
trusted files. The kernel's list of PCI devices, which is a walk over configuration space
whose result is a constant here (each entry is read as 20 words into `reg_data`, which
has 17), and its table of class names. `cpuid`'s decoding and the
flat GDT. `pic_mask_irq`, `pic_unmask_irq`, `acpi_enable` and `acpi_disable`, which nothing calls.
`proc_create` with memory exhausted, for which the code has no path. A mouse that loses a byte:
`mouse_handle_interrupt` has no way to find the beginning of a packet again, so that
nothing is promised from then on. Machine exceptions and
triple faults are outside the models: a property says what the code does on a machine
that follows its interface.
