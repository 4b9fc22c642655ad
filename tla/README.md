# A formal model of shad-os

shad-os (the kernel calls itself Shadestia) is a small 32 bit x86 kernel in C
and assembly: one address space, one CPU, a preemptive round-robin scheduler, a
heap, a RAM file system, a shell and a few drivers. This directory holds TLA+
models of its parts, the TLC configurations that check small instances of them,
and proofs, checked by TLAPS, for every size of instance.

Some files that the kernel links are not in the repository: `kernel.h`,
`kernel.c`, `keyboard.c`, `timer.c`, `gdt.c`, `terminal.c`, `usermode.c` and
`graphics.c`. What the models need of them (who calls what, with interrupts on
or off) is taken from how the code that is there uses them, and is marked
*external* in `PROJECT.json`.

## 1. The system and its parts

| part | state | operations | who calls it, and how |
|---|---|---|---|
| heap (`heap.c`) | list of block headers in the heap itself | `kmalloc`, `kfree`/`coalesce`, `heap_get_stats` | everybody, with interrupts off (boot, or inside an interrupt) |
| scheduler (`tasking.c`, `switch_to` in `low_level.S`) | circular list of `task_t`, current task, zombie, tick counter, pause flag | `task_create`, `tasking_tick`, `schedule`, `task_exit` | boot, the timer interrupt, the end of a task |
| interrupt dispatch (`idt.c`, `pic.c`, stubs) | vector table, `irq_routines`, state of the two 8259 | `irq_handler`, `pic_send_eoi` | the CPU |
| ring 3 (`syscall.c`, `enter_usermode`, `return_to_kernel`) | one saved kernel stack pointer, one fixed kernel stack | enter, system calls, exit | the shell command `usertest` |
| file system (`ramfs.c`) | table of 32 entries, buffers on the heap | write, read, delete, list | shell commands |
| mouse (`mouse.c`) | place in the packet, position, buttons | initialisation by polling, `mouse_callback` on IRQ12 | boot, interrupt |
| network card (`rtl8139.c`) | read offset in the receive ring, counters, transmit index | interrupt handler, `rtl8139_send` | interrupt, `nettest` |
| shell (`shell.c`) | line buffer and its length | one call per character, one per command | keyboard and timer (serial line) interrupts |
| paging (`paging.c`) | page directory, four tables and four spare ones | `paging_init`, `paging_identity_map_region` | boot |
| PCI, ARP, serial, strings | nothing, or device registers | | boot and shell |

The kernel has three kinds of concurrency. Devices act whenever they like: the
PIT, the keyboard controller, the mouse, the card. And a task can be left in the
middle of the timer interrupt and resumed much later, which is where the hard
behaviour of `tasking.c` lies: what is on the stack that is resumed, who
acknowledges the interrupt, what may be freed meanwhile. The third is the shell
command `usertest`, which leaves for ring 3 with interrupts on in the middle of
the interrupt that brought its Enter. There are no locks anywhere; exclusion
comes from the interrupt flag alone: interrupt handlers, and the commands that
run in them, are interrupted only in ring 3 (`HandlersUninterrupted`). Code of
ring 0 outside handlers, the idle loop of `kernel_main` and the bodies of tasks,
is interrupted at any time, but allocates before `sti` only. So heap and file
system calls are serial.

What makes each part correct, and what could break it, is listed under
`hazards` in `PROJECT.json`, each at its line and with the properties for it.

## 2. Modules

| module | models | kind |
|---|---|---|
| `Heap` | `heap.c`, one step per iteration of the list walks | component |
| `Allocator` | what callers rely on: regions that are long enough and do not overlap | abstract specification |
| `Alloctest` | the shell's `alloctest` among the users of the heap | composition |
| `HeapProofs` | theorems about `Heap`, that it implements `Allocator`, and about sums over the list | proofs |
| `AlloctestProofs` | theorems about `Alloctest`, and that the list is a function of the blocks in use | proofs |
| `Tasking` | `tasking.c` with the interrupt flag, the 8259, the stubs and `irq_handler` | component, composed with its interrupt environment |
| `TaskingProofs` | theorems about `Tasking` | proofs |
| `Ramfs` | `ramfs.c` over an allocator that may refuse | component |
| `FileCommands` | `cat`, `write` and `rm` over `Ramfs` | composition |
| `FileStore` | a map from names to contents | abstract specification |
| `RamfsProofs` | theorems about `Ramfs`, that it implements `FileStore`, and about `FileCommands` | proofs |
| `Mouse` | `mouse.c` with the 8042 and the mouse | component and environment |
| `MouseProofs` | theorems about `Mouse` | proofs |
| `Interrupts` | the 8259 pair with masks and cascade, `irq_routines`, the interrupt flag: `pic.c`, `idt.c` | component |
| `Shell` | line editor and `usertest` of `shell.c`, ring 3, system calls, over `Interrupts` | component, composed with its interrupts |
| `ShellProofs` | theorems about `Shell` and `Interrupts` | proofs |
| `Rtl8139` | reception and transmission in `rtl8139.c` with the card | component and environment |
| `Rtl8139Proofs` | theorems about `Rtl8139` | proofs |
| `Paging` | `paging.c`, one step per page | component |
| `PagingProofs` | theorems about `Paging` | proofs |
| `MC*` | constants for TLC | |

### Heap

`hdr` maps the address of each header on the list to its `size`, `free` and
`next`; a header that `coalesce` unlinks leaves the domain. `live` is what the
callers hold and how much they asked for; the code has no such variable, it is
the callers' side of the contract. A call is split at the loop iterations:
`KmallocCall` (entry), `KmallocTake`, `KmallocAdvance`, `KmallocFail`;
`KfreeCall`, `CoalesceMerge`, `CoalesceAdvance`, `CoalesceDone`. `pc`, `cur`,
`want`, `size` are the locals of the call in progress. Sizes are `size_t`
values: `align_up` reduces modulo `SIZE_MOD`. `kfree` is given pointers that
`kmalloc` returned and that have not been freed, as all callers do.

### Alloctest

`cmd_alloctest` runs inside an interrupt, so that nobody else calls the heap
until it is over, but the others have left the heap in any state. `step` counts
its six calls, `ptrs` are `a`, `b` and `c`, `before` the figures it prints first.
When one of three allocations fails the command returns and keeps what it has:
`GiveUp`, with `lost` for the blocks nobody can free any more; that the command is
not run again after that is a bound (the guard `lost = {}`). `Call` is the
rest of a `kmalloc` or `kfree` that has started, by whoever.

### Tasking

A `Cell` is the memory of one `task_t` and its stack. `allocated` tells which
cells the heap has handed out; a freed cell keeps its contents and its place in
the ring, as in the code. `esp` is kept to what it leads back to: the frame
built by `task_create`, the middle of a timer interrupt, or `task_exit`.
`cpu = "walk"` is the loop of `schedule`, one action per iteration; `Switch` is
its tail up to `switch_to`, and `SwitchFresh`/`SwitchBack` are the two places
its `ret` can land in: `task_trampoline`, which executes `sti`, or the rest of
an older interrupt. `iflag`, `irr` and `isr` are the CPU's flag and the interrupt
controller's registers, with the priority rule of the 8259 in `Deliverable`.

The timer's routine is `tasking_tick` and then the loop over the serial line
(`cpu = "poll"`), which `PollDone` leaves for the EOI. `usertest` can be run from
both interrupts, by `KeyUsertest` and by `SerialUsertest`; `user` is the set of
those whose demo is in ring 3, and `EnterRing3` is what both have in common, from
`tasking_set_paused(1)` to the `iret` of `enter_usermode`. A demo started from the
keyboard can be interrupted by the timer, and then by a second demo from the
serial line, but not the other way round: the timer in service blocks the
keyboard. The ends differ. `KeyDemoExit` returns out of the keyboard's interrupt,
`SerialDemoExit` into the loop over the serial line; `NestedDemoExit` clears the
one flag that both demos share and returns through a stack that is no longer
there, so that the machine is in state `undefined` and stops (`Shell` models how
that comes about, see `usertest_nested`). `task_create` is called during boot only
(`MayCreate`), as `kernel_main` does. A switch from `task_exit` back into a
saved `task_exit` cannot happen, a terminated task is never resumed; the model
has no action for it and `ExitNeverReturns` would catch the attempt.

### Ramfs

One call is one action, since commands run with interrupts off; its outcomes
(`WriteData`, `WriteEmpty`, `WriteNoMemory`, `WriteRejected`) are the paths
through `ramfs_write` in the order of the code. `mem` maps the buffers held by
the file system to their contents. `WriteNoMemory` is enabled whenever a write
needs memory: the heap may refuse at any time.

### FileCommands

An argument is a record of the whole text after the command (`all`) and the two
parts that `split_command` makes of it (`name`, `rest`), because `cat` and `rm`
take the whole for a name and `write` only the first word. The run of `Ramfs`
goes through these commands.

### Interrupts and Shell

`Interrupts` has the request, service and mask registers of both controllers as
sets of lines. `Rank` is the priority of the fully nested mode, in which the
slave's lines rank with line 2; `InService` is what an interrupt occupies;
`pic_send_eoi` retires the most urgent line of the master, and of the slave for
its lines. (`Tasking` keeps a simpler version of its own: the three lines it
needs are the master's.)

In `Shell` characters come from the keyboard's interrupt and from the timer's,
which polls the serial line after `tasking_tick`. `frames` is the stack of
interrupts in progress with how far each has come: in its routine, in `ring3`,
in the `tail` of `shell_handle_char` after a command, or at its `eoi`.
`enter_usermode` notes the depth of the stack in `km_esp` and sets the flag;
`SysExit` cuts the stack back to it. Every system call starts at the top of the
one stack that the TSS names, as does an interrupt that comes from ring 3. If an
interrupt is in progress there, the call overwrites its frame; from then on
(`clobbered`) the behaviour of the machine is undefined, and the model stops.
Boot is part of the module: drivers are initialised in any order, each unmasking
what the code unmasks, with the masks the firmware left; `sti`; then
`shell_init`, which `kernel_main` calls with interrupts already on. `typed`,
`line` and `mixed` are history variables for `LineAsTyped`. Characters are words:
`USERTEST` is the whole word `usertest`.

External, and confirmed in the shipped image `shadestia.bin`: the order of
`timer_callback` (tick, `tasking_tick`, loop over the serial line), that
`keyboard_callback` hands over at most one character, that
`usermode_run_demo` pauses the scheduler around `enter_usermode`, that the TSS
has one fixed stack, that `timer_init` does not unmask IRQ0, and the order of
calls in `kernel_main`.

### Mouse

`pc` walks through `mouse_init`; afterwards `mouse_callback` handles one byte at
a time. The controller has a one byte output buffer `out`. A *fault* is an
answer that comes after the driver's timeout (`mouse_read` then returns whatever
the port holds, and the answer arrives later) or a byte that somebody else reads
(`Lose`). The wait before a command is left out: `mouse_wait_input` gives up in
silence too, and the byte is written all the same. Bytes are real bytes: bit 3, the sign and the clamping are computed.

### Rtl8139

The card's side: the frames between its read and write positions, `ISR`, `CAPR`.
The driver's side: one action per register access of `rtl_irq_handler`, with the
card free to act in between. The module starts when the card has been found and
the buffers allocated; the receiver is on before the handler is installed
(`pc = "init"`), as in `rtl8139_init`. `rtl8139_send` hands over descriptor
`tx_cur`, which the card sends in turn. It never asks whether the card still
owns that descriptor, so that it can lap the card; the history variable `lapped`
notes that it has. The interrupt line is level triggered, which is how a PC's
firmware sets up PCI lines.

### Paging

`page_directory` holds numbers of tables, `tables` the four initial tables and
after them the spare ones; an entry of a table is the page it designates.
`paging_identity_map_region` is split at its loop iterations (`MapRegion`,
`MapPage`, `MapPageInSpare`, `MapReturn`), with `region` its arguments and
`addr` its loop variable, so that the two ways to leave the loop are visible.
`Translation` is what the processor makes of the tables. `PageFault` is any use
of an unmapped address, and ends the run as `page_fault_handler` does. Who calls
`paging_identity_map_region` is external (`graphics.c`).

## 3. Runs

| run | instance | shows | states |
|---|---|---|---|
| `heap` | 116 bytes, header 12, alignment 8, requests 1, 16, 40 and the largest; `alloctest` with 1, 16, 1 | list, ownership, merging, first fit, refinement of `Allocator`, termination; `alloctest` restores the figures | 164624 |
| `tasking` | 4 cells, quantum 3, entries that loop or return | memory of tasks, ring, EOI, ring 3 from both interrupts, what is left of fairness | 40452 |
| `ramfs` | 2 entries, arguments made of 4 names (one too long) and 3 contents, 3 buffers | ownership of buffers, every file can be named, refinement of `FileStore` | 651 |
| `mouse` | grid of 8 x 8, movements 3 and -9, 2 faults | configuration byte, packets in step, resynchronisation | 26680 |
| `nic` | ring of 32 bytes, frames of 4 and 11, limit of 2 per interrupt, corrupted headers, 2 transmit descriptors | driver and card in step, counting, no lost wake-up, every frame taken, the card's writes stay in the heap block, whose turn it is to send | 104505 |
| `paging` | 32 bytes of addresses in pages of 2 and tables of 4 entries, one initial and two spare tables | mappings are the identity and permanent, regions are covered | 1173 |
| `shell` | buffer of 3, two words, timer, keyboard, card and mouse, two masks | handlers reachable, EOIs match, handlers uninterrupted outside ring 3, lines as typed, interrupts end | 244960 |
| `tasking_loops` | 3 cells, entries that loop | **violated**: a ready task may never run | |
| `tasking_freed` | 3 cells, entries that return | **violated**: `schedule` follows a pointer into freed memory | |
| `mouse_leftward` | movements 0 and -1, 1 fault | **violated**: the decoder need not resynchronise | |
| `usertest_nested` | as `shell` | **violated**: `km_esp` no longer belongs to whoever is in ring 3 | |
| `nic_pad` | the ring of the code, one frame at a time | **violated**: the longest frame at the last slot ends behind `RX_BUF_SIZE` | |

Bounds, and why they are enough.

* `heap`: the shortest request takes 8 bytes and a header, and a rest is split
  off from 28 bytes on, so that 116 bytes hold four blocks: three in a row can
  be free, the case that needs two merges at one place, with a fourth in use.
  Requests that fit exactly, that leave less than a splittable rest and that
  cannot be met all occur; the largest size is the last one that `align_up`
  does not wrap. The three requests of `alloctest` fit between the blocks of
  others, and fail when there are enough of those; after a failure the command
  is not repeated.
* `tasking`: four cells are task 0 and three others, the smallest ring in which
  two terminated tasks stand in a row between two live ones. A quantum of 3
  has ticks that only count; the code's 5 adds nothing but more of them.
  `MAX_PIDS` bounds the tasks created in one run.
  `CHECK_DEADLOCK FALSE`: when a looping task keeps the timer blocked and every
  line is already requested, or behind the end of nested demos, the machine really
  has no next step in this model.
* `ramfs`: three usable names for two entries make the table overflow; one
  buffer more than entries lets a file be replaced when all are full.
* `mouse`: two faults can cancel each other or add up; the grid is small enough
  for each movement to be clamped at each border.
* `nic`: the ring holds three of the small frames, one more than the limit per
  interrupt, and its end is met at several offsets; the margins behind it are in
  the proportions of the code (one byte short of the longest frame, made good by
  the rounding). `nic_pad` has the code's own numbers. The long frame's
  end is not a multiple of 4, the short one's is. With two descriptors `tx_cur`
  goes round while none, one or both are in flight, and laps the card; that the
  code's four behave so too is a theorem (`StaysInTurn`).
* `shell`: with room for two words the line overflows, is corrected and is cut.
  A word, a space, Enter and Backspace are all that the editor tells apart. The
  card's line lies on the slave and is opened by the card's driver, the cascade
  only by the mouse's. The keyboard's and the timer's interrupt can each be the
  outer one; `HandlersUninterrupted` shows that a third level does not occur.
* `paging`: four parts of the address space and three tables, so that the spare
  ones run out; the regions start and end inside pages, cross pages and tables,
  and two of them reach the last page, where the end wraps.
  `CHECK_DEADLOCK FALSE`: a page fault stops the machine.

Fairness. `Heap`: a call that has started goes on (weak fairness of its steps),
since nothing can interrupt it. `Tasking`: boot and `schedule` go on, an
interrupt that can be delivered is, an entry of kind "returns" does return, and the
PIT ticks for ever (strong fairness, outside ring 3). The poll of the serial line
and the demo end, under strong fairness: the next character may be there each time
`usertest` has ended, and ticks interrupt the demo again and again, but each goes
on in between. That is an assumption about who types, nobody keeps ring 3 busy at
every tick from some point on; about the scheduler it assumes nothing. A task that
loops gets no fairness it could lose: it may run for ever. `Mouse`: the driver polls and takes
interrupts, the devices answer in the end, the mouse keeps moving. `Rtl8139`:
interrupts are taken, and frames that fit keep arriving; without the last, the
frames behind the limit of 64 would stay in the ring, which is a weakness of the
code that the assumption names. `Shell`: the steps of handlers are the CPU's, and
go on; the demo gets to its last system call although ticks interrupt it again
and again (strong fairness: between two ticks it advances); and the sender on
the serial line stops at last, since the timer's routine polls as long as there
is a character.

## 4. What the model found

* `idt.c` acknowledges an interrupt after its routine has returned. A task that
  is started from the timer interrupt therefore runs with the timer still in
  service: nothing preempts it until it ends. The header of `tasking.c` says a
  task need not give up the CPU for the others to run (`tasking_loops`). What
  holds instead is `ServedUnlessHogged`. The two demo tasks of the kernel loop,
  so the first of them to start keeps the CPU.
* A terminated task is freed but never unlinked from the ring
  (`tasking_freed`). Until the memory is reused the walk works, because the
  freed `task_t` still says TERMINATED and still points on; that is the state
  the safety properties of `tasking` and their proofs describe. Any later use of
  that memory breaks it.
* `usertest` typed on the keyboard can be executed a second time, inside itself,
  by an Enter on the serial line: `cmd_len` still counts the line in progress.
  The inner call of `enter_usermode` overwrites the only return point
  (`usertest_nested`), and its first system call the frame of the interrupt it
  came from. The scheduler is paused by a flag, not a count, which the end of the
  inner demo clears for both; `NoSwitchInUser` holds all the same, because the
  timer is still in service and interrupts are off.
* `rtl8139_send` can hand over a descriptor that the card still owns
  (`TransmitInStep` has to except it).
* Bit 3 does not identify the first byte of a mouse packet (`mouse_leftward`). In
  the run an answer comes after `mouse_init` has stopped waiting for it; the byte
  left behind, 0xFA, is taken for the first of a packet, and from then on the
  bytes 0xFF of a movement to the left are, for as long as the mouse moves so. A
  byte stolen from the middle of a packet has the same effect.
* The margin behind the receive ring is two bytes short for the longest frame
  (`nic_pad`); the rounding in `kmalloc` hides it (`DmaInBlock`).

## 5. What is proved

Every safety property of every passing run is a theorem, action properties and
the two refinements included, and so are some that no run repeats. The proofs
hold for every value of the constants that satisfies the named assumptions of the
modules; each module's inductive invariant is called `IInv` and stated beside its
properties.

**`HeapProofs`.** Assumptions: `HeapConstants` (sizes are natural numbers, the
heap has room for a header, and its addresses do not wrap) and `SizesAssumption`
(no request within `ALIGNMENT` of the largest `size_t`). `IInv` adds to the stated
properties `WalkInv`, what a walk in progress has established so far: `kmalloc`
has rejected every block before `cur`, `coalesce` leaves no two free neighbours
before `cur`. Without it neither first fit nor merging can be concluded at the
end of a walk. The list is never traversed by induction: `Tiles` says block by
block that the next header is where this block ends, which is local, and that two
blocks do not overlap, and that is enough. Proved: type correctness, `Tiles`,
`HeldBlocks`, `HeadersSafe`, `Coalesced`, `FullyReclaimed`, `FirstFit`, and that
`Heap` implements `Allocator`.

*Walks.* `WalksShrink`: every step of a walk that does not end the call leaves
strictly fewer blocks ahead of `cur`, a finite set (`AheadFinite`). With the
fairness that TLC is given this is why calls return.

*Sums.* The figures of `heap_get_stats` are sums over the list. `BytesRemove`,
`BytesUnion` and `BytesSame` say that such a sum can be taken in any order, in
parts, and depends on the sizes only. They need induction on the number of
blocks; since the provers cannot use an induction rule with a predicate as its
parameter, each proof takes the least counterexample from a set of natural
numbers (`LeastNat`, from the library's theorem on well-founded sets), and that
the recursive function behind the sum exists is proved the same way
(`SumExists`). From them: `BytesAccounted`, the bytes in use, the free ones and a
header for each block always add up to the size of the heap, because a split
turns a header's worth of bytes into a header and a merge turns it back
(`SplitFull`, `MergeFull`).

**`AlloctestProofs`.** Assumption: `AlloctestConstants` (three sizes that may be
asked for). The argument is that between calls the list is a function of the
blocks in use: their complement consists of gaps, and each gap is one free block
(`ListDetermined`, from `Tiles`, `Coalesced` and `Linked`). The command's
invariant then only has to remember that its first figures are those of a heap in
which its own blocks are missing (`CommandInv`); when it has freed them that is
the heap it leaves. Proved: `ListDetermined`, `FiguresRestored`, `BlocksCounted`
and so `AlloctestRestores`, for every fragmentation and every three sizes; and
that the command only makes calls the heap is made for, so that all theorems
about `Heap` hold while it runs (`AlloctestIsCalls`).

**`TaskingProofs`.** Assumption: `TaskingConstants`. The ring is described without
induction too: a set of linked cells closed under `next` is the whole ring
(`OneCycle`). `IInv` adds the phases of boot, that task 0 never ends, how state
fields, flags and interrupt registers go together (`StateInv`, `EoiInv`), and for
the walk of `schedule` that it meets a live task before it is back at a terminated
caller (`WalkInv`); `ExitNeverReturns` rests on that. `EoiOwed` says of every interrupt in
service who has yet to acknowledge it, whichever way ring 3 was entered, and
`NoSwitchInUser` follows from it and from the pause flag: of several demos the flag
speaks for all until the inner one ends, and then nothing runs. Proved: type correctness,
`NoLiveTaskFreed`, `OneRunning`, `OneCycle`, `ExitNeverReturns`, `EoiOwed`,
`NoSwitchInUser`.

**`RamfsProofs`.** Assumptions: `RamfsConstants` and, for the commands,
`CommandsConstants` (what `write` takes for a name can also be typed alone, and is
empty only if nothing was typed). The stated invariants are inductive together
with `BlankTable` (the table is untouched before `ramfs_init`). Proved: type
correctness, `NamesUnique`, `BuffersOwned`, `SizesMatch`, that `Ramfs` implements
`FileStore`, that the commands are calls of `Ramfs` (`CommandsAreCalls`), and
`FilesReachable`.

**`ShellProofs`.** Assumption: `ShellConstants` (the timer and the keyboard exist;
a driver on the slave comes with the mouse's, which opens the cascade, so that
a card without the mouse's driver, which would be deaf, is not examined; the masks
left by the firmware do not hide the timer, which `timer_init` relies on). The key
is `NestingInv`: at most two interrupts are ever in progress, since only the
timer's is more urgent than one that can be left in ring 3, the keyboard's, and
nothing is more urgent than the timer's. `ReturnInv` ties `km_esp` to the
innermost call of `enter_usermode` as long as no frame has been overwritten;
`BootInv` says what is unmasked when; `LineInv` compares the buffer with the
history. Proved: type correctness, `HandlersUninterrupted`, `EoiMatches`,
`HandlersReachable`, `LineAsTyped`.

**`PagingProofs`.** Assumption: `PagingConstants`; `PAGE` and `ENTRIES` are any
positive numbers. `IInv` adds to `TablesOwned` that an entry of a table in use
designates the page at its own place (`MappingInv`) and how far the call in
progress has come (`CallInv`): with the page's own address in every entry, and no
table behind two entries of the directory, no order of calls can map a page
elsewhere. Proved: type correctness, `Identity`, `TablesOwned`, `NothingUnmapped`,
`RegionMapped`.

**`MouseProofs`.** Assumption: `MouseConstants` (a mouse sets bit 3 in the first byte
of its packets). As long as no byte has been lost the controller holds exactly the
one answer that `mouse_init` is waiting for, or will (`ProtocolInv`), and the bytes
the driver has are those of the packet being sent (`PacketInv`). Proved: type
correctness, `ConfigKept`, `StaysAligned`, `PacketsApplied`.

**`Rtl8139Proofs`.** Assumption: `NicConstants` (the ring's size is a multiple of 4
and divides the 2^16 values of CAPR; corrupted lengths are ones the driver
rejects). Positions are compared by their distance behind the read position:
`RingInv` says that frames lie one behind the other from the read position to the
write position, none overlapping another. Taking a frame moves the origin, and
that all distances shrink by the same amount, without wrapping, is the arithmetic
the module spends most of its lemmas on. CAPR is 16 less than the read position,
on 16 bits; since the ring divides 2^16 the card gets back the position the driver
means. `StatusInv` is what `NoLostWakeup` needs in the middle of the handler. Proved:
type correctness, `InStep`, `TransmitInStep` (as long as the driver has not lapped
the card, the descriptors in flight are the ones from the card's to the driver's),
`NoLostWakeup`, and `DmaInBlock` provided that the
heap block has room for the longest frame behind the ring, which it has with the
numbers of the code (`RoomInTheCode`: 9712 bytes for 8192 + 1518), although
`RX_BUF_SIZE` alone has not.

`HeadersSafe`, `FullyReclaimed`, `WalksShrink`, `BytesAccounted`, `ListDetermined`,
`OneRunning`, `NamesUnique`, `SizesMatch` and `TablesOwned` are theorems only: they hold for every
instance, and no run repeats them.

Only model-checked: liveness (`CallsReturn`, `ServedUnlessHogged`,
`Resynchronises`, `EveryFrameTaken`, `ServiceEnds`), since the prover has no rules
for fairness.

## 6. Not modelled, and the plan

Nothing is said about what is printed or drawn, about the GDT, the linker script
or the registers of the serial port. `tasking_list` and `ramfs_list` change no
state. `pci.c` is one straight scan during boot; `net.c` fills in a frame of fixed
bytes. The functions of `string.c` are pure; `strcmp` and `strlen` appear as
equality and length. The CPU's exceptions other than the page fault stop the
machine and are left out. `reboot` ends a run, and `gfx` calls a file that is not
in the repository. The composition of `Shell` with `Tasking`
is the ring 3 demo that both have, entered and left from the same interrupts:
`NoSwitchInUser` shows that no task switch happens while `usertest` is in ring 3.

Next: what liveness rests on, as theorems in the manner of `WalksShrink`: the walk of
`schedule` meets every cell of the ring at most once, each round of the card's
handler leaves fewer frames, and each step of a handler in `Shell` brings the
end of the interrupt nearer.
