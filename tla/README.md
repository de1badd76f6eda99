# GreenwoodOS, specified and checked

GreenwoodOS is a 32 bit x86 operating system kernel in C (`src/src`, 13 500 lines) with
user programs, loadable drivers and a C library (`src/filesystem`). This directory holds
TLA+ specifications of the parts of the kernel where actions of several tasks, interrupts
and devices meet, the TLC configurations that check them, and theorems about them with
proofs checked by TLAPS. Line numbers below are those of the commit in `src/`.

## 1. Inventory

| Component | State | Operations | Meets |
|---|---|---|---|
| Tasks (`multitasking.c`, `system_calls.c`, `timer.c`, `main.c`) | `tasks[]`, `task_running_idx`, `task_lock`, `pid_counter` | `start_task`, `stop_task`, `task_end`, `task_callback`, `switch_to_task`, wait, yield, schedule | timer interrupt, keys, page faults, proc file |
| Program slots (`program.c`, `drivers/loader.c`, `drivers/elf.c`) | `program_slot_status[]`, `program_active_slot` | `exec`, `select_program`, `program_findSlot` | tasks, page directory |
| Windows and consoles (`window.c`, `console.c`) | `windows[]`, `window_selected` | open, close, select | tasks that own them, keys |
| Pipes (`drivers/pipe.c`) | buffer, two heads, two open flags | create, read, write, close | file table |
| Files (`vfs.c`, descriptors in `multitasking.c`) | `VFS_fileTable[]`, `file_descs[]`, `auto_stdinout` | open, close, pipe, dup, dup2, exec, end | pipes, tasks, file systems |
| Memory (`memory.c`, `paging.c`, `allocator.c`) | `MEMORY_REGIONS[]`, `page_directory[]` | populate, find, reserve, free | programs, drivers, program window |
| Process file (`drivers/proc.c`), task program (`utils/task`) | queue of 10 requests | pause, resume, kill, ask, read the answer | tasks, system tree |
| System tree (`drivers/sysfs.c`, `sysroot.c`) | inodes, character devices with an owner | read and write through callbacks in the owner's memory | tasks, files |
| Keyboard (`interfaces/keyboard.c`) | character buffer and index, flags, map of pressed keys | scan code interrupt, polling readers | lock, window selection, End key, desktop |
| Mouse, PS/2 (`interfaces/mouse.c`, `ps2.c`) | position, bytes of a packet | two interrupts that share one output register | desktop |
| Viewports, desktop (`filesystem/drivers/desktop`) | list of viewports, event handlers | open, close, focus, event delivery on behalf of the owner | tasks, lock, program window |
| ext2 (`drivers/ext2.c`) | super block, bitmaps, inodes, directories on disk | allocate, create, write, truncate | drives, files |
| Files in memory (`filesystem/drivers/buffs`), `fwrite` (`libc_src/stdio.c`) | size, page count and block of each file | create, resize, write | memory, files, programs |
| Drives (`drivers/drive.c`, `ahci.c`, `usb.c`, `ehci.c`), FAT32 | command slots | read, write | file systems |
| Network (`networking/`) | request queue, pending requests, connections, caches | `netproc`, `netfs`, TCP, DHCP, ARP | cards, tasks, memory |
| Network cards (`intel_e1000.c`, `rtl8139.c`) | descriptor rings | send, receive interrupt | network |
| Audio (`ac97.c`, `hda.c`, `audio/`) | one description of the song, two halves of a buffer, the card's place | play, stop, fill on a timer tick, record | card, timer, tasks |
| Platform (`apic.c`, `acpi.c`, `pci.c`, `interrupts.c`, ...) | tables | boot | everything, once |

What makes the kernel hard to get right:

* **Interleaving.** One processor runs all tasks, preempted by a timer (`timer.c`) unless
  `task_lock` is set. Interrupt handlers and system calls run with interrupts off and are
  atomic; everything else (`task_end`, kernel tasks, drivers loaded as programs that call
  kernel functions directly) can be preempted anywhere.
* **One lock without an owner.** Any program, event delivery, a key (`keyboard.c:83`) and
  `syscall_exit` set and clear `task_lock`.
* **Devices that do not wait.** The sound card plays on between two reads of its registers;
  the PS/2 controller puts the next byte of either device into the register that both
  handlers read; a key is let go while a program still polls for it.
* **Calls in a borrowed task.** The desktop is a thread without a program slot, and programs
  call its functions directly, each in its own task; an event handler runs under the task
  index and in the memory of the program it belongs to.
* **Indices that are reused.** A task index, a program slot, a window, a file table entry
  and a memory region go to a new owner while an old one may still refer to them.
* **Partial failure.** A -1 of an allocator is seldom looked at (`memory.c:234`,
  `loader.c:97`, `multitasking.c:438`).
* **Life time.** `stop_task` closes no files and returns no memory; the file table does not
  count references.

What makes each part correct, in one line: a switch goes only to a thread that is due and
resumes exactly that thread in its own memory; no resource has two live owners; a pipe is a
stream; a descriptor names the file it was given for; a page belongs to one block and is
mapped to it; what is given back can be used again and is out of reach of its last owner;
a song is heard in order and ends; a byte of a device reaches its handler; an answer goes to
the task that asked; the list of viewports is that of the open ones, and the front is awake.
All hazards, with their lines, are in `PROJECT.json`.

## 2. Modules

| Module | Models | Lines of code it stands for |
|---|---|---|
| `Tasks` | task table, scheduler, lock, program slots, window ownership, boot | `multitasking.c`, `program.c`, `window.c`, `main.c:41-126`, `system_calls.c`, `proc.c:71-85` |
| `Tasks_proofs` | theorems about `Tasks` | |
| `ByteStream` | abstract: a stream of bytes with two ends | what a pipe promises |
| `Pipe` | `drivers/pipe.c`, refinement of `ByteStream` | `pipe.c:4-90` |
| `Pipe_proofs` | theorems about `Pipe` | |
| `Files` | file table, descriptors, pipe ends | `vfs.c:56-168,241-267`, `multitasking.c:133-147,247-301,426-456` |
| `Files_proofs` | theorems about `Files` | |
| `MCFiles` | `Files` with and without sharing, for TLC | |
| `MCFiles_proofs` | the same theorems for both settings of `MCFiles` | |
| `Memory` | region table and page directory | `memory.c`, `paging.c`, `allocator.c`, `kernel_fn.c:33-35` |
| `Memory_proofs` | theorems about `Memory` | |
| `Ext2` | the ext2 driver and its disk | `drivers/ext2.c:150-523,740-928` |
| `Ext2_proofs` | theorems about `Ext2` | |
| `MCExt2` | symmetry of names and open files for TLC | |
| `Audio` | a song on the AC97 card, filled by the timer | `audio.c:47-53,99-178`, `wav.c:116-171`, `ac97.c:256-346`, `timer.c:56-76` |
| `Ps2` | the controller and the handlers of keyboard and mouse | `ps2.c:371-453` |
| `Keyboard` | from scan codes to the program that polls | `keyboard.c:17-246`, `KBD_US_SC2.h`, desktop `main.c:79-99`, `viewport.c:158-177,205-212` |
| `Proc` | the process file and the program that uses it | `proc.c:86-194`, `utils/task/main.c:40-286` |
| `Desktop` | the list of viewports and the delivery of events | `drivers/desktop/viewport.c:12-490`, `main.c:228-295` |
| `Buffs` | a file in memory and the `fwrite` that extends it | `buffs.c:65-86,163-194,327-361`, `stdio.c:206-232`, `memory.c:189-241` |
| `Devices` | `Audio` to `Buffs` side by side, for TLC | |
| `Devices_proofs` | theorems about `Audio`, `Ps2`, `Proc`, `Keyboard` and `Buffs`, stated for `Devices` | |
| `Desktop_proofs` | theorems about `Desktop`, stated for `Devices` | |

### Tasks
The arrays of the table are functions from `Task` (`slot_active` is `active`, `slot_running`
is `running`, `program_slot` is `slot`, and so on). Registers are abstracted to the identity
of the thread they belong to: `saved[i]` is the thread whose registers `tasks[i]` holds and
`cpu` the one the processor executes, so that "resumes exactly that thread" can be said.
The pid, which is never reused, names the thread; 0 is the boot code of `kmain`.
A handler is one action with its call of `task_callback` at the end (`TaskCallback(act)`,
which takes the activity the handler has left). `kernel_task` (`KernelLock` ...
`KernelNever`) and `task_end` (`TaskEnd`, `EndSlot`, `EndClose`, `EndNull`) run preemptibly
and are one action per externally visible step, with `pc` for the thread's place.
`Hazards` lets in what the code permits but need not happen: programs that take the lock,
the key that toggles it, kills, kills of a dead pid, page faults, and calls of a task that
was stopped while it runs ("orphan").

### Pipe and ByteStream
`Pipe` keeps both heads, the two flags and the buffer's cells; bytes are numbered in the
order they were accepted, so first-in first-out is `InOrder`. `ByteStream` has a queue and
four actions; `ImplementsStream` instantiates it with the cells between the heads. A read
that drains the pipe resets both heads (`Drained`), which is the only way space returns.

### Files
`used` and `inode` are `VFS_fileTable`, `fds` the `file_descs`, `stdio` the flag
`auto_stdinout`, `open` the flags of the pipes. There is no reference count in the code and
none in the model. A system call is one action; `task_end`, preempted, never gets the
processor back, so it is one action (`TaskEnd`) that may be cut off anywhere (`TaskEndCut`).
`Overrun` is the write of `file_descs[-1]` when descriptors run out.

### Memory
Units are pages of 4 MB. `region` is `MEMORY_REGIONS` (`exists`, `available`,
`virtual_addr`), `page` the page directory. `held` is what each program believes it owns,
`found` the result of `MEM_findRegionIdx` a loaded driver has not used yet (drivers call
the two functions through `kernel_fn`, interruptibly, `fsinfo/main.c:46`), `lost` a history
variable of regions no task holds that were not returned. Page numbers wrap at `NRegions`,
as 32 bit addresses do. `Init` is the state after `MEM_populateRegions` and `alloc_init`.

### Ext2
The variables are the disk: `bmap` and `imap` are the bits set in the two usage maps, `inode`
the inode table, `data` whose bytes each block holds, `ents` the directory entries in it. In
memory there are only the open files (`handle`: a copy of the inode and a head, as
`ext2_getInode` makes one per open) and the call in progress. `op` holds the local variables
of that call and, in `pc`, the write it does next; each `ext2_write_block` is one action:

    Create -> MarkInode -> InitInode -> (MarkBlock -> ZeroBlock)* -> WriteInode -> Link
                                            -> LinkSelf -> LinkParent   for directories
    Write  -> (MarkBlock -> ZeroBlock)* -> WriteInode -> WriteData+
    Truncate -> (MarkBlock -> ZeroBlock)* -> WriteInode

`Crash` is possible in every state, drops the memory and keeps the disk. Sizes count cells,
`BS` to a block, the last of block `FirstData` being the super block. `Init` is a fresh disk
as `mkfs.ext2` makes it (external): bit j of the map is block `first_data_block + j`. `slack`
is memory behind the one-block buffer, where the driver looks for bits past the first group.
Two things are scaled down: inode 3 stands for 11, `Direct` for 12. Left out are indirect
blocks (the bound `MaxSize` keeps positions below them), directories opened as files, disks
without a free inode (`ext2.c:327` computes with -1 then, and the kernel faults), the length
of names (`ext2.c:312` does not look at the space left in a directory), and failing writes.

### Audio
Lengths and places are frames; what is left of the source is counted in bytes, as in
`wav.c`, and wraps at `Word`. `place` says how far each player is in `wav_play` and
`audio_stop`, which are preempted anywhere; `Tick` is `task_refill_sound_buffer`, in which
the card may move on between any two of its four register reads (`Position`). `song` is the
one description all players share, and `source` says whose song it names. `selected` is
whether there is a card: without one nothing is heard, the timer's function is attached all
the same, and `audio_stop` returns before it detaches it (`audio.c:177`, `Detached`), while
the player goes on and returns its song. `TimerSlots` is how many entries of the timer's
table others leave; an attach that finds none gives up. `mingled` is the history that the
song was described while another player was between its own description and its attach: the
one of the two that goes on last converts with the description of the other, which may have
stopped and returned its song by then. `SourceHeld` promises nothing there, nor without a
card; if either condition is dropped TLC finds it violated. `TornTick` is a tick in whose readings the card enters
another entry between the index and the rest of it; after it, or after two songs at once,
the history `astray` is set and only life times are followed. Seen while modelling, within
what the model does: near its end the converter compares bytes with frames and reads past
the source (`wav.c:126`), which is not heard; a player killed between `StartCard` and
`Attach` leaves the card in its loop with nobody to stop it. The assumption on `Lag` is
that a tick's callbacks run before the card has played half of the buffer, 176 ticks long.

### Ps2
`out` and `full` are the output register, `irq1` and `irq12` the pending interrupts.
`MouseInterrupt`, `MouseRead` and `MouseStatus` are the accesses of `ps2_mouse_handler` to
the controller, between which it takes the next byte (`Load`). `crossed` is the history that
an interrupt has stood for two bytes or that the keyboard's handler has met a byte of the
mouse, which it takes for a key. A packet marked as overflown leaves `mouse_cycle` at 2 for
ever (`ps2.c:431`): the mouse is dead from then on, and `PacketsWhole` says no more than
that nothing wrong comes of it.

### Keyboard
A key press puts its set 2 codes on `wire`, each a byte per interrupt. The four kinds of
code are four actions' worth of disjuncts (`Combination`, `Character`, `Prefix`, `Rest`).
Two readers poll with interrupts on: `getc_blk`, in the steps of its two reads of the index,
and a program that calls `viewport_getc` while the desktop's pass copies the key for it.
The cell of the buffer one past its end is there, as the code writes the zero to it; what
lies before its first is `Garbage`. `mixed` is the history that shift has changed with a
character key down: the key that was down then stays marked for ever. `shown` says that the
viewport is the first of the list and not minimised, the guards of `desktop_kbd_event`
(`main.c:79-81`); `FrontChanges` stands for the clicks and the calls of other programs that
change it. `passed` is the history that the desktop's last pass was not for this viewport:
its `ascii` is left alone then, so that a key keeps being offered after its release until
the program polls, for as long as that takes. `OfferedIsHeld` promises nothing of such a
viewport, and fails there.

### Proc
`queue` is `proc_queue`; each entry carries, for the property only, the pid that wrote it.
`tool` is the place of the task program in `updateTaskContext` and what it has listed. The
program asks for as many tasks as are active but lists them by index, and it names the pid
where the file takes an index (`Command`), or the line of its list where the table has holes
(`Click`). `orphaned` is the history that a task has ended with its request in the queue.

### Desktop
A call of a function of the driver is a list of steps in `todo`, pushed and popped as the
code calls and returns; `cur` is the task that executes, `runid` and `mapped` are
`task_running_idx` and the slot at address 0, which delivery borrows (`Deliver`,
`HandleEvent`, `RestoreTask`). Task 0 is the desktop, a thread with slot -1, so nothing is
mapped again for it. `marks` records what the code has no answer to: calls of two tasks that
overlap, a program killed, a viewport closed with its X before it had its handler, and one
closed again by a program that had lost it. Behaviours are followed past the marks in
`Beyond`. The check for a dead owner is there in `viewport.c:466-471`, commented out. Each
close of a viewport that is not the last leaves one more place of the list in use
(`ShiftPlaces`), until none is found.

### Buffs
`size`, `num_pages` and `page_base` are those of `BUFFS_file`, `room` the pages really
reserved there, `mem` the bytes of the pages: old, the file's programs' or others'. A system
call is one step; `fwrite` is three, `Measure` (four calls, of which one reads the size),
`Resize` and `Write`, with its place in `writer`. `Copied` copies upwards as `memcpy` does,
also from behind an old block that is the shorter one, and kills the task at a page that is
not mapped (`CanCopy`). Pages are mapped to themselves, and the one that stands for a block
that was not found is not mapped; what a read returns is what `KeepsContent` finds in `mem`.
Behaviours are followed up to a step that sets `disturbed`:

* `num_pages` is `len / 4 MB + 1` and the block is rounded up, so a file of whole pages counts
  one page too many, is not moved when it grows by less than one (`buffs.c:343`), and is
  written past its block from then on. One that is cut from several pages to nothing has no
  block, and is not given one before it grows by a page or more, when `memcpy` faults.
* `SEEK_END` adds the size to the position (`buffs.c:188`, and so does `ext2.c:909`, while
  `sysfs_seek` sets it), so that `fwrite` takes a file for long enough that is not, and an
  element written in part counts as written. A resize by another program in between the
  calls of `fwrite` does the same, or `fwrite` itself cuts what the other has written.
* No block is found, as in `Memory`.

With the outgrown block, the wrong end or either resize left unmarked TLC finds `FileWhole`
violated. Only the first
page of a block that is left is returned, as `MEM_freeRegionBlock` of the driver is
`MEM_freeRegion` (`kernel_fn.c:35`); the rest of it is lost.

### Devices and MCFiles
The six modules from `Audio` to `Buffs` share no state. `Devices` holds the variables of all of them and a
choice, made in `Init`, of the one that moves; every property is that of the module named in
it. `MCFiles` has `Files` twice over the same variables: the setting is chosen in `MCInit`.

## 3. Runs

| Run | Question | Bounds | Result |
|---|---|---|---|
| `TasksSwitch` | Does every switch go to a thread that is due, and is every due task served? | 3 tasks, 1 slot, 2 windows, pids to 3; focus, waits for pid 2, fairness, no hazards | holds, 287 000 states |
| `TasksHostile` | What survives kills, faults, a toggled lock? | 2 tasks, 1 slot, 1 window, pids to 3; all hazards but "orphan" | holds, 990 000 states |
| `TasksReuse` | Does address 0 map the program that runs, and are slots and windows owned once, when indices, slots and windows are given up and taken again? | 3 tasks, 2 slots, 2 windows, pids to 4; programs take the lock, ends are preempted | holds, 3 400 000 states |
| `TasksOrphan` | Is a started task executed? | 3 tasks, pids to 4 | **violated** |
| `PipeStream` | Is a pipe a stream, and does it deliver? | buffer of 4, 9 bytes | holds, 1 600 states |
| `FilesTable` | Is an entry one descriptor's and faithful to it without sharing, and what remains with dup, dup2 and inheritance? | 2 tasks; alone 4 entries, 3 descriptors, kills, cut-off ends, exec, full tables; sharing 3 entries, 2 descriptors, exec, kills | holds, 404 000 states |
| `FilesPipeLeak` | Is a fully closed pipe cleared? | 3 entries, 1 task | **violated** |
| `MemoryOwned` | Is a page handed out once, mapped to its block, and returned? | 14 pages, 3 tasks, 2 blocks each of 1, 2 (1.5) and 3 pages; kills, short returns | holds, 35 000 states |
| `Ext2Crash` | After any calls and power cuts, who owns a block, what does a name stand for, whose data is in the blocks of a file? | 6 blocks from 0, one group, 2 inodes to give out, 2 names, 2 open files, blocks of 2 cells, 3 pointers; size to 4 | holds, 1 370 000 states |
| `Ext2Format` | The same ownership with blocks of 1 KiB | 9 blocks, first data block 1 | **violated** |
| `Devices` | Is a song heard in order to its end, and its memory not read once it is returned? Do bytes of two devices reach their handlers? Is the viewport in front offered keys that are down? Do answers reach who asked? Are list, focus and borrowed index of the viewports consistent? Does a file in memory keep its bytes? | with and without a card, 2 players, songs of 1 to 13 frames, halves of 4, 2 entries of the timer; 2 keys and 2 packets, the second overflown; 4 presses, releases of 4 keys and changes of the front, buffer of 2; 2 programs over 3 pids, queue of 2; 2 programs of 3 starts, 3 viewports; 3 pages of 2 bytes, a file of up to 3 | holds, 769 000 states |
| `ProcPause` | Is the task paused that was named? | 3 tasks, pids to 3 | **violated** |

Why the bounds are enough: three tasks give a runner, a candidate and one that is passed
over; two slots and windows give a right and a wrong choice. With pids to 4 (`TasksReuse`,
`TasksOrphan`) a task is started in the index, the slot and the window that another has
given up or is giving up, and every stale reference needs one such reuse; with pids to 3
`TasksHostile` reuses the index of a kernel that was killed, and `TasksSwitch`, whose
questions are about the choice of the next task, reuses none. Its programs do not take the
lock, as a program that keeps it starves all others; that switches are due with the lock
held and released anywhere is proved. A buffer of four with nine bytes
wraps through two resets with a partial read in each. Four entries hold two standard
descriptors and both ends of a pipe. Fourteen pages leave five that are handed out, so that
blocks of three pages fail or fit depending on the holes left by the others, and one block
of each size is rounded up. On the disk three free blocks are one for each of two files and
one more, so that the disk fills up in the middle of a call; three pointers make the second
extension meet the last slot. Songs of 1 to 13 frames in halves of 4 end in the first half, at its
edge, within the second and the fourth; entries of 3 frames do not divide the halves, so that
a reading meets every offset; `Word` is 64 so that the count of bytes wraps. Two keys and
two packets are enough for an interrupt to stand for two bytes on either side, and each byte
of a packet may look like a first one. Four events hold shift and a letter pressed and let
go in every order, or a key that is pressed and let go around two changes of the front, and a buffer of two wraps within them. Three starts among two programs
reuse one slot and one viewport. A file of up to three bytes in pages of two has no page,
one and two, ends at a page's edge and within one, and finds its next block beside itself,
before itself or nowhere. `HandlersAtHome` and `NoSilentLoss` promise nothing past a
mark, and are checked up to the step that makes it; the list and the focus are checked past
"early" and "twice". Deadlock is checked where the system cannot stop (`PipeStream`,
`MemoryOwned`); in the others programs may all end, or the bound on pids, keys or entries is
reached, or a disk without super block is not mounted.

What belongs together is one property of a run: `BytesArrive` is `KeysInOrder` and
`PacketsWhole`, `KeysAgree` is `ModifiersAgree` and `NoStuckKey`, `QueueServes` is
`OwnAnswer` and `HeldIsAwaited`, `BorrowsAndReturns` is `Restored` and `HandlersAtHome`,
`ListAndFocus` is `ListAgrees` and `FrontIsAwake`, `Returned` of `Memory` is `Accounted` and
`Sealed`, `FileWhole` is `KeepsContent` and `SparesOthers`, `TableIsSound` of `MCFiles` is
`Private`, or with sharing `FreeIsBlank` and `PipeEnds`, and `FollowsDescriptor` is `Faithful`
and `Reclaimed` of `Files`. The types of `Tasks` and `Pipe`, and
`InOrder` of `Pipe`, are proved for all values of the constants (section 4), and the runs do
not repeat them.

Mutants: each property has in its module a mutated definition (`...M`), the way a plausible
mistake would change the code, under which TLC finds the property violated.

### What the violated runs show
* `TasksOrphan`: `task_get_available` (`multitasking.c:73`) takes any inactive slot, also
  that of the running task once it was stopped. A task it then starts may land in that
  slot; the next switch saves the registers of the stopped thread over the new ones, and
  the new task is never executed. `multitasking.h:81` says "Create new task instance and
  execute it."
* `FilesPipeLeak`: `vfs_close` (`vfs.c:158`) frees an entry only for the end of the pipe
  that is closed last. The other keeps its entry for ever, although `vfs.c:159` says "Pipe is
  fully closed. Clearing FD".
* `Ext2Format`: `ext2_get_freeBlockIdx` (`ext2.c:397`) takes bit i of the map for block i.
  With blocks of 1 KiB the map begins at block 1, so the first clear bit names the last
  block in use; `src/Makefile:128` formats with "mkfs.ext2 -r 1 -b 1024 fstest.img". The
  first file created clears and shares the block of the root directory. Past the first group
  `Owned` fails too: the bits that are looked at are not on the disk.
* `ProcPause`: `proc_task_write_callback` takes the number of a request to pause or resume
  for an index of `tasks` (`proc.c:73`), and that of one to kill for a pid. The task program
  looks for the pid the user has named, says "Pausing %d - %s" (`utils/task/main.c:176`) and
  writes that pid. As soon as a slot was used twice, what is paused is not the task that was
  named, but another one, an empty slot or memory past the table.

Preconditions met on the way, which the passing runs leave out and the code does not
guarantee: `Exclusive` of `Memory` fails with the hazard "preempt" (a request between the
two calls of a driver gets the same pages) and with "full" (the -1 is used and the block
wraps to the kernel's pages); `Backed` fails with "reach" (an identity mapped block over
page 0x240, where the kernel's heap is mapped). `Owned` of `Ext2` holds for disks whose
first data block is 0 and that have one group, if no write fails: the disk driver reports a
failure as `false`, and `ext2_write_block` (`ext2.c:16`) looks for -1. `SizeBacked` of `Ext2`
counts the blocks of a file and does not say where they are: `ext2_extendFile`
(`ext2.c:514`) starts one slot too far, the slot it skips stays 0, and data written there
goes to block 0, the boot block or, with blocks above 1 KiB, the one with the super block
(`Crash` then finds a disk it does not mount). It is the second slot of every file that is
extended, so these files share block 0 and each shows there what another wrote last.
`DataInOwnBlocks` is about the blocks that were allocated: they hold the file's own data or
none, and what was written to the file is in them or in block 0, nowhere else; of what is
read from block 0 it says nothing.

`SourceHeld` holds with a card and for songs that are not `mingled`, `OfferedIsHeld` for a
viewport that had the desktop's last pass (section 2).

### Fairness
`TasksSwitch`: weak fairness of `Tick`, because the timer interrupt recurs and a tick that
finds the lock clear runs the scheduler; weak fairness of `KernelStep`, because the boot
code is straight-line code that holds the processor. Programs need not do anything.
`Devices`: weak fairness of `Dac` and `Tick` of `Audio`, as the card and the timer run on
their own whoever lives (`Ends` speaks of a machine with a card; without one the position stays 0
and a song is never over), and of the handlers of `Ps2`, as the controller raises an interrupt
for a byte and interrupts are taken; nobody is made to play, press a key or move the mouse.
`PipeStream`: weak fairness of reading and of nothing else: the promise is one to a reader
that polls.

## 4. Theorems

Proved for all values of the constants that satisfy the named assumptions of the modules
(sizes are naturals, positive where the table cannot be empty; hazards and schedule types
are among those listed).

| Theorem | Statement | Argument |
|---|---|---|
| `Tasks_proofs!TypeCorrect` | `Spec => []TypeOK` | inductive as it stands; one lemma per handler |
| `Tasks_proofs!OneRunningHolds` | at most one slot is marked as running, and it is the one `task_running_idx` names | inductive with types: with one mark the scan of `task_callback` finds it (`RunningFound`) |
| `Tasks_proofs!PidsUniqueHolds` | no two live tasks have one pid | with `PidsBelow`: live pids are below `pid_counter`, which only grows |
| `Tasks_proofs!ThreadIdentityHolds` | without the hazard "orphan" no live task resumes as the thread of another | `IdentityInv`: with `OneRunning`, `PidInv`, that a running slot means the processor has left the boot code (`OnProcessor`), and that `kernel_task` is alone until it has started init (`BootInv`); a new task gets a slot that is not on the processor, as its starter is live |
| `Pipe_proofs!PipeInvariant` | types, heads in the buffer, space that comes back, bytes in order | the conjunction is inductive |
| `Pipe_proofs!PipeIsStream` | `Spec => ImplementsStream` | step simulation under the invariant: a write appends, a read removes a prefix, the last close empties |

`ThreadIdentity` and `TasksOrphan` belong together: the hazard the theorem excludes is the
one the run violates a doc with.

### More about Tasks

| Theorem | Conditions | Argument |
|---|---|---|
| `MappedIsRunningHolds` | no "orphan" | beside `IdentityInv`: a switch maps the slot of the task it goes to, and nobody but the task that runs changes the slot |
| `SwitchIsDueHolds` | no "orphan", no "fault" (`page_error` takes task 0 whatever its schedule) | `CallbackDue`: the scan of `task_callback` stops at a task that is active and due, or goes nowhere |
| `SlotsExclusiveHolds` (run `TasksReuse`) | no "orphan", "kill", "killdead" | `SlotInv`: with `CallerSlot`, that the thread in `task_end` whose slot was given up already has it no more. It needs `CallerInv` (the thread on the processor is the one of `task_running_idx`, and one that was stopped is in `task_end`) and `KernelKept` (task 0 stays the kernel's) |
| `OwnedWindowsHolds` (run `TasksReuse`) | no "orphan", "kill" | `WindowInv`: the same for windows, with `CallerWindow` |

"kill" stays outside of the last two because the End key and the process file stop tasks
that are ending or have ended: they give up a slot or close a window that may be another's.

### Files

| Theorem | Conditions | Argument |
|---|---|---|
| `Files_proofs!FilesTypeCorrect`, `PipeEndsHold` | none | `TableInv`: types, `PipeEnds`, and that some pipe is named by no entry, from which `vfs_pipe` can take the next. Every action is composed of steps that open entries, that free them, or that make a pipe (`OpensFiles`, `FreesFiles`, `PipeMade`), and each of the three preserves it |
| `FreeIsBlankHolds` | no "cut" | each entry that is freed is made blank; an end that is cut off is between the two |
| `PrivateHolds`, `FaithfulHolds`, `ReclaimedHolds` | no "share" | `FdsInv`: what a descriptor names is in use, and named by no other. Every step adds descriptors for fresh entries or drops some (`AddsFds`, `DropsFds`); the two action properties follow from the same split |
| `MCFiles_proofs!BothTypeCorrect`, `TableStaysSound`, `DescriptorIsFollowed` | none; `Apart`: no "share" alone and no "cut" with sharing; no "share" alone | both settings are instances of `Files`, so each invariant holds of its setting |

### Memory

| Theorem | Conditions | Argument |
|---|---|---|
| `MemoryTypeCorrect` | none | one lemma per operation |
| `MemoryIsExclusive`, `MemoryIsBacked`, `MemoryIsReturned` | `Careful`: no "full", "preempt", "reach", and programs ask for identity mapped memory only | `MemInv` and `FoundInv`: region records are those of `MEM_populateRegions` (`RecordInv`), a block's regions are taken, and mapped to their own pages (`BlockInv`), blocks are apart, kernel and heap are whole (`KernelInv`), every region in no block is free or lost (`RestInv`); the block a driver has found stays free until it is reserved |

`Careful` is not a property of the code: section 3 says under "Preconditions" how each of
the three hazards breaks the statements.

### Ext2

| Theorem | Conditions | Argument |
|---|---|---|
| `Ext2TypeCorrect`, `HandleAgreesHolds` | none | `ShapeInv`: types of the disk, of the call in progress and of what it will write (`OpType`, `OpSlots`), pointers past the size are 0 (`Filled`), what an open file knows is what the inode said (`Keep`) |
| `OwnedHolds` | `OneGroup` | `BlocksInv`: each slot of each inode, and each block a call has taken and not yet written to an inode, is marked, past the tables and claimed once; it holds data of that inode or none |
| `DataInOwnBlocksHolds` | `OneGroup` | beside `BlocksInv`, `HomeInv`: data is written where the inode points (`Placed`), as a copy that is older than the inode agrees with it in each slot it knows (`HandleAgrees`), and an inode that is not marked or not yet written has no blocks (`Fresh`), so none are forgotten when it is made. It does not speak of what is in block 0 |
| `LinkedWholeHolds` | `OneGroup` | `LinkInv`: a call's inode has no name before `Link`, then one; named inodes are of a kind; blocks of directories hold entries and not data |
| `SizeBackedHolds` | `OneGroup` | `BackInv`: an inode has a block in each slot below its size but the one that is skipped, and a call in progress has filled the slots it has passed |

`OneGroup` says that blocks are counted from 0 and fit in one group. It is needed: the run
`Ext2Format` shows `Owned` violated without it. `Crash` is among the steps: the invariants
speak of the disk at each single write.

### Devices and Desktop

The components of `Devices` share no variables, so a theorem needs an invariant of its
component, and that the steps of the others leave it alone.

| Theorem | Conditions | Argument |
|---|---|---|
| `Devices_proofs!QueueServesHolds` | none; says what holds until a requestor has ended | `ProcInv`: an entry in use is held by the one who wrote it (`HeldByAsker`), a task has one at most (`OneEach`) and, with room for all, one as long as it waits (`HasEntry`) |
| `SourceHeldHolds` | none; says what holds with a card and of songs that are not `mingled` | `SourceInv`: a player between its description and its attach is the one the description names, unless songs were mingled, so the player whose song is named has at most been killed as long as the timer's function is attached: each detach removes it however often it is in the table |
| `BytesArriveHolds` | none; says what holds until bytes are crossed | `Ps2Inv`: what the handlers got, what is in the register and what is on the way are together what was sent (`KeyStream`, `MotionStream`), and the byte in the packet is the one its count says (`PacketStream`) |
| `KeysAgreeHolds`, `GetcTypedHolds`, `OfferedIsHeldHolds` | none | `KeyboardInv`: a prefix on the wire has its byte behind it (`WireInv`); shift and ctrl are what the last of their bytes on the wire says, or the flag when there is none (`ModifiersInv`); the driver's key lasts until some break code, and is the one that the viewport is offered if it had the last pass and no byte came since (`OfferInv`); a marked character has its key down or its break code on the wire, with no change of shift before it, until keys were mixed (`MapInv`); and what lies before the index was typed since the call began (`GetcInv`) |
| `InOrderHolds`, `StopsAtEndHolds` | none; say what holds until the count is astray | `AudioInv`: of one player at a time (`OnePlayer`), which half of the buffer holds which frames of the song (`Holds`), how far the source has been read (`ReadTo`) or, before the first tick, that the first half alone is filled (`Plenty`); that what was heard is the frames of the finished halves and those of the half the card is in, which is the one taken to be played or, for as long as no tick came, the other one, which is filled (`FollowsAt`); and how late the end is known (`OverrunAt`). The divisions of the converter and of the position register are solved by lemmas (`Converts`, `PositionIs`) |
| `FileWholeHolds` | none; says what holds until the file is disturbed | `BuffsInv`: the block has room for the file and its pages are nobody else's (`BlockInv`), a step of `fwrite` writes where room was made or nothing (`RoomMade`). A resize copies upwards, a recursive function: that there is one is proved by writing it down (`CopyIs`), and outside of the target it is the old content (`CopyKeeps`) |
| `Desktop_proofs!RestoredHolds` | none, with calls that overlap and programs that are killed | `CallInv`: index and memory are borrowed only with the lock set and the step that gives them back next (`HomeInv`) |
| `BorrowsAndReturnsHolds`, `NoSilentLossHolds` | none; say what holds without marks | `ViewInv`: `CallInv` and `RunInv`; while no calls overlap and nobody is killed `CalmInv`, that one task at a time is in a call, where a step may stand in it (`Laid`), and which places of the list are in use (`Counted`); without marks `CleanInv`, that a viewport belongs to the program that knows it, what is true while it is opened, closed and handled, and that the desktop tells the owner before it drops a viewport (`Warned`) |
| `ListAndFocusHolds` | none; says what holds until calls overlap or a program is killed | beside `ViewInv`, `FocusInv`: which viewports the list shows while one is linked, made, brought to the front or moved up (`ListInv`: `Linking`, `Making`, `Fronting`, `Shifting`); a program has one viewport from when it is made until it is closed (`HeldInv`, `Asks`); the program that executes and those that have not set a handler are awake (`AwakeInv`); the program in front is awake or a step that wakes it is still to come (`FrontInv`, `Due`); and a step that puts a program to sleep speaks of the second place, whose viewport is another program's (`Unfocuses`). That `count` is the number of open viewports is a bijection (`CountedPlaces`) |
| `DesktopTypesHold` | the component is the desktop; no calls have overlapped and no program was killed, or `Bounded` | `DeskInv`: a viewport that has a handler, that a program knows or that is to be returned has been made, so its owner is a program with a slot to map (`Homes`). `Bounded` is what the run does: `Beyond` ends a behaviour where calls overlap or a program is killed, and the step there changes no viewport (`LastTypes`) |
| `Devices_proofs!TypesHold` | the component is another one | `TypesInv`: of `Audio`, its types as they stand, with those of `SourceInv`; of `Ps2`, its types as they stand; of `Proc`, with the requests in the queue and the lists of tools; of `Keyboard` and `Buffs`, from the invariants above |

`Pipe_proofs!PipeRecycles` is the part of `PipeInvariant` the run checks.

### What the proofs have changed

* `LinkedWhole` was stated for every disk. The step for directories could not be proved: on
  a full disk a new directory gets block 0 and shares it with the next one, which the run's
  two inodes to give out were too few to show. It now speaks of disks whose super block
  is whole.
* `HeldIsAwaited` said that no request is refused. That held as the run has fewer tasks than
  entries; the code has 30 tasks and 10 entries (`proc.c:40`, `multitasking.h:71`). It now
  says so only when there are no more tasks than entries.

### Model-checked only

The liveness properties `Served`, `Delivered`, `Ends` and `Drained`: they need fairness and
what is enabled, which are out of the prover's reach. Every invariant and every action property
of the passing runs is stated by a theorem.

What a theorem says is bounded by its conditions. The types of the desktop are not claimed
once calls have overlapped or a program was killed: `count` is then no measure of the
places (a program that is killed between counting a place and taking it leaves it counted),
and with it a shift may read past the last place. Nothing is proved about the runs that are
expected to find a violation.

## 5. Not modelled

* The contents of files, memory, registers, packets and pixels; formatting and logging.
* ELF parsing, ACPI, PCI enumeration, interrupt descriptor set-up: run once, sequentially.
* The network stack is not started at this commit (`main.c:98-104` is commented out), and the
  probe of the Intel card returns before anything is set up: no execution reaches them. (Its
  process looks for work with interrupts on and then sets itself to NEVER, `netproc.c:286`: a
  request in between would be missed.) The desktop of the kernel (`src/src/desktop`) is an
  older copy of the driver and not started either (`main.c:108`).
* Disk controllers: one command at a time, issued and polled by the caller.
* The microphone, the HDA card, the speaker; resizing and dragging of windows. Of minimising
  there is the key of a viewport that is not shown (`FrontChanges`), not its events.
  Handlers that sleep when minimised are not woken to be told to exit; a window that is
  minimised is in front of nobody, and `FrontIsAwake` does not speak of it.
* Preemptible drivers that use the one block buffer of `ext2.c:9` at the same time: `Ext2`
  takes calls one after the other, as system calls are.
* The programs under `src/filesystem` are 9 of 10 lines of the repository: DOOM, games,
  examples, copies of the C library and of graphics libraries. They run on the kernel through
  the calls that are modelled; what they compute is theirs. Only the desktop driver, the task
  program, the driver of files in memory with `fwrite`, the other drivers' use of memory and
  the calculator's life are taken from there.
* A second processor: `ap_startup.c` parks the others.
* Negative lengths given to pipes; programs pass natural numbers.

## 6. Plan

1. *Done.* `Tasks` and its theorems; `Pipe`, `ByteStream` and the refinement theorem;
   `Files`; `Memory`; `Ext2` with power cuts.
2. *Done.* `Proc`, `Keyboard`, `Ps2`, `Audio`, `Desktop`, `Buffs`, and `Devices` over them;
   `MCFiles`.
3. `SysFs`: devices whose callbacks run with their owner's memory at address 0, composed with
   a reduced task table.
4. `Ext2` against an abstract set of files with contents; writes that fail; indirect blocks.
5. `NetProc`, when the stack is started: the queue, the sleeping process and its two flags.
6. *Done.* The theorems of section 4.
7. Theorems still to prove: those of `SysFs` and `NetProc`, and that `Ext2` implements its
   abstract set of files, when they are written.
