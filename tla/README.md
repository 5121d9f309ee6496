# Verification of vx68k

TLA+ models of vx68k, a virtual machine for X68000 programs, with TLC runs and
TLAPS proofs.  Paths are relative to the repository (`src/` here).

The commit is in the middle of a renaming: the sources of `libvx68kdos` include
`vx68k/human.h`, which is not there, and `libvx68kdos/vx68k/dos` declares the same
classes under their new names.  The models follow the `.cc` files; that header is
cited for what only a declaration shows.  `libvm68k`, the processor, is an empty
submodule: what it does is taken from how the code uses it.

## Inventory

| Component | Code | State | Operations |
|---|---|---|---|
| DOS heap | `libvx68kdos/allocator.cc` | 16-byte headers in guest memory, linked both ways; `last_block` | `alloc`, `alloc_largest`, `resize`, `free`, `free_by_parent` |
| DOS files | `libvx68kdos/doscontext.cc`, `filesystem.cc` | `std_files`, `files` of a context; the map of file objects to counts; host descriptors | constructor, destructor, `open`, `create`, `dup`, `close`, `ref`, `unref` |
| DOS programs | `doscontext.cc`, `shell.cc`, `dos.cc` | current process block, registers | `load`, `start`, `exit`, `_SUPER`, the shell's constructor, `exec` and destructor |
| Timers | `libvx68k/crtcmem.cc`, `opmmem.cc` | start times, intervals, counter, status | `check_timeouts`, `set_vdisp_counter_data`, `set_reg`, `set_interrupt_enabled`, `_VDISPST`, `_OPMINTST`, `_OPMSET` |
| Text screen | `libvx68k/textvram.cc`, `palettemem.cc`, `libvx68k-gtk/gtkconsole.cc` | VRAM, marks per row, palettes and their flag, the window's rows | writes, `draw_char`, `scroll`, `fill_plane`, `mark_update_area`, `row_changed`, `scan_row`, `handle_timeout` |
| Threads and keys | `programs/main.cc`, `gtkconwin.cc`, `libvx68k/machine.cc` | two threads, GDK's lock, `key_queue` with mutex and condition, `vm_status` | `boot`, `run`, `join`, `queue_key`, `peek_key`, `get_key`, `set_status_text` |
| Text console | `machine.cc` (`b_putc`) | cursor, saved first byte | `b_putc`, `b_print`, the cursor calls |
| Mouse | `libvx68k/sccmem.cc` | position, motion, bounds, buttons | the `_MS_` calls, GTK's events, `track_mouse` |
| IOCS, system ROM | `libvx68k/systemrom.cc`, `machine.cc` (`boot`), `dos.cc` | vectors, supervisor state, stacks, activations of `run` | traps, `_B_INTVCS`, `_B_SUPER`, `_SUPER`, `_SUPER_JSR`, exceptions of a booted program |
| Dates | `systemrom.cc`, `dos.cc` | the host's clock | `_DATEGET`, `_DATEBIN`, `_DATEASC`, the same of times, `_GETDATE`, `_GETTIM2` |
| Floppy disks | `libvx68k/iocsdisk.cc`, `machine.cc` | units and their images | `load_fd`, `unload_fd`, the `_B_` disk calls, `boot` |
| Memory | `main_memory.cc`, `areaset.cc`, `sram.cc` | protected size, SRAM file | loads and stores, the area set register, the SRAM's constructor |
| Devices | `dmacmem.cc`, `fdcmem.cc`, `mfpmem.cc`, ... | two statuses that alternate | loads and stores |
| Font ROM | `libvx68k/fontrom.cc` | the glyphs | `copy_data`, `_FNTADR`, `_FNTGET` |
| The rest | GL, menus, `intl`, `getopt` | none of the machine's | |

How they interact.  There are two threads.  GTK's runs the main loop: key and mouse
events, a 10 ms timeout that checks the timers and raises interrupts, a 40 ms
timeout that redraws changed rows.  The VM's runs the program: a DOS program calls
the DOS calls (heap and files) and the IOCS, a booted floppy the IOCS only.  They
share the chips (a mutex each), the text VRAM (whose mutex only one side takes),
the key queue (mutex and condition), GDK's lock, and the cancellation by which the
main thread ends the other.

Hard behaviours: drawing against redrawing; setting up an interrupt against its
check; checks that come late on wrapping words; a wait for a key against a key
press and a cancellation; the end of the program, the window and the threads in
every order; a heap that fragments, and a recursion that unlinks what it walks on;
counts of shared objects.  `PROJECT.json` lists each at its line under `hazards`.

What makes each correct: blocks never overlap and none outlives its owner; counts
equal the references there are; an interrupt comes when and only when its timer
says so; what the window shows is what the VRAM holds; no key and no wakeup is
lost; the program can always be closed.  A call leads back to the program with the
stacks and the state it was made with; user state keeps out of what is protected;
the screen shows the last lines that were written; the mouse's motion adds up to the
way it went; a disk read brings the records asked for; the SRAM has its settings
however its processes stopped; what calls tell of a character or a date agrees.

## Modules

| Module | What it models |
|---|---|
| `DosHeap` | the abstract heap: atomic calls on a map of blocks |
| `MemoryAllocator` | the heap as coded, loop by loop, refining `DosHeap` |
| `FileTable` | descriptors, counted file objects, host descriptors |
| `DosProcess` | one run of a DOS program, composed of `DosHeap` and `FileTable` |
| `Timers` | VDISP interrupts, OPM timers A and B, the IOCS calls that set them |
| `TextScreen` | text VRAM, marks and palettes between the two threads |
| `Application` | the two threads, the key queue, GDK's lock, shutdown |
| `Supervisor` | calls from a program into the emulator and back: traps, state, stacks |
| `AddressSpace` | the memory map, main memory and its protection, the devices |
| `TextConsole` | `b_putc`, beside the paper on which all lines stay |
| `Mouse` | the GTK thread's events and ticks between the program's calls |
| `Floppy` | image files, disk calls, the read of `boot` |
| `Fonts` | the font ROM's places and the conversion of character codes |
| `Sram` | processes that share the file "sram", and stop and start |
| `Calendar` | dates and times in their forms, while the clock goes on |
| `DosHeapProofs`, `MemoryAllocatorProofs`, `FileTableProofs`, `DosProcessProofs`, `ApplicationProofs`, `TimersProofs`, `TextScreenProofs`, `MachineProofs` | theorems |
| `MC...` | instances for TLC; `MCTimers` adds two history variables, `MCMachine` takes nine components together |

Definitions under a comment that begins with *Wrong:* are what the code might be by
mistake.  No specification uses them; each is put in the place of the definition it
precedes to see that a property notices (`mutants` in `PROJECT.json`).

### DosHeap and MemoryAllocator

`DosHeap!blocks` maps a header's address to its end and parent.  Its actions are
the five calls.  `Malloc` takes the highest gap that is long enough, as the code
does by walking down from `last_block`; a refusal tells the longest gap.  `MFree`
removes a block with all it owns, `FreeByParent` all it owns.

`MemoryAllocator!mem` has the headers with their links.  `call` is the call in
progress, `scan` the local variables of its loop, `frames` the stack of
activations of `free_by_parent`.  Every turn of a loop is an action (`AllocNext`,
`FreeHere`, ...), `Descend` is the recursive call, `Ascend` its return with
`remove_block` and the read of the unlinked header.  Arithmetic is modulo `W`.
The unlinked headers are dropped when the call ends: no call reads them later, and
TLC would stop if one did.  The refinement maps `blocks` to the linked headers,
less those that a free in progress has decided on (`Doomed`), so a free takes
effect when it finds its block.

Callers free no root block, and allocate for a live process block: DOS's current
process is set by the shell only.

### FileTable

The five `std_files` and the `NFILES` descriptors are slots of one table.  Each call
is an action, with its checks in the code's order.  The destructor is not: each
slot it drops is a step, so that calls of another context come between.  `held`
counts the slots it has not come to.  The host gives any descriptor that is not
open, or refuses.

### DosProcess

`pc` is the place in `run_machine`, from `create_context` by the shell's constructor,
`load` and `start` to the shell's destructor and `delete c`.  The heap and the files
are instances of `DosHeap` and `FileTable`: a step of this module is one of theirs, or
changes neither.  In `running` the program makes the DOS calls that change them;
`_MFREE` is not among them, for no instruction is installed for it.  There are
three ways out: `start` returns, an exception passes through `exec` (and leaves out
`delete c`), or a cancellation ends the thread without destructors.

`LoadExecutable` copies the image without a look at the program's block, then fixes
up long words at places that the file gives.  What stops it is a bus error where no
address takes a store: right behind main memory with up to 11 MB of it, but with 12
MB (`main.cc:358`) main memory ends where `machine::configure` has the graphics VRAM,
which takes all stores.  So `MapsBehind` is the set of what may take stores behind main
memory, and an image too large is loaded where that lets it.  `stored` keeps the
addresses that load has stored in until the program starts.

`ProcessAssumption` gives the shell, the environment and a program's PSP their room:
the code uses `malloc`'s results unchecked.  Neither a program nor its file writes over the
headers of blocks, which nothing hinders them from: a program by any store, a file by
displacements whose sum goes round the address space and comes out below the image.

### Timers

`sinceV`, `sinceA` and `sinceB` are the times from a start time to the last check,
modulo `W`: a start time is only compared with the time of a check.  A check takes
each chip's mutex; the chips share nothing, so a check of both is one step.
`track_mouse`, which `check_timers` also calls, shares nothing with them either.
`_VDISPST` and `_OPMINTST` are two steps, the vector and the enabling.  Members that
no constructor sets start with any value of `Garbage`.

### TextScreen

A drawing writes rows one by one, then marks them word by word: `vector<bool>` packs
its elements, so setting one is a load and a store of its word (`MarkLoad`,
`MarkStore`), and so is clearing one (`ClearLoad`, `ClearStore`).  The mutex of
`mark_update_area` excludes nothing, since `row_changed` does not take it, and is
left out.  The image of a row is one value.  What the palettes' mutex covers is one
step.

### Application

`main` and `vm` are the places in the code where the two threads are, with a step for
each change of what they share.  `Sense` is `peek_key`'s look without the mutex,
which may find anything while the other thread pushes.  `SpuriousWakeup` is POSIX's.
A cancellation is noticed in `iocs_trap`, in the host's calls, in `peek_key` when the
queue looked empty, and in the wait; in the wait it leaves the mutex locked or not,
as the build's cancellation runs destructors or not.  Keys are other than 0.

### Supervisor

`regs` has A7, USP, SSP, the state and the PC, `mem` the cells of the stacks that the
code writes.  A program's code is known by what it can do next (`Running`,
`MayOpen`); a handler of its own may answer a trap or an IOCS call, chain to the ROM,
or return.  `RomEntry` is the instruction 0xf84f that the ROM holds at its entries,
`RomFetch` what it holds elsewhere: an RTE.  `DosSuperJsr` starts another activation
of `run`; it would end in `JsrReturn` if `get_16` gave a bus error, which it does not
(finding 5), so that step is never taken.  `calls` is a history: which calls are
open, and the registers a program expects back from each.  Where the code hands an
exception to `run` with a PC of its own (`BootFault`), the program goes on where it
was last run from, and is not followed.

### AddressSpace

`Map` and `Device` are `machine::configure`'s map.  `Load` and `Store` hand an access of
one, two or four bytes, in supervisor or user state, to the device there, as the
address space does.  Of memory, VRAM and palettes a few words are kept, at the
boundary of the protected part; devices answer what their methods return.  The
processor makes aligned accesses only.  `stored` is a history: the byte last
stored at each address.

### TextConsole

A step is one `b_putc`, with every scroll and drawing it makes.  A row has 128 columns,
of which 96 show; a double-byte character is a left and a right half.  `lines` is a
history: all lines written, on which a character goes to a new line if the last one
has no room for it.

### Mouse

The GTK thread's steps are the events and the tick, the program's the calls.
`_MS_GETDT` takes the mutex three times, so it is three steps (`GetLeft`, `GetRight`,
`GetMotion`).  What the constructor leaves uninitialised is any value of `Garbage`.
`seen`, `start` and `reads` are a history: what a program has added up since where,
and how often it asked since the last tick.

### Floppy

A unit has an image of some records or none.  `ImageRead` goes on until all records are
read, the image ends, or the host fails.  `Crash` is a call through the NULL disk and
`abort`, `RangeError` an exception.

### Fonts

The three conversions from Shift-JIS are `ToJis`, unsigned in the calls and signed in
`draw_char`.  `Contents` is what `copy_data`'s two loops leave in the ROM; what they do
not reach is `Uncopied`.

### Sram

`at` is where each process is in the constructor; `Stop` comes anywhere.  Files that
users bring may be cut short, hosts may lack room.  `Put` does nothing, as in the
code.  `given` is a history: the settings in the user's file.

### Calendar

A call reads the clock once, and the conversions take what a former call gave.

### MCMachine

The heap and the eight modules above share no state, so one run takes them all: a
behaviour picks one `part` and runs it, while the other variables keep constants.
The states are the sum of the components' states and not the product.  Nothing is
lost by that: a step of one reads and writes nothing of another's, so an interleaving
of two shows each of them nothing that it does not do alone.

## Runs

| Run | Shows | Bounds |
|---|---|---|
| `allocator` | the list implements `DosHeap` and stays in order; every call returns; no walk stands on an unlinked header | room for five headers, owners nested in chains and branches |
| `machine` | the heap: `Layout`, `ParentsLive`, `Rooted` over all call sequences; `CallsBalance`, `LoadsSeeStores`, `UserKeepsOut`, `ScreenShowsLines`, `MotionAddsUp`, `ReadsRecords`, `GlyphsAgree`, `SettingsReady`, `DatesAgree`; the nine type invariants together | see below |
| `super_jsr` | *violation*: a `_SUPER_JSR` does not come back | three open calls |
| `allocator_wrap` | *violation*: lengths near 2^32 succeed with less | 256 for 2^32 |
| `file_table` | counts, dangling pointers, host descriptors | a context, six descriptors, four objects |
| `dos_process` | heap and files are given back; the current process is live; load changes nothing of the heap but the program's block | a program, five descriptors (all taken until it closes one), two file objects, one host descriptor; room for a few blocks of the program |
| `timers` | no interrupt without handler; timer A never early; VDISP interrupts come | words of 3 bits; checks in time and late |
| `opm_status` | *violation*: timer B's interrupts without timeouts | as `timers`, timer B |
| `opm_timer_b` | *violation*: timer B times out at every check | as `timers`, timer B |
| `text_screen` | palettes reach every row, and repair lost marks | two rows in a word |
| `text_marks` | *violation*: a mark is lost and a row stays stale | two rows in a word |
| `application` | keys in order, no lost wakeup, shutdown | two keys waiting |

Why the bounds are enough.  What goes wrong with a heap goes wrong with neighbours
and with chains of owners: four headers give a block with both neighbours, five a
tree with chains and branches.
In `dos_process` programs are such that fit, that end in the video memory behind main
memory and that are too large for that too; behind main memory there is nothing, video
memory, or a hole and then video memory; fix-ups lie in the image, across the end of
memory and behind it.  The program has room to split its block, and to be refused; two
objects are one that is shared and one that is not; the view drops what the calls
returned, which nothing reads later.  Two rows in one word are a lost update; a third adds
nothing, for words do not interact.  Three bits make each timer wrap within two late
checks.  Two keys show order.  `FileTable` has one context under TLC, with two its
states pass several millions; the theorems hold for any number.

`timers` starts timer A only: with timer B in play `opm_timer_b` shows how it spoils
A's start time, and `opm_status` its interrupts, so nothing is promised there.

Fairness.  `MemoryAllocator`: a call goes on, it takes no lock.  `Timers`: GTK calls
the timeout again and again.  `TextScreen`: the same, and a drawing that has begun
goes on.  `Application`: a thread that is inside a function of the code and can go
on does; the user, the program, and wakeups without a signal are not fair, so
nothing depends on them.

`machine`.  Heap: six headers, ends on and between paragraphs.  Supervisor: three
open calls, so that each kind nests in each and the outermost returns.  AddressSpace:
the words on both sides of the limit, every device, odd and even bytes, words and
long words, an address that wraps at 2^24.  TextConsole: four columns by two rows
and three lines, so that it wraps, scrolls, and cuts double-byte characters at the
edge; `TabSize` divides `Columns` as 8 divides 96.  Mouse: a screen of three points and
motions cut at two, so that both a whole and a cut one occur.  Floppy: a full
image, a short one, an empty one, none; both sides of each bound of a position;
8192 for 2^32.  Fonts: both sides of each boundary of the two bytes.  Sram: two
processes.  Calendar: both sides of the digits' carries.

`CHECK_DEADLOCK FALSE` in `machine` and `super_jsr`: a DOS or booted program ends,
a heap of which all is known stays, and a disk call may crash.

## Findings

1. `allocator.cc:178`, `:129`: lengths near 2^32 wrap (`allocator_wrap`).
2. `opmmem.cc:70`: `status() - ~old_status` is not the set of new bits
   (`opm_status`).
3. `opmmem.cc:65`: a timeout of timer B moves timer A's start time (`opm_timer_b`).
4. `textvram.cc:120`: `row_changed` takes no mutex and can undo a mark (`text_marks`).
5. `dos.cc:506`: `_SUPER_JSR` waits for a bus error that the ROM does not raise
   (`super_jsr`).

Noticed while reading, where no document or test of the repository says what should
be, so that no run expects it: a tab at column 96 takes the cursor to 104, and the
next characters are drawn off the screen (`machine.cc:58`); `_B_DRVCHK`, `_B_RECALI`
and `_B_READID` call a drive without image ready, and `_B_READ` then calls a NULL
object (`machine.cc:138`); a `_DATEASC` takes part of its year from the bits where
`_DATEBIN` leaves the weekday (`systemrom.cc:571`); 24-dot glyphs are never copied
(`fontrom.cc:306`); in `machine::boot` a handler for bus errors is set up and not run
(`machine.cc:215`); with 12 MB of memory a program too large for it loads all the same,
its end lost in the graphics VRAM (`doscontext.cc:256`, `gvideomem.cc:69`); a program's
name of more than 60 characters runs over its first instructions (`doscontext.cc:308`); `fgetc` at the end of a file returns an uninitialised byte
(`filesystem.cc:94`); `fputc` ignores a failed write (`filesystem.cc:108`).

## Proofs

`DosHeapProofs`: `TypeOK`, `Layout`, `ParentsLive` and `Rooted` for every heap, set of
lengths and set of pointers, from `HeapAssumption` (room for the root's header).  The
inductive invariant is `HeapInv`, the conjunction of the four: `ParentsLive` is
inductive only with `Layout` (a new header is not the address of another), and
`Rooted` says that there are no cycles, without which removing a subtree could
take an owner and leave what it owns.  A step lemma per action; `Subtree` is shown
closed and least once, and cited.

`MemoryAllocatorProofs`: `TypeOK`, `ListInOrder`, `WalksStayLinked` and
`ImplementsHeap` for every heap, width of a word and set of pointers, from
`AllocatorAssumption` and `NoWrap`: no length reaches over the end of a word.  The
code does not check that, and without it the refinement is false: `allocator_wrap`
is the counterexample, and `AllocatorGivesLength` shows that nothing else is behind
it.  The argument:

- `IsList(m, last, S)` says, without recursion, that the headers in `S` form one
  ascending list from the root to `last`, `next` and `prev` being each the other's
  inverse.  `ListReached` shows that then the recursive `Linked` is `S`;
  `MakeBlockList` and `RemoveBlockList`, that linking and unlinking keep it.  `Linked`
  is a recursive function, so what follows a list is proved by induction on its
  numbers (`SetInduction`) and not over the data.
- An abstract step is one of `DosHeap`, so `HeapInv` of `DosHeapProofs` holds of
  `HeapBlocks` all along: the proof of a step that takes effect shows the
  simulated step first, and gets `Layout`, `ParentsLive` and `Rooted` after it from
  `NextKeepsHeapInv`.
- `ScanInv` relates the local variables of each loop to the gaps it has passed:
  `alloc` has seen all those above the candidate, `maxFreeLen` is the longest of
  them, `resize` and `free` have not passed the block they look for.
- `FreeInv` is about `free_by_parent`'s activations: they are a path of owners down
  the tree, each stands on the block that the next one frees for, and above that
  block it has left none that it owns.  `Doomed` is then what is linked and not in
  `HeapBlocks`; when the outermost returns, nothing is.  `NoCycle` (an owner chain
  has no way back) makes the activations' owners distinct.

`FileTableProofs`: `TypeOK`, `RefCountExact`, `NoDangling`, `HostFdsOwned` for every number
of contexts, descriptors and objects.  The inductive invariant is `FileInv`, that is
`SlotsOK` (slots are typed, and held ones point to live objects) and `ObjectsOK`
(counts are cardinalities of the finite sets of holders; host descriptors match).
The first alone is not inductive: that the last `unref` leaves no slot behind needs
the exact count.

`ApplicationProofs`: `TypeOK`, `NothingRunsOn` and `SensedKeyIsNext` for any keys,
statuses and bound, from `ApplicationAssumption`.  `AppInv` adds to the two
invariants that a key about to be pushed has room, that there is no thread before
`Start` creates one (a thread with a lock would lose its place), and `SensedIsFirst`:
the key that was told is still the first in the queue and nobody waits.  The action
property follows from it, for a push comes behind and only `GetKey` takes.

`DosProcessProofs`: `TypeOK`, `CurrentProcessLive`, `LoadSparesHeap`, `HeapGivenBack` and
`FilesGivenBack` for any sizes of heap, shell, environments, programs and table, any
fix-ups and any map behind main memory, from
`ProcessAssumption`.  The invariants of `DosHeap` and `FileTable` are taken over by
instances of their proof modules, with a lemma for each call that both instances
mean the same.  `ProcInv` adds, place by place in `run_machine`, what they cannot know:
until a program is loaded the heap is packed, with all that is free behind its top
block (`Packed`), so each allocation goes right behind the last and the program's
block ends where memory ends (which is all that
`LoadSparesHeap` rests on); the shell's block is the root's only child
(`ShellOwns`), since a program allocates for itself.  Then all but the root is in the
shell's subtree, and one `free` takes it.  `FilesShape` says which contexts hold slots
where; when none is held, exact counts leave no object.

`TimersProofs`: `TypeOK` and `HandlerReady` for words of any width, and `TimerANotEarly`
under `AloneAssumption` (timer B is never started; with timer B running its own time is
not kept, `opm_timer_b`), and `NewTimeoutsOnly` under that and `QuietAssumption` (nor is
it let interrupt; when it is, the property fails, `opm_status`), since the subtraction
gives the new bits of a status that holds timer A's flag or nothing (`NewBitsOfA`).
`HandlerReady` needs `VectorsFirst`: whoever enables an interrupt, or has enabled it,
has a handler in its vector. `TimerANotEarly` needs `ATimeLeft`: the word that is kept
of the time since the last timeout is never more than the time that has passed less what
timeouts have used; an interval that is taken from it does not wrap, for a timeout has
compared them.

`TextScreenProofs`: `TypeOK` and `NoStaleColors` for any screen, any width of a word of
marks and any palettes, from `ScreenAssumption`.  The invariant has a part for each
load that a store answers later: `VmWordCovers` (the word the VM's thread is about
to store lacks no mark), `UiWordMarked` (what the GTK thread has loaded is still
marked), `LostAreNotNeeded` (a row with old colors whose mark its store takes away
will be scanned for another reason) and `CopiedColors` (colors that got old since
they were copied have set the flag).

`MachineProofs`, about `MachineSpec`: `MachineTypeOK`, the types of all the parts;
`SettingsReady` for any number of processes
(`SettingsGrow`: whole before sized, sized before set, and no step takes back what
another process has set); `MotionAddsUp` for any screen and motions
(`MotionInv`); `UserKeepsOut` and `LoadsSeeStores` for any memory size and addresses, from
`AddressAssumption`, with the bytes of each store compared to those of the `stored`
shadow, device by device (`MemTyped`, `Shadow`).  For any values of their parts' constants
too:

- `ScreenShowsLines` from `ConsoleInv`: after `Away` lines have scrolled away, each row is
  the paper's line so many further on and the cursor's row its last (`Shows`); a
  character beyond a line's end leaves the types (`Paper`).
- `DatesAgree` from `ClockRead`: what D0 holds in each form is a function of the moment that
  was read (`Holds`), so a conversion has to take the one to the other.  `Decimals` and
  `DosFields` are the arithmetic of BCD digits and of the fields of DOS's words.
- `GlyphsAgree`: the conversions of Shift-JIS come to the same row and column
  (`SjisColumn`, `RowAndColumn`), and what `copy_data` has put where `_FNTADR` points is
  that glyph (`WideGlyph`, `NarrowGlyph`).
- `ReadsRecords` from `ReadIs`: what was read are the records from the first one asked for
  on, inside the image, `Needed` of them if the read succeeded; a record's number and
  its place on the medium go on together (`FollowingIs`).
- `CallsBalance`, an action property, from `Balanced`.  Whatever the state is, the
  registers hold both stack pointers (`SuperSp`, `UserSp`), and `set_supervisor_state` moves
  neither (`SetStateIs`).  Each open call has its frame where its kind puts it (`Framed`,
  `ReturnsToRom`); the registers of the next call, or those of the processor, are the
  ones it was entered with (`Linked`); and the frames of the calls further in are below
  it (`Below`), so no push or pop disturbs it.  That holds of the calls opened since the
  last `_SUPER_JSR` (`Solid`): its routine's return reads what it finds (the finding
  `super_jsr`), after which the program runs on at a place from the stack or nowhere
  (`Stuck`).  Those below it never return, so the property still holds of every return.
- `MachineTypeOK` from `PartsTyped`, where some parts need more than their types: the
  pointers stay on the stacks' memory (`OnStacks`) because calls are `Balanced`, so a
  stack that is given back is one that was held and a push finds room; each
  `_SUPER_JSR` that is open has its activation (`JsrsAfterOpen`, `JsrsAfterClose`); the bytes
  of a store are bytes (`MemTyped`); what is read from a disk are records (`ReadIs`);
  the mouse's sums are numbers (`MotionInv`); the heap's types are `HeapInv`'s.

Only model-checked: liveness and everything with `ENABLED`, which TLAPS does not
have (so that every call of `memory_allocator` returns).

## Not modelled

The processor (not here); bitmaps and pixel formats; GL, the about window, menus and
options, which are calls of GTK; `intl` and `getopt`, which are copies of others'
code.  Of DOS files, what is read and written: the host's calls, passed on.  Of file
names, their translation.  Of the IOCS, `_TXXLINE` and the raster copies of the text
VRAM, which write and mark rows as `TextScreen`'s drawings do, and the calls that
move data between registers and memory only: `Supervisor` has them as one action.
