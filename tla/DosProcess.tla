------------------------------ MODULE DosProcess ------------------------------
(***************************************************************************)
(* One run of a DOS program, from run_machine (programs/main.cc) through   *)
(* the pseudo process `shell' (libvx68kdos/shell.cc) and the execution     *)
(* context (libvx68kdos/doscontext.cc): the processes' blocks on the heap  *)
(* of DosHeap, the descriptors of FileTable, and what each of the ways out *)
(* gives back: _EXIT2, a fault of the processor, an exception of the host, *)
(* a cancellation of the thread.                                           *)
(***************************************************************************)
EXTENDS Integers, FiniteSets

CONSTANTS
  Address, Lim, Lengths, Pointers,         \* of DosHeap
  NFILES, Context, File, HostFd, NULL,     \* of FileTable
  ShellSize,     \* of the shell's block: 0x2000
  EnvSizes,      \* sizes of environment blocks
  PspSize,       \* what precedes an image in its block: 0xf0
  ImageSizes,    \* text and data of programs
  Fixups,        \* places of fix-ups, counted from the start of an image
  MapsBehind,    \* of each machine, the addresses behind main memory that
                 \* take a supervisor's stores
  Ctx            \* the context that create_context makes

VARIABLES
  blocks, heapRet,                           \* of DosHeap
  table, held, files, hostOpen, fileRet,     \* of FileTable
  pc,        \* where run_machine is
  pdb,       \* current_pdb
  shell,     \* the shell's pdb
  child,     \* the program's block, as load returns it
  stored,    \* where load has stored, until the program starts or the shell goes
  thrown     \* an exception is on its way out of exec

Heap  == INSTANCE DosHeap WITH ret <- heapRet
Files == INSTANCE FileTable WITH ret <- fileRet

(* The heap starts at 0x8000 and has megabytes: the shell, the environment *)
(* and the PSP of a program find room (malloc's result is not checked).    *)
(* A fix-up's place is the sum of 32-bit displacements before it.  Sums    *)
(* that go round the address space come out below the image, where they    *)
(* could change the headers of blocks: Fixups has none of those.           *)
ASSUME ProcessAssumption ==
  /\ Address \in Nat \ {0} /\ Lim \in Nat /\ Lengths \subseteq Nat /\ Pointers \subseteq Nat
  /\ NFILES \in Nat /\ NFILES >= 5 /\ NULL \notin File \cup HostFd
  /\ ShellSize \in Nat /\ PspSize \in Nat \ {0}
  /\ EnvSizes \subseteq Nat /\ ImageSizes \subseteq Nat
  /\ Fixups \subseteq Nat /\ MapsBehind \subseteq SUBSET Nat
  /\ Lim % Heap!HeaderSize = 0 /\ EnvSizes # {}
  /\ \A n \in EnvSizes :
       Heap!Root + 4 * Heap!HeaderSize + Heap!AlignUp(ShellSize) + Heap!AlignUp(n) + PspSize
         <= Lim
  /\ Ctx \in Context

heapVars == <<blocks, heapRet>>
fileVars == <<table, held, files, hostOpen, fileRet>>
procVars == <<pdb, shell, child, stored, thrown>>
vars     == <<heapVars, fileVars, pc, procVars>>
-----------------------------------------------------------------------------
(* After dos's constructor.                                                *)
Init ==
  /\ Heap!Init /\ Files!Init
  /\ pc = "start" /\ pdb = 0 /\ shell = 0 /\ child = 0 /\ stored = {}
  /\ thrown = FALSE

(* create_context: the files, and the root block as current process.       *)
CreateContext ==
  /\ pc = "start"
  /\ Files!CreateContext(Ctx)
  /\ pdb' = Heap!MemPtr(Heap!Root)
  /\ pc' = "shell"
  /\ UNCHANGED <<heapVars, shell, child, stored, thrown>>

(* Wrong: the root stays the current process.                              *)
NewShellNotCurrent ==
  /\ pc = "shell"
  /\ Heap!Malloc(ShellSize, pdb)
  /\ shell' = heapRet'.value
  /\ pc' = "env"
  /\ UNCHANGED <<fileVars, pdb, child, stored, thrown>>

NewShell ==
  /\ pc = "shell"
  /\ Heap!Malloc(ShellSize, pdb)
  /\ shell' = heapRet'.value /\ pdb' = heapRet'.value
  /\ pc' = "env"
  /\ UNCHANGED <<fileVars, child, stored, thrown>>

CreateEnv ==
  /\ pc = "env"
  /\ \E size \in EnvSizes : Heap!Malloc(size, pdb)
  /\ pc' = "load"
  /\ UNCHANGED <<fileVars, procVars>>

(* Addresses that take a supervisor's stores, on a machine with the map    *)
(* `behind'.  Where there is nothing a store is a bus error; with 12       *)
(* megabytes of memory the graphics VRAM is right behind it, and takes all.*)
Taken(addresses, behind) == \A a \in addresses : a < Lim \/ a \in behind

(* What a program's file fills, from the memory p of its block: the PSP,   *)
(* with a name that it has room for, text and data, and the long words     *)
(* fixed up, anywhere from the image on.                                   *)
Psp(p)          == p .. p + PspSize - 1
Image(p, size)  == p + PspSize .. p + PspSize + size - 1
FixedUp(p, fix) == UNION {p + PspSize + f .. p + PspSize + f + 3 : f \in fix}

(* load_executable, from a file with that much text and data, whose first  *)
(* fix-ups are `fix'; nothing in it looks at the block.  The file may not  *)
(* be read; a bus error ends the copying of the image; an end of the file, *)
(* an odd fix-up or one to no memory ends the fixing up.                   *)
LoadExecutable(p, size, fix, behind) ==
  \/ stored' = Psp(p) /\ thrown' = TRUE
  \/ /\ ~Taken(Image(p, size), behind)
     /\ stored' = Psp(p) \cup {a \in Image(p, size) : Taken(p .. a, behind)}
     /\ thrown' = TRUE
  \/ /\ Taken(Image(p, size) \cup FixedUp(p, fix), behind)
     /\ stored' = Psp(p) \cup Image(p, size) \cup FixedUp(p, fix)
     /\ thrown' \in BOOLEAN

(* Wrong: room for the PSP only.                                           *)
LoadIntoPsp ==
  /\ pc = "load"
  /\ Heap!Malloc(PspSize, pdb)
  /\ child' = heapRet'.value
  /\ \E size \in ImageSizes, fix \in SUBSET Fixups, behind \in MapsBehind :
       LoadExecutable(child', size, fix, behind)
  /\ pc' = IF thrown' THEN "leave" ELSE "loaded"
  /\ UNCHANGED <<fileVars, pdb, shell>>

(* Wrong: the header's address for the memory's.                           *)
LoadHeader ==
  /\ pc = "load"
  /\ Heap!MallocLargest(pdb)
  /\ child' = Heap!BlockOf(heapRet'.value)
  /\ \E size \in ImageSizes, fix \in SUBSET Fixups, behind \in MapsBehind :
       LoadExecutable(child', size, fix, behind)
  /\ pc' = IF thrown' THEN "leave" ELSE "loaded"
  /\ UNCHANGED <<fileVars, pdb, shell>>

(* load: the rest of the memory, and the program into it.                  *)
Load ==
  /\ pc = "load"
  /\ Heap!MallocLargest(pdb)
  /\ child' = heapRet'.value
  /\ \E size \in ImageSizes, fix \in SUBSET Fixups, behind \in MapsBehind :
       LoadExecutable(child', size, fix, behind)
  /\ pc' = IF thrown' THEN "leave" ELSE "loaded"
  /\ UNCHANGED <<fileVars, pdb, shell>>

(* exec makes the program the current process and starts it.               *)
Start ==
  /\ pc = "loaded"
  /\ pdb' = child /\ stored' = {}
  /\ pc' = "running"
  /\ UNCHANGED <<heapVars, fileVars, shell, child, thrown>>
-----------------------------------------------------------------------------
(* _MALLOC and _SETBLOCK; there is no instruction for _MFREE.              *)
HeapCall ==
  /\ pc = "running"
  /\ \E len \in Lengths :
       Heap!Malloc(len, pdb) \/ \E p \in Pointers : Heap!SetBlock(p, len)
  /\ UNCHANGED <<fileVars, pc, procVars>>

(* _OPEN, _CREATE, _DUP and _CLOSE.                                        *)
FileCall ==
  /\ pc = "running"
  /\ \/ Files!OpenCon(Ctx) \/ Files!OpenRegular(Ctx) \/ Files!OpenFail(Ctx)
     \/ \E fd \in Files!Fd : Files!Dup(Ctx, fd) \/ Files!Close(Ctx, fd)
  /\ UNCHANGED <<heapVars, pc, procVars>>

(* start returns: after _EXIT2, which throws quit_loop, or with 255 after  *)
(* an exception of the processor.                                          *)
Return ==
  /\ pc = "running"
  /\ pc' = "leave"
  /\ UNCHANGED <<heapVars, fileVars, procVars>>

(* An exception that start does not catch, such as that of an IOCS call    *)
(* that is not there.                                                      *)
Throw ==
  /\ pc = "running"
  /\ thrown' = TRUE
  /\ pc' = "leave"
  /\ UNCHANGED <<heapVars, fileVars, pdb, shell, child, stored>>

(* A cancellation, in a build whose cancellations run no destructors; in   *)
(* others it is like an exception.                                         *)
Cancel ==
  /\ pc = "running"
  /\ pc' = "cancelled"
  /\ UNCHANGED <<heapVars, fileVars, procVars>>
-----------------------------------------------------------------------------
(* Wrong: frees first.                                                     *)
LeaveFreeingFirst ==
  /\ pc = "leave"
  /\ Heap!MFree(shell)
  /\ pc' = IF thrown THEN "ended" ELSE "delete"
  /\ UNCHANGED <<fileVars, procVars>>

(* The shell's destructor, on every way out of exec: its parent becomes    *)
(* the current process,                                                    *)
Leave ==
  /\ pc = "leave"
  /\ pdb' = Heap!MemPtr(blocks[Heap!BlockOf(shell)].parent) /\ stored' = {}
  /\ pc' = "free"
  /\ UNCHANGED <<heapVars, fileVars, shell, child, thrown>>

(* and its block is freed.  An exception goes on out of run_machine.       *)
FreeShell ==
  /\ pc = "free"
  /\ Heap!MFree(shell)
  /\ pc' = IF thrown THEN "ended" ELSE "delete"
  /\ UNCHANGED <<fileVars, procVars>>

(* Wrong: leaves the last slot.                                            *)
DeleteContextShort ==
  /\ pc = "delete"
  /\ Files!Destroy(Ctx)
  /\ pc' = IF held'[Ctx] <= 1 THEN "ended" ELSE "delete"
  /\ UNCHANGED <<heapVars, procVars>>

(* delete c: one reference after the other.                                *)
DeleteContext ==
  /\ pc = "delete"
  /\ Files!Destroy(Ctx)
  /\ pc' = IF held'[Ctx] = 0 THEN "ended" ELSE "delete"
  /\ UNCHANGED <<heapVars, procVars>>

Ended == pc \in {"ended", "cancelled"} /\ UNCHANGED vars

Next ==
  \/ CreateContext \/ NewShell \/ CreateEnv \/ Load \/ Start
  \/ HeapCall \/ FileCall
  \/ Return \/ Throw \/ Cancel
  \/ Leave \/ FreeShell \/ DeleteContext
  \/ Ended

Spec == Init /\ [][Next]_vars
-----------------------------------------------------------------------------
(* Which of the things it makes run_machine has at each place.             *)
HasShell == pc \in {"env", "load", "loaded", "running", "leave", "free"}

TypeOK ==
  /\ pc \in {"start", "shell", "env", "load", "loaded", "running", "leave", "free",
             "delete", "ended", "cancelled"}
  /\ pdb \in Nat /\ shell \in Nat /\ child \in Nat /\ stored \subseteq Nat
  /\ thrown \in BOOLEAN
  /\ HasShell => Heap!BlockOf(shell) \in Heap!Live
  /\ pc \in {"loaded", "running"} => Heap!BlockOf(child) \in Heap!Live
  /\ held[Ctx] = Files!NSLOTS \/ pc \in {"start", "delete", "ended"}

(* The current process, for which every _MALLOC allocates, is live from    *)
(* the moment there is one until the end, in the shell's destructor too.   *)
CurrentProcessLive == pc # "start" => Heap!BlockOf(pdb) \in Heap!Live

(* However large a program is, wherever behind its start it has fix-ups    *)
(* and whatever is behind the memory, of the heap load changes nothing but *)
(* what is in the program's own block.  load_executable never looks at the *)
(* block: what is too large may run out of the memory, into the graphics   *)
(* VRAM of a machine with 12 megabytes, but not into another's block.      *)
LoadSparesHeap ==
  \A a \in stored : a < Lim => child <= a /\ a < blocks[Heap!BlockOf(child)].end

(* Whatever a program did and however it ended, the shell's destructor     *)
(* gives back all of the heap: what the program allocated, the program's   *)
(* block, the environment and the shell's block.                           *)
HeapGivenBack == pc \in {"delete", "ended"} => Heap!Live = {Heap!Root}

(* A program that ends by itself leaves no file open, though it closed     *)
(* none and duplicated some.                                               *)
FilesGivenBack == pc = "ended" /\ ~thrown => Files!LiveFile = {} /\ hostOpen = {}
==============================================================================
