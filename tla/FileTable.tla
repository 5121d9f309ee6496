------------------------------ MODULE FileTable ------------------------------
(***************************************************************************)
(* The file descriptors of DOS programs: the tables of dos_exec_context    *)
(* (libvx68kdos/doscontext.cc) and the counted file objects that all       *)
(* contexts share in file_system (libvx68kdos/filesystem.cc), over the     *)
(* descriptors of the host.                                                *)
(*                                                                         *)
(* A context has five std_files and NFILES files; here they are the slots  *)
(* 0 .. 4 and 5 .. NFILES + 4 of one table, the order in which the         *)
(* destructor walks down, and DOS descriptor fd is slot fd + 5.            *)
(***************************************************************************)
EXTENDS Integers, FiniteSets

CONSTANTS
  NFILES,     \* descriptors of a context: 96 in the code
  Context,    \* the addresses execution contexts are created at
  File,       \* the addresses file objects are created at
  HostFd,     \* the descriptors the host has to give
  NULL

ASSUME FileAssumption ==
  /\ NFILES \in Nat /\ NFILES >= 5
  /\ NULL \notin File \cup HostFd

NSTD == 5
NSLOTS == NSTD + NFILES
Slot == 0 .. NSLOTS - 1
SlotOf(fd) == fd + NSTD

(* Descriptors that programs pass: the first one that is out of range      *)
(* stands for all of those, negative ones included, since they are         *)
(* compared as unsigned words.                                             *)
Fd == 0 .. NFILES

VARIABLES
  table,     \* the slots of each context
  held,      \* how many of a context's slots, from 0, still hold a reference
  files,     \* the live file objects: [refs, fd], with NULL for the console
  hostOpen,  \* the host descriptors that are open
  ret        \* what the last call returned

vars == <<table, held, files, hostOpen, ret>>
-----------------------------------------------------------------------------
LiveFile == DOMAIN files
Alive(c) == held[c] = NSLOTS

Init ==
  /\ table = [c \in Context |-> [k \in Slot |-> NULL]]
  /\ held = [c \in Context |-> 0]
  /\ files = [f \in {} |-> NULL]
  /\ hostOpen = {}
  /\ ret = 0

(* file_system::open: a new object, held once by the slot it is for.       *)
NewFile(f, fd, count) ==
  /\ f \in File \ LiveFile
  /\ files' = [g \in LiveFile \cup {f} |->
                 IF g = f THEN [refs |-> count, fd |-> fd] ELSE files[g]]

(* Wrong: the copy is not counted.                                         *)
RefUncounted(f) == UNCHANGED files

(* file_system::ref and unref; the last unref deletes the object, which    *)
(* closes the host's descriptor.                                           *)
Ref(f) == files' = [files EXCEPT ![f].refs = @ + 1]

(* Wrong: compares the count before it is decremented with zero.           *)
UnrefTooLate(f) ==
  IF f = NULL THEN UNCHANGED <<files, hostOpen>>
  ELSE IF files[f].refs > 0
  THEN /\ files' = [files EXCEPT ![f].refs = @ - 1]
       /\ UNCHANGED hostOpen
  ELSE /\ files' = [g \in LiveFile \ {f} |-> files[g]]
       /\ hostOpen' = hostOpen \ {files[f].fd}

(* Wrong: forgets the object but does not delete it.                       *)
UnrefNoDelete(f) ==
  IF f = NULL THEN UNCHANGED <<files, hostOpen>>
  ELSE IF files[f].refs > 1
  THEN /\ files' = [files EXCEPT ![f].refs = @ - 1]
       /\ UNCHANGED hostOpen
  ELSE /\ files' = [g \in LiveFile \ {f} |-> files[g]]
       /\ UNCHANGED hostOpen

Unref(f) ==
  IF f = NULL THEN UNCHANGED <<files, hostOpen>>
  ELSE IF files[f].refs > 1
  THEN /\ files' = [files EXCEPT ![f].refs = @ - 1]
       /\ UNCHANGED hostOpen
  ELSE /\ files' = [g \in LiveFile \ {f} |-> files[g]]
       /\ hostOpen' = hostOpen \ {files[f].fd}
-----------------------------------------------------------------------------
(* The constructor opens the console as std_files[0], and refers to it     *)
(* from the other std_files and from descriptors 0 to 4.                   *)
CreateContext(c) ==
  /\ held[c] = 0
  /\ \E f \in File : NewFile(f, NULL, 2 * NSTD) /\
       table' = [table EXCEPT ![c] = [k \in Slot |-> IF k < 2 * NSTD THEN f ELSE NULL]]
  /\ held' = [held EXCEPT ![c] = NSLOTS]
  /\ UNCHANGED <<hostOpen, ret>>

(* The destructor drops the references one slot after the other, from the  *)
(* last descriptor to std_files[0], and leaves the pointers as they are.   *)
Destroy(c) ==
  /\ held[c] > 0
  /\ Unref(table[c][held[c] - 1])
  /\ held' = [held EXCEPT ![c] = @ - 1]
  /\ UNCHANGED <<table, ret>>

Valid(c, fd) == fd < NFILES /\ table[c][SlotOf(fd)] # NULL

FirstFree(c, k) ==
  /\ k \in NSTD .. NSLOTS - 1
  /\ table[c][k] = NULL
  /\ \A j \in NSTD .. k - 1 : table[c][j] # NULL

Full(c) == \A k \in NSTD .. NSLOTS - 1 : table[c][k] # NULL

SetSlot(c, k, f) == table' = [table EXCEPT ![c][k] = f]

Fail(err) == ret' = err /\ UNCHANGED <<table, files, hostOpen>>

(* dup: -6 for a descriptor that is not open, -4 for a full table.         *)
Dup(c, fd) ==
  /\ Alive(c)
  /\ \/ ~Valid(c, fd) /\ Fail(-6)
     \/ Valid(c, fd) /\ Full(c) /\ Fail(-4)
     \/ /\ Valid(c, fd)
        /\ \E k \in Slot :
             /\ FirstFree(c, k)
             /\ SetSlot(c, k, table[c][SlotOf(fd)])
             /\ ret' = k - NSTD
        /\ Ref(table[c][SlotOf(fd)])
        /\ UNCHANGED hostOpen
  /\ UNCHANGED held

(* Wrong: the slot keeps its pointer.                                      *)
CloseKeepsSlot(c, fd) ==
  /\ Alive(c)
  /\ Valid(c, fd)
  /\ Unref(table[c][SlotOf(fd)])
  /\ ret' = 0
  /\ UNCHANGED <<table, held>>

Close(c, fd) ==
  /\ Alive(c)
  /\ \/ ~Valid(c, fd) /\ Fail(-6)
     \/ /\ Valid(c, fd)
        /\ Unref(table[c][SlotOf(fd)])
        /\ SetSlot(c, SlotOf(fd), NULL)
        /\ ret' = 0
  /\ UNCHANGED held

(* open of the console, whose object has no host descriptor.               *)
OpenCon(c) ==
  /\ Alive(c)
  /\ \E k \in Slot, f \in File :
       /\ FirstFree(c, k)
       /\ NewFile(f, NULL, 1)
       /\ SetSlot(c, k, f)
       /\ ret' = k - NSTD
  /\ UNCHANGED <<held, hostOpen>>

(* open and create of a file of the host: the host's open gives a          *)
(* descriptor that was not open.                                           *)
OpenRegular(c) ==
  /\ Alive(c)
  /\ \E k \in Slot, f \in File, fd \in HostFd \ hostOpen :
       /\ FirstFree(c, k)
       /\ NewFile(f, fd, 1)
       /\ SetSlot(c, k, f)
       /\ hostOpen' = hostOpen \cup {fd}
       /\ ret' = k - NSTD
  /\ UNCHANGED held

(* open and create that fail: no slot, a mode above 2 (open only), or the  *)
(* host's refusal.                                                         *)
OpenFail(c) ==
  /\ Alive(c)
  /\ IF Full(c) THEN Fail(-4) ELSE \E err \in {-12, -19, -2} : Fail(err)
  /\ UNCHANGED held

Next ==
  \E c \in Context :
    \/ CreateContext(c)
    \/ Destroy(c)
    \/ OpenCon(c)
    \/ OpenRegular(c)
    \/ OpenFail(c)
    \/ \E fd \in Fd : Dup(c, fd) \/ Close(c, fd)

Spec == Init /\ [][Next]_vars
-----------------------------------------------------------------------------
TypeOK ==
  /\ table \in [Context -> [Slot -> File \cup {NULL}]]
  /\ held \in [Context -> 0 .. NSLOTS]
  /\ LiveFile \subseteq File
  /\ files \in [LiveFile -> [refs : Nat \ {0}, fd : HostFd \cup {NULL}]]
  /\ hostOpen \subseteq HostFd
  /\ ret \in Int

(* The slots that hold a reference to f, those of a context that is being  *)
(* destroyed included as long as it has not come to them.                  *)
Holders(f) ==
  {h \in Context \X Slot : h[2] < held[h[1]] /\ table[h[1]][h[2]] = f}

(* A file object's count is the number of slots that hold it: it is not    *)
(* deleted under a descriptor that dup made, nor kept when the last        *)
(* descriptor is closed.                                                   *)
RefCountExact ==
  \A f \in LiveFile : files[f].refs = Cardinality(Holders(f))

(* No slot that can still be used, or that the destructor has still to     *)
(* drop, points to an object that is gone; unref's assertions never fail.  *)
NoDangling ==
  \A c \in Context, k \in Slot :
    k < held[c] /\ table[c][k] # NULL => table[c][k] \in LiveFile

(* Each open descriptor of the host belongs to exactly one live object,    *)
(* and when the last context is gone none is left open.                    *)
HostFdsOwned ==
  /\ \A f \in LiveFile : files[f].fd # NULL => files[f].fd \in hostOpen
  /\ \A f, g \in LiveFile : files[f].fd = files[g].fd /\ files[f].fd # NULL => f = g
  /\ \A fd \in hostOpen : \E f \in LiveFile : files[f].fd = fd
  /\ (\A c \in Context : held[c] = 0) => LiveFile = {} /\ hostOpen = {}
==============================================================================
