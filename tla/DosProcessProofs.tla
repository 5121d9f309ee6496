--------------------------- MODULE DosProcessProofs ---------------------------
(***************************************************************************)
(* Safety of DosProcess for any sizes of the heap, the table, the shell,   *)
(* the environment and the programs: what a run of a program takes of the  *)
(* heap and of the files, every way out gives back.  The invariants of     *)
(* DosHeap and FileTable, proved in their own modules, are part of its.    *)
(***************************************************************************)
EXTENDS DosProcess, TLAPS

HP == INSTANCE DosHeapProofs WITH ret <- heapRet
FP == INSTANCE FileTableProofs WITH ret <- fileRet

(* The assumptions of both modules.                                        *)
LEMMA PartsAssumed ==
  /\ Address \in Nat \ {0} /\ Lim \in Nat /\ HP!Root + HP!HeaderSize <= HP!Limit
  /\ Lengths \subseteq Nat /\ Pointers \subseteq Nat
  /\ NFILES \in Nat /\ NFILES >= 5 /\ NULL \notin File \cup HostFd
<1> USE ProcessAssumption
<1>1. PICK n \in EnvSizes : TRUE
  OBVIOUS
<1>2. HP!Root \in Nat /\ Heap!Root = HP!Root /\ HP!HeaderSize = 16 /\ Heap!HeaderSize = 16
  BY DEF HP!Root, Heap!Root, HP!AlignUp, Heap!AlignUp, HP!HeaderSize, Heap!HeaderSize
<1>3. Heap!AlignUp(ShellSize) >= 0 /\ Heap!AlignUp(n) >= 0
      /\ Heap!AlignUp(ShellSize) \in Int /\ Heap!AlignUp(n) \in Int
  BY <1>1 DEF Heap!AlignUp, Heap!HeaderSize
<1>4. HP!Limit = Lim
  BY <1>2 DEF HP!Limit, HP!AlignDown, HP!HeaderSize
<1>5. HP!Root + HP!HeaderSize <= HP!Limit
  BY <1>1, <1>2, <1>3, <1>4
<1>6. QED BY <1>5

(* DosProcess's heap and that of the proofs are the same.                  *)
LEMMA SameHeap ==
  /\ Heap!Live = HP!Live /\ Heap!Root = HP!Root /\ Heap!HeaderSize = 16 /\ HP!HeaderSize = 16
  /\ \A p : Heap!BlockOf(p) = HP!BlockOf(p) /\ Heap!MemPtr(p) = HP!MemPtr(p)
  /\ Heap!Init <=> HP!Init
BY DEF Heap!Live, HP!Live, Heap!Root, HP!Root, Heap!AlignUp, HP!AlignUp, Heap!HeaderSize,
       HP!HeaderSize, Heap!BlockOf, HP!BlockOf, Heap!MemPtr, HP!MemPtr, Heap!Init, HP!Init,
       Heap!Block, HP!Block, Heap!Success, HP!Success

LEMMA SameMalloc ==
  ASSUME NEW len, NEW p
  PROVE  Heap!Malloc(len, p) <=> HP!Malloc(len, p)
BY Zenon DEF Heap!Malloc, HP!Malloc, Heap!FreeLen, HP!FreeLen, Heap!NextOf, HP!NextOf,
       Heap!Above, HP!Above, Heap!GapStart, HP!GapStart, Heap!IsMaxFreeLen, HP!IsMaxFreeLen,
       Heap!Refusal, HP!Refusal, Heap!NoMemory, HP!NoMemory, Heap!Shortage, HP!Shortage,
       Heap!MakeBlock, HP!MakeBlock, Heap!Live, HP!Live, Heap!Root, HP!Root,
       Heap!Limit, HP!Limit, Heap!AlignDown, HP!AlignDown, Heap!AlignUp, HP!AlignUp,
       Heap!HeaderSize, HP!HeaderSize, Heap!BlockOf, HP!BlockOf, Heap!MemPtr, HP!MemPtr,
       Heap!Block, HP!Block, Heap!Success, HP!Success

LEMMA SameMallocLargest ==
  ASSUME NEW p
  PROVE  Heap!MallocLargest(p) <=> HP!MallocLargest(p)
BY Zenon DEF Heap!MallocLargest, HP!MallocLargest, Heap!FreeLen, HP!FreeLen, Heap!NextOf,
       HP!NextOf, Heap!Above, HP!Above, Heap!GapStart, HP!GapStart, Heap!NoMemory, HP!NoMemory,
       Heap!MakeBlock, HP!MakeBlock, Heap!Live, HP!Live, Heap!Limit, HP!Limit,
       Heap!AlignDown, HP!AlignDown, Heap!AlignUp, HP!AlignUp,
       Heap!HeaderSize, HP!HeaderSize, Heap!BlockOf, HP!BlockOf, Heap!MemPtr, HP!MemPtr,
       Heap!Block, HP!Block, Heap!Success, HP!Success

LEMMA SameSetBlock ==
  ASSUME NEW p, NEW len
  PROVE  Heap!SetBlock(p, len) <=> HP!SetBlock(p, len)
BY Zenon DEF Heap!SetBlock, HP!SetBlock, Heap!NextOf, HP!NextOf, Heap!Above, HP!Above,
       Heap!Refusal, HP!Refusal, Heap!NoMemory, HP!NoMemory, Heap!Shortage, HP!Shortage,
       Heap!NoMatch, HP!NoMatch, Heap!Live, HP!Live, Heap!Limit, HP!Limit,
       Heap!AlignDown, HP!AlignDown, Heap!HeaderSize, HP!HeaderSize,
       Heap!BlockOf, HP!BlockOf, Heap!Success, HP!Success

LEMMA SameMFree ==
  ASSUME NEW p
  PROVE  Heap!MFree(p) <=> HP!MFree(p)
BY DEF Heap!MFree, HP!MFree, Heap!BlockOf, HP!BlockOf, Heap!HeaderSize, HP!HeaderSize,
       Heap!Root, HP!Root, Heap!AlignUp, HP!AlignUp, Heap!Live, HP!Live,
       Heap!RemoveBlocks, HP!RemoveBlocks, Heap!Subtree, HP!Subtree,
       Heap!ClosedUnderChildren, HP!ClosedUnderChildren, Heap!Success, HP!Success,
       Heap!NoMatch, HP!NoMatch
-----------------------------------------------------------------------------
(* The heap before a program runs: the blocks lie one behind the other,    *)
(* and all the rest is behind the top one.                                 *)
Packed(top) ==
  /\ top \in HP!Live /\ \A b \in HP!Live : b <= top
  /\ \A b \in HP!Live \ {top} : HP!GapStart(b) \in HP!Live

(* What the shell's destructor relies on.                                  *)
ShellOwns ==
  /\ HP!BlockOf(shell) \in HP!Live /\ HP!BlockOf(shell) # HP!Root
  /\ blocks[HP!BlockOf(shell)].parent = HP!Root
  /\ \A b \in HP!Live \ {HP!BlockOf(shell)} : blocks[b].parent # HP!Root

LEMMA HeapFacts ==
  ASSUME HP!HeapInv
  PROVE  /\ HP!TypeOK /\ HP!Layout /\ HP!ParentsLive /\ HP!Rooted
         /\ HP!Live \subseteq Nat /\ HP!Root \in HP!Live /\ HP!Root \in Nat /\ HP!Limit \in Nat
         /\ HP!Root > 0
         /\ \A b \in HP!Live : /\ blocks[b].end \in Nat /\ blocks[b].parent \in Nat
                               /\ b + 16 <= blocks[b].end /\ blocks[b].end <= HP!Limit
                               /\ b % 16 = 0 /\ HP!GapStart(b) \in Nat
                               /\ blocks[b].end <= HP!GapStart(b) /\ b < HP!GapStart(b)
                               /\ HP!GapStart(b) % 16 = 0
<1>1. /\ HP!TypeOK /\ HP!Layout /\ HP!ParentsLive /\ HP!Rooted
  BY Zenon DEF HP!HeapInv
<1>2. HP!Root \in Nat /\ HP!Root > 0 /\ HP!Limit \in Nat
  BY PartsAssumed, HP!HeapBounds
<1>3. HP!Live \subseteq Nat /\ blocks \in [HP!Live -> [end : Nat, parent : Nat]]
  BY <1>1 DEF HP!TypeOK
<1>4. HP!Root \in HP!Live
  BY <1>1 DEF HP!Layout
<1>5. ASSUME NEW b \in HP!Live
      PROVE  /\ blocks[b].end \in Nat /\ blocks[b].parent \in Nat
             /\ b + 16 <= blocks[b].end /\ blocks[b].end <= HP!Limit /\ b % 16 = 0
  BY <1>1, <1>3 DEF HP!Layout, HP!HeaderSize
<1>6. ASSUME NEW b \in HP!Live
      PROVE  /\ HP!GapStart(b) \in Nat /\ blocks[b].end <= HP!GapStart(b)
             /\ HP!GapStart(b) % 16 = 0
  <2>1. HP!GapStart(b) = HP!AlignUp(blocks[b].end)
    BY DEF HP!GapStart
  <2>2. QED BY <1>5, <2>1, PartsAssumed, HP!AlignUpProperties DEF HP!HeaderSize
<1>7. QED BY <1>1, <1>2, <1>3, <1>4, <1>5, <1>6

(* In a packed heap only the top block has room behind it.                 *)
LEMMA PackedGaps ==
  ASSUME HP!HeapInv, NEW top, Packed(top)
  PROVE  /\ top \in Nat
         /\ HP!NextOf(top) = HP!Limit /\ HP!FreeLen(top) = HP!Limit - HP!GapStart(top)
         /\ \A b \in HP!Live \ {top} : HP!FreeLen(b) \in Int /\ HP!FreeLen(b) <= 0
<1>1. top \in HP!Live /\ top \in Nat
  BY HeapFacts DEF Packed
<1>2. HP!Above(top) = {HP!Limit}
  <2>1. \A c \in HP!Live : ~(c > top)
    BY <1>1, HeapFacts DEF Packed
  <2>2. QED BY <2>1, Zenon DEF HP!Above
<1>3. HP!NextOf(top) = HP!Limit
  BY <1>1, <1>2, HeapFacts, PartsAssumed, HP!NextOfProperties
<1>4. ASSUME NEW b \in HP!Live \ {top}
      PROVE  HP!FreeLen(b) \in Int /\ HP!FreeLen(b) <= 0
  <2>1. HP!GapStart(b) \in HP!Above(b)
    BY HeapFacts DEF Packed, HP!Above
  <2>2. HP!NextOf(b) \in Nat /\ HP!NextOf(b) <= HP!GapStart(b)
    BY <2>1, HeapFacts, PartsAssumed, HP!NextOfProperties
  <2>3. QED BY <2>2, HeapFacts DEF HP!FreeLen
<1>5. QED BY <1>1, <1>3, <1>4 DEF HP!FreeLen

(* A block made behind the top one is the new top.                         *)
LEMMA PackedMake ==
  ASSUME HP!HeapInv, NEW top, Packed(top), NEW new, new = HP!GapStart(top),
         NEW len \in Nat, NEW parent \in HP!Live,
         HP!MakeBlock(new, len, parent)
  PROVE  /\ new \in Nat /\ new \notin HP!Live /\ HP!Live' = HP!Live \cup {new}
         /\ \A b \in HP!Live : blocks'[b] = blocks[b]
         /\ blocks'[new].end = new + len /\ blocks'[new].parent = parent
         /\ Packed(new)'
<1>1. top \in HP!Live /\ new \in Nat /\ top < new /\ new \notin HP!Live
  BY HeapFacts DEF Packed
<1>2. blocks' = [c \in HP!Live \cup {new} |->
                   IF c = new THEN HP!Block(new + len, parent) ELSE blocks[c]]
  BY DEF HP!MakeBlock
<1>3. HP!Live' = HP!Live \cup {new}
  BY <1>2 DEF HP!Live
<1>4. \A b \in HP!Live : blocks'[b] = blocks[b]
  BY <1>1, <1>2
<1>5. blocks'[new].end = new + len /\ blocks'[new].parent = parent
  BY <1>2 DEF HP!Block
<1>6. \A b \in HP!Live : HP!GapStart(b)' = HP!GapStart(b)
  BY <1>4, Zenon DEF HP!GapStart
<1>7. \A b \in HP!Live' : b <= new
  BY <1>1, <1>3, HeapFacts DEF Packed
<1>8. \A b \in HP!Live' \ {new} : HP!GapStart(b)' \in HP!Live'
  BY <1>3, <1>6 DEF Packed
<1>9. Packed(new)'
  BY <1>3, <1>7, <1>8 DEF Packed
<1>10. QED BY <1>1, <1>3, <1>4, <1>5, <1>9

(* An allocation in a packed heap that has room for it.                    *)
LEMMA PackedMalloc ==
  ASSUME HP!HeapInv, NEW top, Packed(top), NEW len \in Nat, NEW parent \in Nat,
         len + 16 <= HP!Limit - HP!GapStart(top), HP!Malloc(len, parent)
  PROVE  /\ HP!BlockOf(parent) \in HP!Live
         /\ HP!MakeBlock(HP!GapStart(top), len + 16, HP!BlockOf(parent))
         /\ heapRet' = HP!Success(HP!MemPtr(HP!GapStart(top)))
<1>1. HP!BlockOf(parent) \in HP!Live
  BY DEF HP!Malloc
<1>2. HP!FreeLen(top) >= len + 16
  BY PackedGaps
<1>3. top \in HP!Live
  BY DEF Packed
<1>4. PICK b \in HP!Live :
        /\ HP!FreeLen(b) >= len + 16
        /\ HP!MakeBlock(HP!GapStart(b), len + 16, HP!BlockOf(parent))
        /\ heapRet' = HP!Success(HP!MemPtr(HP!GapStart(b)))
  <2>1. ~(\A b \in HP!Live : HP!FreeLen(b) < len + 16)
    BY <1>2, <1>3, PackedGaps, HeapFacts
  <2>2. QED BY <2>1 DEF HP!Malloc, HP!HeaderSize
<1>5. b = top
  BY <1>4, PackedGaps
<1>6. QED BY <1>1, <1>4, <1>5

LEMMA PackedMallocLargest ==
  ASSUME HP!HeapInv, NEW top, Packed(top), NEW parent \in Nat,
         16 < HP!Limit - HP!GapStart(top), HP!MallocLargest(parent)
  PROVE  /\ HP!BlockOf(parent) \in HP!Live
         /\ HP!MakeBlock(HP!GapStart(top), HP!Limit - HP!GapStart(top), HP!BlockOf(parent))
         /\ heapRet' = HP!Success(HP!MemPtr(HP!GapStart(top)))
<1>1. HP!BlockOf(parent) \in HP!Live
  BY DEF HP!MallocLargest
<1>2. HP!FreeLen(top) > 16
  BY PackedGaps
<1>3. top \in HP!Live
  BY DEF Packed
<1>4. PICK b \in HP!Live :
        /\ HP!FreeLen(b) > 16
        /\ HP!MakeBlock(HP!GapStart(b), HP!FreeLen(b), HP!BlockOf(parent))
        /\ heapRet' = HP!Success(HP!MemPtr(HP!GapStart(b)))
  <2>1. ~(\A b \in HP!Live : HP!FreeLen(b) <= 16)
    BY <1>2, <1>3, PackedGaps, HeapFacts
  <2>2. QED BY <2>1 DEF HP!MallocLargest, HP!HeaderSize
<1>5. b = top
  BY <1>4, PackedGaps
<1>6. QED BY <1>1, <1>4, <1>5, PackedGaps
-----------------------------------------------------------------------------
(* What a program's calls do to the tree of owners: blocks stay, with      *)
(* their owners, and a new one belongs to the current process.             *)
LEMMA CallsKeepOwners ==
  ASSUME HP!HeapInv,
         NEW len \in Nat, NEW p \in Nat, NEW parent \in Nat,
         HP!Malloc(len, parent) \/ HP!SetBlock(p, len)
  PROVE  /\ HP!Live \subseteq HP!Live'
         /\ \A b \in HP!Live : blocks'[b].parent = blocks[b].parent
         /\ \A b \in HP!Live' \ HP!Live : blocks'[b].parent = HP!BlockOf(parent)
<1>1. ASSUME UNCHANGED blocks
      PROVE  HP!Live' = HP!Live
  BY <1>1 DEF HP!Live
<1>2. CASE HP!Malloc(len, parent)
  <2>1. HP!BlockOf(parent) \in HP!Live
    BY <1>2 DEF HP!Malloc
  <2>2. CASE UNCHANGED blocks
    BY <1>1, <2>2
  <2>3. CASE \E b \in HP!Live :
               /\ HP!FreeLen(b) >= len + HP!HeaderSize
               /\ HP!MakeBlock(HP!GapStart(b), len + HP!HeaderSize, HP!BlockOf(parent))
    <3>1. PICK b \in HP!Live :
            /\ HP!FreeLen(b) >= len + HP!HeaderSize
            /\ HP!MakeBlock(HP!GapStart(b), len + HP!HeaderSize, HP!BlockOf(parent))
      BY <2>3
    <3> DEFINE new == HP!GapStart(b)
    <3>2. len + HP!HeaderSize \in Nat /\ HP!HeaderSize <= len + HP!HeaderSize
      BY DEF HP!HeaderSize
    <3>3. new \notin HP!Live
      BY <2>1, <3>1, <3>2, HeapFacts, PartsAssumed, HP!MakeBlockKeepsLayout
    <3>4. blocks' = [c \in HP!Live \cup {new} |->
                       IF c = new THEN HP!Block(new + (len + HP!HeaderSize), HP!BlockOf(parent))
                       ELSE blocks[c]]
      BY <3>1 DEF HP!MakeBlock
    <3> HIDE DEF new
    <3>5. HP!Live' = HP!Live \cup {new}
      BY <3>4 DEF HP!Live
    <3>6. blocks'[new].parent = HP!BlockOf(parent) /\ \A c \in HP!Live : blocks'[c] = blocks[c]
      BY <3>3, <3>4 DEF HP!Block
    <3>7. QED BY <3>5, <3>6
  <2>4. QED BY <1>2, <2>2, <2>3 DEF HP!Malloc
<1>3. CASE HP!SetBlock(p, len)
  <2>1. CASE UNCHANGED blocks
    BY <1>1, <2>1
  <2>2. CASE \E b \in HP!Live : blocks' = [blocks EXCEPT ![b].end = p + len]
    <3>1. PICK b \in HP!Live : blocks' = [blocks EXCEPT ![b].end = p + len]
      BY <2>2
    <3>2. blocks \in [HP!Live -> [end : Nat, parent : Nat]]
      BY HeapFacts DEF HP!TypeOK
    <3>3. HP!Live' = HP!Live
      BY <3>1, <3>2 DEF HP!Live
    <3>4. ASSUME NEW c \in HP!Live PROVE blocks'[c].parent = blocks[c].parent
      <4>1. CASE c = b
        BY <3>1, <3>2, <4>1
      <4>2. CASE c # b
        BY <3>1, <3>2, <4>2
      <4>3. QED BY <4>1, <4>2
    <3>5. QED BY <3>3, <3>4
  <2>3. QED BY <1>3, <2>1, <2>2 DEF HP!SetBlock
<1>4. QED BY <1>2, <1>3

(* The program's calls keep the shell the root's only child.               *)
LEMMA CallsKeepShell ==
  ASSUME HP!HeapInv, ShellOwns, UNCHANGED shell,
         NEW len \in Nat, NEW p \in Nat, NEW parent \in Nat, HP!BlockOf(parent) # HP!Root,
         HP!Malloc(len, parent) \/ HP!SetBlock(p, len)
  PROVE  ShellOwns' /\ HP!Live \subseteq HP!Live'
<1>1. HP!Root' = HP!Root /\ HP!BlockOf(shell)' = HP!BlockOf(shell)
  BY Zenon DEF HP!Root, HP!AlignUp, HP!HeaderSize, HP!BlockOf
<1>2. QED BY <1>1, CallsKeepOwners, Zenon DEF ShellOwns

(* Freeing the shell frees all but the root.                               *)
LEMMA FreeShellFrees ==
  ASSUME HP!HeapInv, ShellOwns, shell \in Nat, HP!MFree(shell)
  PROVE  HP!Live' = {HP!Root}
<1> DEFINE b == HP!BlockOf(shell)
           S == HP!Subtree(b)
<1>1. /\ b \in HP!Live /\ b # HP!Root /\ blocks[b].parent = HP!Root
      /\ \A c \in HP!Live \ {b} : blocks[c].parent # HP!Root
  BY DEF ShellOwns
<1>2. S \in SUBSET HP!Live /\ b \in S /\ HP!ClosedUnderChildren(S)
  BY <1>1, PartsAssumed, HP!SubtreeProperties
<1>3. HP!Root \notin S /\ HP!Root \in HP!Live
  BY <1>1, HeapFacts, PartsAssumed, HP!OwnedBlocks
<1> HIDE DEF S, b
<1>4. HP!ClosedUnderChildren(S \cup {HP!Root})
  BY <1>1, <1>2 DEF HP!ClosedUnderChildren
<1>5. HP!Subtree(HP!Root) \subseteq S \cup {HP!Root}
  BY <1>2, <1>3, <1>4, PartsAssumed, HP!SubtreeProperties
<1>6. HP!Live = S \cup {HP!Root}
  BY <1>2, <1>3, <1>5, HeapFacts DEF HP!Rooted
<1>7. HP!RemoveBlocks(S)
  BY <1>1 DEF HP!MFree, b, S
<1>8. HP!Live' = HP!Live \ S
  BY <1>7 DEF HP!RemoveBlocks, HP!Live
<1>9. QED BY <1>3, <1>6, <1>8
-----------------------------------------------------------------------------
(* The descriptors: those of other contexts are not there, and the         *)
(* program's are all there but in the destructor of its context.           *)
FilesShape ==
  /\ \A c \in Context \ {Ctx} : held[c] = 0
  /\ pc = "start" => held[Ctx] = 0
  /\ pc \notin {"start", "delete", "ended"} => held[Ctx] = FP!NSLOTS
  /\ pc = "ended" => thrown \/ held[Ctx] = 0
  /\ pc = "delete" => ~thrown

LEMMA SameFiles ==
  /\ Files!Init <=> FP!Init
  /\ Files!NSLOTS = FP!NSLOTS /\ Files!LiveFile = FP!LiveFile
  /\ Files!CreateContext(Ctx) => FP!CreateContext(Ctx)
  /\ Files!Destroy(Ctx) => FP!Destroy(Ctx)
  /\ Files!OpenCon(Ctx) => FP!OpenCon(Ctx)
  /\ Files!OpenRegular(Ctx) => FP!OpenRegular(Ctx)
  /\ Files!OpenFail(Ctx) => FP!OpenFail(Ctx)
  /\ \A fd : Files!Dup(Ctx, fd) => FP!Dup(Ctx, fd)
  /\ \A fd : Files!Close(Ctx, fd) => FP!Close(Ctx, fd)
  /\ Files!Fd = FP!Fd
<1> USE DEF Files!NSLOTS, FP!NSLOTS, Files!NSTD, FP!NSTD, Files!LiveFile, FP!LiveFile,
            Files!Slot, FP!Slot, Files!NewFile, FP!NewFile, Files!Unref, FP!Unref,
            Files!Alive, FP!Alive, Files!Fail, FP!Fail, Files!Full, FP!Full,
            Files!FirstFree, FP!FirstFree, Files!SetSlot, FP!SetSlot, Files!Valid, FP!Valid,
            Files!SlotOf, FP!SlotOf, Files!Ref, FP!Ref
<1>1. Files!Init <=> FP!Init
  BY Zenon DEF Files!Init, FP!Init
<1>2. Files!CreateContext(Ctx) => FP!CreateContext(Ctx)
  BY Zenon DEF Files!CreateContext, FP!CreateContext
<1>3. Files!Destroy(Ctx) => FP!Destroy(Ctx)
  BY Zenon DEF Files!Destroy, FP!Destroy
<1>4. Files!OpenCon(Ctx) => FP!OpenCon(Ctx)
  BY Zenon DEF Files!OpenCon, FP!OpenCon
<1>5. Files!OpenRegular(Ctx) => FP!OpenRegular(Ctx)
  BY Zenon DEF Files!OpenRegular, FP!OpenRegular
<1>6. Files!OpenFail(Ctx) => FP!OpenFail(Ctx)
  BY Zenon DEF Files!OpenFail, FP!OpenFail
<1>7. ASSUME NEW fd, Files!Dup(Ctx, fd) PROVE FP!Dup(Ctx, fd)
  BY <1>7, Zenon DEF Files!Dup, FP!Dup
<1>8. ASSUME NEW fd, Files!Close(Ctx, fd) PROVE FP!Close(Ctx, fd)
  BY <1>8, Zenon DEF Files!Close, FP!Close
<1>9. Files!NSLOTS = FP!NSLOTS /\ Files!LiveFile = FP!LiveFile
  BY Zenon
<1>10. Files!Fd = FP!Fd
  BY DEF Files!Fd, FP!Fd
<1>11. QED BY <1>1, <1>2, <1>3, <1>4, <1>5, <1>6, <1>7, <1>8, <1>9, <1>10
-----------------------------------------------------------------------------
(* Where the gap behind the top block starts, once the shell is made, and  *)
(* once its environment is made too.                                       *)
AboveShell    == HP!Root + 32 + HP!AlignUp(ShellSize)
AboveEnv(n)   == AboveShell + 16 + HP!AlignUp(n)

LEMMA Room ==
  /\ HP!Limit = Lim /\ HP!Root \in Nat /\ HP!Root % 16 = 0
  /\ AboveShell \in Nat
  /\ ShellSize + 16 <= HP!Limit - (HP!Root + 16)
  /\ \A n \in EnvSizes : /\ n \in Nat /\ AboveEnv(n) \in Nat
                          /\ n + 16 <= HP!Limit - AboveShell
                          /\ 16 < HP!Limit - AboveEnv(n)
<1> USE ProcessAssumption
<1>1. HP!Root \in Nat /\ Heap!Root = HP!Root /\ HP!HeaderSize = 16 /\ Heap!HeaderSize = 16
      /\ HP!Root % 16 = 0
  BY DEF HP!Root, Heap!Root, HP!AlignUp, Heap!AlignUp, HP!HeaderSize, Heap!HeaderSize
<1>2. HP!Limit = Lim
  BY <1>1 DEF HP!Limit, HP!AlignDown, HP!HeaderSize
<1>3. \A n : HP!AlignUp(n) = Heap!AlignUp(n)
  BY DEF HP!AlignUp, Heap!AlignUp, HP!HeaderSize, Heap!HeaderSize
<1>4. \A n \in Nat : HP!AlignUp(n) \in Nat /\ n <= HP!AlignUp(n)
  BY PartsAssumed, HP!AlignUpProperties
<1>5. ASSUME NEW n \in EnvSizes
      PROVE  HP!Root + 64 + HP!AlignUp(ShellSize) + HP!AlignUp(n) + PspSize <= HP!Limit
  <2>1. Heap!Root + 4 * Heap!HeaderSize + Heap!AlignUp(ShellSize) + Heap!AlignUp(n) + PspSize
          <= Lim
    OBVIOUS
  <2>2. QED BY <2>1, <1>1, <1>2, <1>3, <1>4
<1>6. PICK e \in EnvSizes : TRUE
  OBVIOUS
<1>7. HP!Limit \in Nat
  BY <1>2
<1>8. ShellSize + 16 <= HP!Limit - (HP!Root + 16)
  BY <1>1, <1>4, <1>5, <1>6, <1>7
<1>9. AboveShell \in Nat
  BY <1>1, <1>4 DEF AboveShell
<1>10. ASSUME NEW n \in EnvSizes
       PROVE  /\ n \in Nat /\ AboveEnv(n) \in Nat
              /\ n + 16 <= HP!Limit - AboveShell
              /\ 16 < HP!Limit - AboveEnv(n)
  <2>1. n \in Nat /\ HP!AlignUp(n) \in Nat /\ n <= HP!AlignUp(n)
        /\ HP!AlignUp(ShellSize) \in Nat
    BY <1>4
  <2>2. QED BY <2>1, <1>1, <1>5, <1>7 DEF AboveEnv, AboveShell
<1>11. QED BY <1>1, <1>2, <1>8, <1>9, <1>10

(* Rounding the end of a block up is rounding its length up.               *)
LEMMA AlignEnd ==
  ASSUME NEW a \in Nat, a % 16 = 0, NEW len \in Nat
  PROVE  HP!AlignUp(a + (len + 16)) = a + 16 + HP!AlignUp(len)
BY DEF HP!AlignUp, HP!HeaderSize

(* What load has stored, as far as the heap reaches.                       *)
StoredInBlock ==
  \A a \in stored : a < Lim => child <= a /\ a < blocks[HP!BlockOf(child)].end

(* What the program's run keeps, place by place: the root's block is as    *)
(* the constructor made it until there is a shell and when it is gone; in  *)
(* between, the shell's block is the only child of the root's, and so      *)
(* whatever is allocated belongs to the shell or to the program.  Until    *)
(* the program is loaded the heap is packed, with room enough at its top.  *)
Places ==
  /\ pc \in {"start", "shell", "delete", "ended"} => HP!Live = {HP!Root}
  /\ pc \in {"start", "shell"} => blocks[HP!Root].end = HP!Root + 16
  /\ pc \in {"shell", "free", "delete", "ended"} => pdb = HP!MemPtr(HP!Root)
  /\ pc # "start" => HP!BlockOf(pdb) \in HP!Live
  /\ pc \in {"env", "load", "loaded"} => pdb = shell
  /\ pc = "running" => pdb = child
  /\ HasShell => ShellOwns
  /\ pc \in {"loaded", "running"} => HP!BlockOf(child) \in HP!Live
                                    /\ HP!BlockOf(child) # HP!Root
  /\ pc = "env" => \E top \in Nat : Packed(top) /\ HP!GapStart(top) = AboveShell
  /\ pc = "load" => \E top \in Nat : Packed(top) /\ 16 < HP!Limit - HP!GapStart(top)
  /\ pc \notin {"loaded", "leave"} => stored = {}
  /\ StoredInBlock

ProcTypes ==
  /\ pc \in {"start", "shell", "env", "load", "loaded", "running", "leave", "free",
             "delete", "ended", "cancelled"}
  /\ pdb \in Nat /\ shell \in Nat /\ child \in Nat /\ stored \subseteq Nat
  /\ thrown \in BOOLEAN

ProcInv == HP!HeapInv /\ ProcTypes /\ Places
-----------------------------------------------------------------------------
(* A step that leaves the heap alone.                                      *)
LEMMA HeapAlone ==
  ASSUME HP!HeapInv, UNCHANGED heapVars
  PROVE  HP!HeapInv' /\ HP!Live' = HP!Live /\ blocks' = blocks
<1>1. blocks' = blocks /\ heapRet' = heapRet
  BY DEF heapVars
<1>2. heapRet' \in [status : {"success", "shortage", "nomemory", "nomatch"}, value : Nat]
  BY <1>1, HeapFacts DEF HP!TypeOK
<1>3. HP!HeapInv'
  BY <1>1, <1>2, PartsAssumed, HP!SameBlocksKeepInv
<1>4. QED BY <1>1, <1>3 DEF HP!Live

LEMMA InitProcInv == Init => ProcInv
<1> SUFFICES ASSUME Init PROVE ProcInv
  OBVIOUS
<1>1. HP!Init
  BY SameHeap DEF Init
<1>2. HP!HeapInv
  BY <1>1, PartsAssumed, HP!InitHeapInv
<1>3. blocks = [b \in {HP!Root} |-> HP!Block(HP!Root + HP!HeaderSize, 0)]
  BY <1>1 DEF HP!Init
<1>4. HP!Live = {HP!Root} /\ blocks[HP!Root].end = HP!Root + 16
  BY <1>3, SameHeap DEF HP!Live, HP!Block
<1>5. ProcTypes
  BY Zenon DEF Init, ProcTypes
<1>6. Places
  BY <1>4 DEF Init, Places, HasShell, StoredInBlock
<1>7. QED BY <1>2, <1>5, <1>6 DEF ProcInv

LEMMA CreateContextKeepsInv ==
  ASSUME ProcInv, CreateContext
  PROVE  ProcInv'
<1>1. HP!HeapInv' /\ HP!Live' = HP!Live /\ blocks' = blocks
  BY HeapAlone DEF ProcInv, CreateContext
<1>2. pc = "start" /\ pc' = "shell" /\ pdb' = HP!MemPtr(HP!Root)
      /\ UNCHANGED <<shell, child, stored, thrown>>
  BY SameHeap DEF CreateContext
<1>3. HP!Root' = HP!Root /\ HP!MemPtr(HP!Root)' = HP!MemPtr(HP!Root)
  BY Zenon DEF HP!Root, HP!MemPtr, HP!AlignUp, HP!HeaderSize
<1>4. HP!Live = {HP!Root} /\ blocks[HP!Root].end = HP!Root + 16
  BY <1>2 DEF ProcInv, Places
<1>5. pdb' \in Nat /\ HP!BlockOf(pdb)' = HP!Root
  BY <1>2, Room DEF HP!MemPtr, HP!BlockOf, HP!HeaderSize
<1>6. ProcTypes'
  BY <1>2, <1>5 DEF ProcInv, ProcTypes
<1>7. Places'
  BY <1>1, <1>2, <1>3, <1>4, <1>5 DEF ProcInv, Places, HasShell, StoredInBlock
<1>8. QED BY <1>1, <1>6, <1>7 DEF ProcInv

(* The shell's block goes right behind the root's.                         *)
LEMMA NewShellKeepsInv ==
  ASSUME ProcInv, NewShell
  PROVE  ProcInv'
<1>1. /\ pc = "shell" /\ pc' = "env" /\ HP!Malloc(ShellSize, pdb)
      /\ shell' = heapRet'.value /\ pdb' = heapRet'.value /\ UNCHANGED <<child, stored, thrown>>
  BY SameMalloc DEF NewShell
<1>2. /\ HP!HeapInv /\ ProcTypes /\ HP!Live = {HP!Root} /\ pdb = HP!MemPtr(HP!Root)
      /\ blocks[HP!Root].end = HP!Root + 16
  BY <1>1 DEF ProcInv, Places
<1>3. ShellSize \in Nat /\ pdb \in Nat
  BY <1>2, ProcessAssumption DEF ProcTypes
<1>4. HP!HeapInv'
  BY <1>1, <1>2, <1>3, PartsAssumed, HP!MallocKeepsInv
<1>5. HP!BlockOf(pdb) = HP!Root
  BY <1>2, Room DEF HP!BlockOf, HP!MemPtr, HP!HeaderSize
<1>6. HP!GapStart(HP!Root) = HP!Root + 16
  BY <1>2, Room DEF HP!GapStart, HP!AlignUp, HP!HeaderSize
<1>7. Packed(HP!Root)
  BY <1>2, Room DEF Packed
<1>8. PICK new : new = HP!Root + 16
  OBVIOUS
<1>9. /\ HP!MakeBlock(new, ShellSize + 16, HP!Root)
      /\ heapRet' = HP!Success(HP!MemPtr(new))
  BY <1>1, <1>2, <1>3, <1>5, <1>6, <1>7, <1>8, Room, PackedMalloc
<1>10. HP!Root \in HP!Live /\ ShellSize + 16 \in Nat /\ new \in Nat
  BY <1>2, <1>3, <1>8, Room
<1>11. /\ HP!Live' = HP!Live \cup {new}
       /\ \A b \in HP!Live : blocks'[b] = blocks[b]
       /\ blocks'[new].end = new + (ShellSize + 16) /\ blocks'[new].parent = HP!Root
       /\ Packed(new)'
  BY <1>2, <1>6, <1>7, <1>8, <1>9, <1>10, PackedMake
<1>12. shell' = new + 16 /\ pdb' = new + 16
  BY <1>1, <1>9 DEF HP!Success, HP!MemPtr, HP!HeaderSize
<1>13. HP!BlockOf(shell)' = new /\ HP!BlockOf(pdb)' = new
  BY <1>10, <1>12 DEF HP!BlockOf, HP!HeaderSize
<1>14. HP!Root' = HP!Root
  BY Zenon DEF HP!Root, HP!AlignUp, HP!HeaderSize
<1>15. blocks[HP!Root].parent = 0 /\ HP!Root > 0
  BY <1>2, HeapFacts DEF HP!ParentsLive
<1>16. ShellOwns'
  BY <1>2, <1>8, <1>10, <1>11, <1>13, <1>14, <1>15 DEF ShellOwns
<1>17. HP!GapStart(new)' = AboveShell'
  <2>1. HP!GapStart(new)' = HP!AlignUp(new + (ShellSize + 16))
    BY <1>11 DEF HP!GapStart, HP!AlignUp, HP!HeaderSize
  <2>2. new % 16 = 0
    BY <1>8, Room
  <2>3. HP!GapStart(new)' = new + 16 + HP!AlignUp(ShellSize)
    BY <1>3, <1>10, <2>1, <2>2, AlignEnd
  <2>4. HP!AlignUp(ShellSize) \in Nat
    BY <1>3, PartsAssumed, HP!AlignUpProperties
  <2>5. HP!GapStart(new)' = AboveShell
    BY <1>8, <2>3, <2>4, Room DEF AboveShell
  <2>6. AboveShell' = AboveShell
    BY Zenon DEF AboveShell, HP!Root, HP!AlignUp, HP!HeaderSize
  <2>7. QED BY <2>5, <2>6
<1>18. ProcTypes'
  BY <1>1, <1>2, <1>10, <1>12 DEF ProcTypes
<1>19. Places'
  <2>1. pc' = "env" /\ pdb' = shell' /\ HP!BlockOf(pdb)' \in HP!Live'
    BY <1>1, <1>11, <1>13
  <2>2. (\E top \in Nat : Packed(top) /\ HP!GapStart(top) = AboveShell)'
    BY <1>10, <1>11, <1>17
  <2>3. stored' = {}
    BY <1>1 DEF ProcInv, Places
  <2>4. QED BY <1>16, <2>1, <2>2, <2>3 DEF Places, StoredInBlock
<1>20. QED BY <1>4, <1>18, <1>19 DEF ProcInv
-----------------------------------------------------------------------------
(* A new block that does not belong to the root leaves the shell the       *)
(* root's only child.                                                      *)
LEMMA NewBlockKeepsShell ==
  ASSUME HP!HeapInv, ShellOwns, UNCHANGED shell, NEW new, new \notin HP!Live,
         HP!Live' = HP!Live \cup {new}, \A b \in HP!Live : blocks'[b] = blocks[b],
         blocks'[new].parent # HP!Root
  PROVE  ShellOwns'
<1>1. HP!Root' = HP!Root /\ HP!BlockOf(shell)' = HP!BlockOf(shell)
  BY Zenon DEF HP!Root, HP!AlignUp, HP!HeaderSize, HP!BlockOf
<1>2. \A b \in HP!Live' : b \in HP!Live \/ b = new
  OBVIOUS
<1>3. HP!BlockOf(shell) \in HP!Live /\ blocks'[HP!BlockOf(shell)].parent = HP!Root
  BY DEF ShellOwns
<1>4. \A b \in HP!Live' \ {HP!BlockOf(shell)} : blocks'[b].parent # HP!Root
  BY <1>2 DEF ShellOwns
<1>5. QED BY <1>1, <1>3, <1>4 DEF ShellOwns

(* The environment goes right behind the shell.                            *)
LEMMA CreateEnvKeepsInv ==
  ASSUME ProcInv, CreateEnv
  PROVE  ProcInv'
<1>1. pc = "env" /\ pc' = "load" /\ UNCHANGED <<pdb, shell, child, stored, thrown>>
  BY DEF CreateEnv, procVars
<1>2. PICK size \in EnvSizes : HP!Malloc(size, pdb)
  BY SameMalloc DEF CreateEnv
<1>3. HP!HeapInv /\ ProcTypes /\ pdb = shell /\ ShellOwns /\ pdb \in Nat
  BY <1>1 DEF ProcInv, Places, ProcTypes, HasShell
<1>4. PICK top \in Nat : Packed(top) /\ HP!GapStart(top) = AboveShell
  BY <1>1 DEF ProcInv, Places
<1>5. size \in Nat /\ size + 16 \in Nat /\ size + 16 <= HP!Limit - AboveShell
      /\ AboveShell \in Nat
  BY Room
<1>6. HP!HeapInv'
  BY <1>2, <1>3, <1>5, PartsAssumed, HP!MallocKeepsInv
<1>7. PICK new : new = HP!GapStart(top)
  OBVIOUS
<1>8. HP!BlockOf(pdb) \in HP!Live /\ HP!MakeBlock(new, size + 16, HP!BlockOf(pdb))
  BY <1>2, <1>3, <1>4, <1>5, <1>7, PackedMalloc
<1>9. /\ new \in Nat /\ new \notin HP!Live /\ HP!Live' = HP!Live \cup {new}
      /\ \A b \in HP!Live : blocks'[b] = blocks[b]
      /\ blocks'[new].end = new + (size + 16) /\ blocks'[new].parent = HP!BlockOf(pdb)
      /\ Packed(new)'
  BY <1>3, <1>4, <1>5, <1>7, <1>8, PackedMake
<1>10. HP!BlockOf(pdb) # HP!Root
  BY <1>3 DEF ShellOwns
<1>11. ShellOwns'
  BY <1>1, <1>3, <1>9, <1>10, NewBlockKeepsShell
<1>12. HP!Limit' = HP!Limit
  BY Zenon DEF HP!Limit, HP!AlignDown, HP!HeaderSize
<1>13. 16 < HP!Limit - HP!GapStart(new)'
  <2>1. HP!GapStart(new)' = HP!AlignUp(new + (size + 16))
    BY <1>9 DEF HP!GapStart, HP!AlignUp, HP!HeaderSize
  <2>2. new % 16 = 0
    <3>1. top \in HP!Live
      BY <1>4 DEF Packed
    <3>2. QED BY <1>3, <1>7, <3>1, HeapFacts
  <2>3. HP!GapStart(new)' = new + 16 + HP!AlignUp(size)
    BY <1>5, <1>9, <2>1, <2>2, AlignEnd
  <2>4. HP!GapStart(new)' = AboveEnv(size)
    BY <1>4, <1>7, <2>3 DEF AboveEnv
  <2>5. QED BY <2>4, Room
<1>14. ProcTypes'
  BY <1>1, <1>3 DEF ProcTypes
<1>15. Places'
  <2>1. pc' = "load" /\ pdb' = shell' /\ HP!BlockOf(pdb)' \in HP!Live'
    BY <1>1, <1>3, <1>8, <1>9 DEF HP!BlockOf, HP!HeaderSize
  <2>2. (\E top1 \in Nat : Packed(top1) /\ 16 < HP!Limit - HP!GapStart(top1))'
    BY <1>9, <1>12, <1>13
  <2>3. stored' = {}
    BY <1>1 DEF ProcInv, Places
  <2>4. QED BY <1>11, <2>1, <2>2, <2>3 DEF Places, StoredInBlock
<1>16. QED BY <1>6, <1>14, <1>15 DEF ProcInv

(* An image with what precedes it and what is fixed up has the numbers     *)
(* from its block's memory on.                                             *)
LEMMA LoadStores ==
  ASSUME NEW p \in Nat, NEW size \in ImageSizes, NEW fix \in SUBSET Fixups, NEW behind,
         LoadExecutable(p, size, fix, behind)
  PROVE  /\ stored' \subseteq Nat /\ \A a \in stored' : p <= a
         /\ thrown' \in BOOLEAN
<1>1. size \in Nat /\ PspSize \in Nat /\ fix \subseteq Nat
  BY ProcessAssumption
<1>2. \A a \in Psp(p) : a \in Nat /\ p <= a
  BY <1>1 DEF Psp
<1>3. \A a \in Image(p, size) : a \in Nat /\ p <= a
  BY <1>1 DEF Image
<1>4. \A a \in FixedUp(p, fix) : a \in Nat /\ p <= a
  <2> SUFFICES ASSUME NEW a \in FixedUp(p, fix) PROVE a \in Nat /\ p <= a
    OBVIOUS
  <2>1. PICK f \in fix : a \in p + PspSize + f .. p + PspSize + f + 3
    BY DEF FixedUp
  <2>2. f \in Nat
    BY <1>1
  <2>3. QED BY <1>1, <2>1, <2>2
<1>5. stored' \subseteq Psp(p) \cup Image(p, size) \cup FixedUp(p, fix)
  BY Zenon DEF LoadExecutable
<1>6. thrown' \in BOOLEAN
  BY Zenon DEF LoadExecutable
<1>7. QED BY <1>2, <1>3, <1>4, <1>5, <1>6

(* The program takes all the rest.                                         *)
LEMMA LoadKeepsInv ==
  ASSUME ProcInv, Load
  PROVE  ProcInv'
<1>1. /\ pc = "load" /\ HP!MallocLargest(pdb) /\ child' = heapRet'.value
      /\ UNCHANGED <<pdb, shell>>
      /\ pc' = IF thrown' THEN "leave" ELSE "loaded"
  BY SameMallocLargest DEF Load
<1>2. PICK size \in ImageSizes, fix \in SUBSET Fixups, behind \in MapsBehind :
        LoadExecutable(child', size, fix, behind)
  BY Zenon DEF Load
<1>3. HP!HeapInv /\ ProcTypes /\ pdb = shell /\ ShellOwns /\ pdb \in Nat
  BY <1>1 DEF ProcInv, Places, ProcTypes, HasShell
<1>4. PICK top \in Nat : Packed(top) /\ 16 < HP!Limit - HP!GapStart(top)
  BY <1>1 DEF ProcInv, Places
<1>5. HP!HeapInv'
  BY <1>1, <1>3, PartsAssumed, HP!MallocLargestKeepsInv
<1>6. PICK new : new = HP!GapStart(top)
  OBVIOUS
<1>7. PICK len : len = HP!Limit - new
  OBVIOUS
<1>8. /\ HP!BlockOf(pdb) \in HP!Live /\ HP!MakeBlock(new, len, HP!BlockOf(pdb))
      /\ heapRet' = HP!Success(HP!MemPtr(new))
  BY <1>1, <1>3, <1>4, <1>6, <1>7, PackedMallocLargest
<1>9. new \in Nat /\ len \in Nat
  <2>1. top \in HP!Live
    BY <1>4 DEF Packed
  <2>2. new \in Nat
    BY <1>3, <1>6, <2>1, HeapFacts
  <2>3. QED BY <1>4, <1>6, <1>7, <2>2, Room, ProcessAssumption
<1>10. /\ new \notin HP!Live /\ HP!Live' = HP!Live \cup {new}
       /\ \A b \in HP!Live : blocks'[b] = blocks[b]
       /\ blocks'[new].end = new + len /\ blocks'[new].parent = HP!BlockOf(pdb)
       /\ Packed(new)'
  BY <1>3, <1>4, <1>6, <1>8, <1>9, PackedMake
<1>11. ShellOwns'
  <2>1. HP!BlockOf(pdb) # HP!Root
    BY <1>3 DEF ShellOwns
  <2>2. QED BY <1>1, <1>3, <1>10, <2>1, NewBlockKeepsShell
<1>12. child' = new + 16 /\ child' \in Nat /\ HP!BlockOf(child)' = new
  <2>1. child' = new + 16
    BY <1>1, <1>8 DEF HP!Success, HP!MemPtr, HP!HeaderSize
  <2>2. QED BY <1>9, <2>1 DEF HP!BlockOf, HP!HeaderSize
<1>13. new # HP!Root /\ HP!Root' = HP!Root
  <2>1. HP!Root' = HP!Root
    BY Zenon DEF HP!Root, HP!AlignUp, HP!HeaderSize
  <2>2. HP!Root \in HP!Live
    BY <1>3, HeapFacts
  <2>3. QED BY <1>10, <2>1, <2>2
<1>14. new + len = Lim
  BY <1>7, <1>9, Room, ProcessAssumption
<1>15. thrown' \in BOOLEAN /\ stored' \subseteq Nat /\ \A a \in stored' : child' <= a
  BY <1>2, <1>12, LoadStores
<1>16. pc' \in {"leave", "loaded"}
  BY <1>1
<1>17. StoredInBlock'
  BY <1>10, <1>12, <1>14, <1>15 DEF StoredInBlock
<1>18. ProcTypes'
  BY <1>1, <1>3, <1>12, <1>15, <1>16 DEF ProcTypes
<1>19. Places'
  <2>1. pdb' = shell' /\ HP!BlockOf(pdb)' \in HP!Live'
    BY <1>1, <1>3, <1>8, <1>10 DEF HP!BlockOf, HP!HeaderSize
  <2>2. new \in HP!Live'
    BY <1>10
  <2>3. QED BY <1>11, <1>12, <1>13, <1>16, <1>17, <2>1, <2>2 DEF Places
<1>20. QED BY <1>5, <1>18, <1>19 DEF ProcInv
-----------------------------------------------------------------------------
(* The steps that leave the heap alone.                                    *)
LEMMA QuietKeepsInv ==
  ASSUME ProcInv, Start \/ FileCall \/ Return \/ Throw \/ Cancel \/ DeleteContext \/ UNCHANGED vars
  PROVE  ProcInv'
<1>1. UNCHANGED heapVars
  BY DEF Start, FileCall, Return, Throw, Cancel, DeleteContext, vars
<1>2. HP!HeapInv' /\ HP!Live' = HP!Live /\ blocks' = blocks
  BY <1>1, HeapAlone DEF ProcInv
<1>3. /\ HP!Root' = HP!Root /\ HP!Limit' = HP!Limit /\ AboveShell' = AboveShell
      /\ HP!MemPtr(HP!Root)' = HP!MemPtr(HP!Root)
  BY Zenon DEF HP!Root, HP!AlignUp, HP!HeaderSize, HP!Limit, HP!AlignDown, AboveShell, HP!MemPtr
<1>4. \A top : HP!GapStart(top)' = HP!GapStart(top)
  BY <1>2, Zenon DEF HP!GapStart, HP!AlignUp, HP!HeaderSize
<1>5. \A top : Packed(top)' <=> Packed(top)
  BY <1>2, <1>4 DEF Packed
<1>6. ASSUME UNCHANGED shell PROVE ShellOwns' <=> ShellOwns
  BY <1>2, <1>3, <1>6 DEF ShellOwns, HP!BlockOf, HP!HeaderSize
<1> USE DEF ProcInv, ProcTypes, Places, HasShell, StoredInBlock
<1>7. CASE Start
  <2>1. /\ pc = "loaded" /\ pc' = "running" /\ pdb' = child /\ stored' = {}
        /\ UNCHANGED <<shell, child, thrown>>
    BY <1>7 DEF Start
  <2>2. ProcTypes'
    BY <2>1
  <2>3. Places'
    BY <2>1, <1>2, <1>3, <1>6 DEF HP!BlockOf, HP!HeaderSize
  <2>4. QED BY <1>2, <2>2, <2>3
<1>8. CASE FileCall \/ UNCHANGED vars
  <2>1. UNCHANGED <<pc, pdb, shell, child, stored, thrown>>
    BY <1>8 DEF FileCall, procVars, vars
  <2>2. ProcTypes'
    BY <2>1
  <2>3. Places'
    BY <2>1, <1>2, <1>3, <1>4, <1>5, <1>6 DEF HP!BlockOf, HP!HeaderSize
  <2>4. QED BY <1>2, <2>2, <2>3
<1>9. CASE Return \/ Throw \/ Cancel
  <2>1. /\ pc = "running" /\ pc' \in {"leave", "cancelled"} /\ thrown' \in {thrown, TRUE}
        /\ UNCHANGED <<pdb, shell, child, stored>>
    BY <1>9, Zenon DEF Return, Throw, Cancel, procVars
  <2>2. thrown' \in BOOLEAN
    BY <2>1, Zenon
  <2>3. ProcTypes'
    BY <2>1, <2>2
  <2>4. Places'
    BY <2>1, <1>2, <1>3, <1>6 DEF HP!BlockOf, HP!HeaderSize
  <2>5. QED BY <1>2, <2>3, <2>4
<1>10. CASE DeleteContext
  <2>1. pc = "delete" /\ pc' \in {"delete", "ended"} /\ UNCHANGED <<pdb, shell, child, stored, thrown>>
    BY <1>10 DEF DeleteContext, procVars
  <2>2. ProcTypes'
    BY <2>1
  <2>3. Places'
    BY <2>1, <1>2, <1>3 DEF HP!BlockOf, HP!HeaderSize
  <2>4. QED BY <1>2, <2>2, <2>3
<1>11. QED BY <1>7, <1>8, <1>9, <1>10

(* A program's allocations belong to the program.                          *)
LEMMA HeapCallKeepsInv ==
  ASSUME ProcInv, HeapCall
  PROVE  ProcInv'
<1>1. pc = "running" /\ UNCHANGED <<pc, pdb, shell, child, stored, thrown>>
  BY DEF HeapCall, procVars
<1>2. PICK len \in Lengths : HP!Malloc(len, pdb) \/ \E p \in Pointers : HP!SetBlock(p, len)
  BY SameMalloc, SameSetBlock DEF HeapCall
<1>3. /\ HP!HeapInv /\ ProcTypes /\ pdb = child /\ ShellOwns /\ pdb \in Nat /\ len \in Nat
      /\ HP!BlockOf(pdb) # HP!Root /\ HP!BlockOf(pdb) \in HP!Live
  BY <1>1, PartsAssumed DEF ProcInv, Places, ProcTypes, HasShell
<1>4. PICK p \in Nat : HP!Malloc(len, pdb) \/ HP!SetBlock(p, len)
  BY <1>2, PartsAssumed
<1>5. HP!HeapInv'
  BY <1>3, <1>4, PartsAssumed, HP!MallocKeepsInv, HP!SetBlockKeepsInv
<1>6. ShellOwns' /\ HP!Live \subseteq HP!Live'
  BY <1>1, <1>3, <1>4, CallsKeepShell
<1>7. ProcTypes'
  BY <1>1, <1>3 DEF ProcTypes
<1>8. HP!Root' = HP!Root /\ HP!BlockOf(pdb)' = HP!BlockOf(pdb) /\ HP!BlockOf(child)' = HP!BlockOf(child)
  BY <1>1, Zenon DEF HP!Root, HP!AlignUp, HP!HeaderSize, HP!BlockOf
<1>9. stored' = {}
  BY <1>1 DEF ProcInv, Places
<1>10. Places'
  BY <1>1, <1>3, <1>6, <1>8, <1>9 DEF Places, HasShell, StoredInBlock
<1>11. QED BY <1>5, <1>7, <1>10 DEF ProcInv

(* The shell's owner is the root.                                          *)
LEMMA LeaveKeepsInv ==
  ASSUME ProcInv, Leave
  PROVE  ProcInv'
<1>1. /\ pc = "leave" /\ pc' = "free" /\ stored' = {} /\ UNCHANGED <<shell, child, thrown>>
      /\ pdb' = HP!MemPtr(blocks[HP!BlockOf(shell)].parent)
  BY SameHeap DEF Leave
<1>2. HP!HeapInv' /\ HP!Live' = HP!Live /\ blocks' = blocks
  BY HeapAlone DEF ProcInv, Leave
<1>3. HP!HeapInv /\ ProcTypes /\ ShellOwns
  BY <1>1 DEF ProcInv, Places, HasShell
<1>4. pdb' = HP!MemPtr(HP!Root)
  BY <1>1, <1>3 DEF ShellOwns
<1>5. pdb' \in Nat /\ HP!BlockOf(pdb)' = HP!Root
  BY <1>4, Room DEF HP!MemPtr, HP!BlockOf, HP!HeaderSize
<1>6. /\ HP!Root' = HP!Root /\ HP!BlockOf(shell)' = HP!BlockOf(shell)
      /\ HP!MemPtr(HP!Root)' = HP!MemPtr(HP!Root)
  BY <1>1, Zenon DEF HP!Root, HP!AlignUp, HP!HeaderSize, HP!BlockOf, HP!MemPtr
<1>7. ShellOwns'
  BY <1>2, <1>3, <1>6 DEF ShellOwns
<1>8. HP!Root \in HP!Live
  BY <1>3, HeapFacts
<1>9. ProcTypes'
  BY <1>1, <1>3, <1>5 DEF ProcTypes
<1>10. Places'
  BY <1>1, <1>2, <1>4, <1>5, <1>6, <1>7, <1>8 DEF Places, StoredInBlock
<1>11. QED BY <1>2, <1>9, <1>10 DEF ProcInv

(* All but the root's block goes with the shell's.                         *)
LEMMA FreeShellKeepsInv ==
  ASSUME ProcInv, FreeShell
  PROVE  ProcInv'
<1>1. /\ pc = "free" /\ pc' = IF thrown THEN "ended" ELSE "delete"
      /\ HP!MFree(shell) /\ UNCHANGED <<pdb, shell, child, stored, thrown>>
  BY SameMFree DEF FreeShell, procVars
<1>2. HP!HeapInv /\ ProcTypes /\ ShellOwns /\ pdb = HP!MemPtr(HP!Root) /\ shell \in Nat
  BY <1>1 DEF ProcInv, Places, HasShell, ProcTypes
<1>3. HP!HeapInv'
  BY <1>1, <1>2, PartsAssumed, HP!MFreeKeepsInv
<1>4. HP!Live' = {HP!Root}
  BY <1>1, <1>2, FreeShellFrees
<1>5. HP!Root' = HP!Root /\ HP!MemPtr(HP!Root)' = HP!MemPtr(HP!Root)
  BY Zenon DEF HP!Root, HP!AlignUp, HP!HeaderSize, HP!MemPtr
<1>6. HP!BlockOf(pdb)' = HP!Root
  BY <1>1, <1>2, Room DEF HP!MemPtr, HP!BlockOf, HP!HeaderSize
<1>7. pc' \in {"ended", "delete"}
  BY <1>1
<1>8. ProcTypes'
  BY <1>1, <1>2, <1>7 DEF ProcTypes
<1>9. stored' = {}
  BY <1>1 DEF ProcInv, Places
<1>10. Places'
  BY <1>1, <1>2, <1>4, <1>5, <1>6, <1>7, <1>9 DEF Places, HasShell, StoredInBlock
<1>11. QED BY <1>3, <1>8, <1>10 DEF ProcInv

LEMMA NextKeepsProcInv == ProcInv /\ [Next]_vars => ProcInv'
<1> SUFFICES ASSUME ProcInv, [Next]_vars PROVE ProcInv'
  OBVIOUS
<1>1. CASE CreateContext
  BY <1>1, CreateContextKeepsInv
<1>2. CASE NewShell
  BY <1>2, NewShellKeepsInv
<1>3. CASE CreateEnv
  BY <1>3, CreateEnvKeepsInv
<1>4. CASE Load
  BY <1>4, LoadKeepsInv
<1>5. CASE Start \/ FileCall \/ Return \/ Throw \/ Cancel \/ DeleteContext \/ UNCHANGED vars
  BY <1>5, QuietKeepsInv
<1>6. CASE HeapCall
  BY <1>6, HeapCallKeepsInv
<1>7. CASE Leave
  BY <1>7, LeaveKeepsInv
<1>8. CASE FreeShell
  BY <1>8, FreeShellKeepsInv
<1>9. QED
  BY <1>1, <1>2, <1>3, <1>4, <1>5, <1>6, <1>7, <1>8 DEF Next, Ended
-----------------------------------------------------------------------------
(* The files, of which the heap knows nothing.                             *)
FilesInv == FP!FileInv /\ FilesShape /\ ProcTypes

LEMMA FilesBounds ==
  ASSUME FP!FileInv
  PROVE  /\ held \in [Context -> 0 .. FP!NSLOTS] /\ Ctx \in Context
         /\ FP!NSLOTS \in Nat /\ FP!NSLOTS > 0
<1>1. held \in [Context -> 0 .. FP!NSLOTS]
  BY DEF FP!FileInv, FP!SlotsOK
<1>2. FP!NSLOTS \in Nat /\ FP!NSLOTS > 0
  BY ProcessAssumption DEF FP!NSLOTS, FP!NSTD
<1>3. QED BY <1>1, <1>2, ProcessAssumption

LEMMA InitFilesInv == Init => FilesInv
<1> SUFFICES ASSUME Init PROVE FilesInv
  OBVIOUS
<1>1. FP!Init
  BY SameFiles DEF Init
<1>2. FP!FileInv
  BY <1>1, PartsAssumed, FP!InitFileInv
<1>3. \A c \in Context : held[c] = 0
  BY <1>1 DEF FP!Init
<1>4. pc = "start"
  BY DEF Init
<1>5. FilesShape
  BY <1>3, <1>4, ProcessAssumption DEF FilesShape
<1>6. QED BY <1>2, <1>5, InitProcInv DEF FilesInv, ProcInv

(* A step that is one of the files'.                                       *)
LEMMA FilesStep ==
  ASSUME FP!FileInv, [FP!Next]_fileVars
  PROVE  FP!FileInv'
<1>1. [FP!Next]_(FP!vars)
  BY DEF fileVars, FP!vars
<1>2. QED BY <1>1, PartsAssumed, FP!NextKeepsFileInv

LEMMA FileCallSteps ==
  ASSUME FP!FileInv, FileCall
  PROVE  FP!Next /\ UNCHANGED held
<1>1. \/ Files!OpenCon(Ctx) \/ Files!OpenRegular(Ctx) \/ Files!OpenFail(Ctx)
      \/ \E fd \in Files!Fd : Files!Dup(Ctx, fd) \/ Files!Close(Ctx, fd)
  BY DEF FileCall
<1>2. \/ FP!OpenCon(Ctx) \/ FP!OpenRegular(Ctx) \/ FP!OpenFail(Ctx)
      \/ \E fd \in FP!Fd : FP!Dup(Ctx, fd) \/ FP!Close(Ctx, fd)
  BY <1>1, SameFiles, Zenon
<1>3. Ctx \in Context
  BY ProcessAssumption
<1>4. FP!Next
  BY <1>2, <1>3, Zenon DEF FP!Next
<1>5. UNCHANGED held
  BY <1>2, Zenon DEF FP!OpenCon, FP!OpenRegular, FP!OpenFail, FP!Dup, FP!Close
<1>6. QED BY <1>4, <1>5

LEMMA NextKeepsFilesInv == FilesInv /\ ProcInv /\ [Next]_vars => FilesInv'
<1> SUFFICES ASSUME FilesInv, ProcInv, [Next]_vars PROVE FilesInv'
  OBVIOUS
<1>1. FP!FileInv /\ FilesShape /\ ProcTypes /\ ProcTypes'
  BY NextKeepsProcInv DEF FilesInv, ProcInv
<1>2. /\ held \in [Context -> 0 .. FP!NSLOTS] /\ Ctx \in Context
      /\ FP!NSLOTS \in Nat /\ FP!NSLOTS > 0
  BY <1>1, FilesBounds
<1>3. FP!NSLOTS' = FP!NSLOTS
  BY Zenon DEF FP!NSLOTS, FP!NSTD
<1>4. CASE CreateContext
  <2>1. FP!CreateContext(Ctx) /\ pc = "start" /\ pc' = "shell"
    BY <1>4, SameFiles DEF CreateContext
  <2>2. FP!FileInv'
    BY <1>1, <1>2, <2>1, FilesStep, Zenon DEF FP!Next
  <2>3. held' = [held EXCEPT ![Ctx] = FP!NSLOTS]
    BY <2>1 DEF FP!CreateContext
  <2>4. FilesShape'
    BY <1>1, <1>2, <1>3, <2>1, <2>3 DEF FilesShape
  <2>5. QED BY <1>1, <2>2, <2>4 DEF FilesInv
<1>5. CASE FileCall
  <2>1. FP!FileInv' /\ held' = held
    BY <1>1, <1>5, FileCallSteps, FilesStep
  <2>2. UNCHANGED <<pc, thrown>>
    BY <1>5 DEF FileCall, procVars
  <2>3. FilesShape'
    BY <1>1, <1>3, <2>1, <2>2 DEF FilesShape
  <2>4. QED BY <1>1, <2>1, <2>3 DEF FilesInv
<1>6. CASE DeleteContext
  <2>1. FP!Destroy(Ctx) /\ pc = "delete" /\ thrown' = thrown
        /\ pc' = IF held'[Ctx] = 0 THEN "ended" ELSE "delete"
    BY <1>6, SameFiles DEF DeleteContext, procVars
  <2>2. FP!FileInv'
    BY <1>1, <1>2, <2>1, FilesStep, Zenon DEF FP!Next
  <2>3. held' = [held EXCEPT ![Ctx] = @ - 1]
    BY <2>1 DEF FP!Destroy
  <2>4. FilesShape'
    BY <1>1, <1>2, <2>1, <2>3 DEF FilesShape
  <2>5. QED BY <1>1, <2>2, <2>4 DEF FilesInv
<1>7. CASE NewShell \/ CreateEnv \/ Load \/ Start \/ HeapCall \/ Return \/ Throw \/ Cancel
           \/ Leave \/ FreeShell \/ UNCHANGED vars
  <2>1. UNCHANGED fileVars
    BY <1>7 DEF NewShell, CreateEnv, Load, Start, HeapCall, Return, Throw, Cancel, Leave,
                FreeShell, vars
  <2>2. FP!FileInv' /\ held' = held
    BY <1>1, <2>1, FilesStep DEF fileVars
  <2>3. CASE pc' = pc /\ UNCHANGED thrown
    BY <1>1, <1>3, <2>2, <2>3 DEF FilesInv, FilesShape
  <2>4. CASE pc \notin {"start", "delete", "ended"} /\ pc' \notin {"start", "delete", "ended"}
    BY <1>1, <1>3, <2>2, <2>4 DEF FilesInv, FilesShape
  <2>5. CASE FreeShell
    <3>1. pc = "free" /\ pc' = (IF thrown THEN "ended" ELSE "delete") /\ thrown' = thrown
      BY <2>5 DEF FreeShell, procVars
    <3>2. FilesShape'
      BY <1>1, <1>3, <2>2, <3>1 DEF FilesShape, ProcTypes
    <3>3. QED BY <1>1, <2>2, <3>2 DEF FilesInv
  <2>6. QED
    BY <1>7, <1>1, <2>3, <2>4, <2>5 DEF NewShell, CreateEnv, Load, Start, HeapCall, Return,
       Throw, Cancel, Leave, vars, procVars, ProcTypes
<1>8. QED
  BY <1>4, <1>5, <1>6, <1>7, Zenon DEF Next, Ended

(* An object that nothing holds is gone, and its host descriptor with it.  *)
LEMMA NothingHeld ==
  ASSUME FP!FileInv, FilesShape, held[Ctx] = 0
  PROVE  FP!LiveFile = {} /\ hostOpen = {}
<1>1. \A c \in Context : held[c] = 0
  BY DEF FilesShape
<1>2. ASSUME NEW f \in File PROVE FP!Holders(f) = {}
  <2>1. ASSUME NEW h \in Context \X FP!Slot PROVE ~(h[2] < held[h[1]])
    <3>1. h[1] \in Context /\ h[2] \in FP!Slot
      OBVIOUS
    <3>2. FP!Slot \subseteq Nat
      BY DEF FP!Slot
    <3>3. PICK k \in Nat : k = h[2]
      BY <3>1, <3>2
    <3>4. held[h[1]] = 0
      BY <1>1, <3>1
    <3>5. ~(k < 0)
      OBVIOUS
    <3>6. QED BY <3>3, <3>4, <3>5
  <2>2. QED BY <2>1, Zenon DEF FP!Holders
<1>3. /\ FP!LiveFile \subseteq File /\ FP!RefCountExact
      /\ files \in [FP!LiveFile -> [refs : Nat \ {0}, fd : HostFd \cup {NULL}]]
      /\ \A fd \in hostOpen : \E f \in FP!LiveFile : files[f].fd = fd
  BY DEF FP!FileInv, FP!ObjectsOK, FP!HostFdsUnique
<1>4. ASSUME NEW f \in FP!LiveFile PROVE FALSE
  <2>1. files[f].refs = FP!Cardinality(FP!Holders(f)) /\ FP!Holders(f) = {}
    BY <1>2, <1>3, Zenon DEF FP!RefCountExact
  <2>2. files[f].refs \in Nat \ {0}
    BY <1>3
  <2>3. FP!Cardinality({}) = 0
    BY PartsAssumed, FP!FS_EmptySet
  <2>4. QED BY <2>1, <2>2, <2>3
<1>5. QED BY <1>3, <1>4
-----------------------------------------------------------------------------
LEMMA AlwaysInv == Spec => [](ProcInv /\ FilesInv)
BY InitProcInv, InitFilesInv, NextKeepsProcInv, NextKeepsFilesInv, PTL DEF Spec

(* The shell's block lives while the shell does, the program's while it    *)
(* runs, and the table of descriptors is whole but in its destructor.      *)
THEOREM ProcessTypeCorrect == Spec => []TypeOK
<1>1. ProcInv /\ FilesInv => TypeOK
  BY SameHeap, SameFiles DEF ProcInv, FilesInv, ProcTypes, Places, ShellOwns, FilesShape,
     TypeOK, HasShell
<1>2. QED BY <1>1, AlwaysInv, PTL

(* The block for which _MALLOC allocates is never a freed one, in the      *)
(* shell's destructor too, whatever the program allocated.                 *)
THEOREM CurrentProcessIsLive == Spec => []CurrentProcessLive
<1>1. ProcInv /\ FilesInv => CurrentProcessLive
  BY SameHeap DEF ProcInv, Places, CurrentProcessLive
<1>2. QED BY <1>1, AlwaysInv, PTL

(* Of the heap load changes what is in the program's own block only, for   *)
(* any sizes of shell, environment and program, any fix-ups that do not go *)
(* round the address space, and any map behind main memory.                *)
THEOREM LoadStaysInBlock == Spec => []LoadSparesHeap
<1>1. ProcInv /\ FilesInv => LoadSparesHeap
  BY SameHeap DEF ProcInv, Places, StoredInBlock, LoadSparesHeap
<1>2. QED BY <1>1, AlwaysInv, PTL

(* The shell's destructor gives back all of the heap, after any sequence   *)
(* of _MALLOC and _SETBLOCK and on every way out of exec.                  *)
THEOREM HeapIsGivenBack == Spec => []HeapGivenBack
<1>1. ProcInv /\ FilesInv => HeapGivenBack
  BY SameHeap DEF ProcInv, Places, HeapGivenBack
<1>2. QED BY <1>1, AlwaysInv, PTL

(* The context's destructor deletes every file object and closes every     *)
(* descriptor of the host, whatever the program opened and duplicated.     *)
THEOREM FilesAreGivenBack == Spec => []FilesGivenBack
<1>1. ProcInv /\ FilesInv => FilesGivenBack
  <2> SUFFICES ASSUME FilesInv, pc = "ended", ~thrown
               PROVE  Files!LiveFile = {} /\ hostOpen = {}
    BY DEF FilesGivenBack
  <2>1. held[Ctx] = 0
    BY DEF FilesInv, FilesShape
  <2>2. FP!LiveFile = {} /\ hostOpen = {}
    BY <2>1, NothingHeld DEF FilesInv
  <2>3. QED BY <2>2, SameFiles
<1>2. QED BY <1>1, AlwaysInv, PTL
===============================================================================
