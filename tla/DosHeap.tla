------------------------------- MODULE DosHeap -------------------------------
(***************************************************************************)
(* What vx68k's DOS heap promises its callers: the calls of                *)
(* memory_allocator (libvx68kdos/allocator.cc) as atomic steps on a map    *)
(* from block addresses to block ends and parents.                         *)
(*                                                                         *)
(* A block is a 16-byte header in guest memory followed by its data.  The  *)
(* heap is a tree: a block's parent is the process block that was current  *)
(* when it was allocated, and freeing a block frees all it owns.           *)
(*                                                                         *)
(* Lengths are mathematical integers here.  MemoryAllocator has the code's *)
(* linked list and 32-bit words, and is checked to implement this module.  *)
(***************************************************************************)
EXTENDS Integers, FiniteSets

CONSTANTS
  Address,   \* where the heap starts: the constructor's 2nd argument
  Lim,       \* where it ends: the constructor's 3rd argument
  Lengths,   \* the block lengths callers ask for
  Pointers   \* the memory pointers callers pass

(* A block header: prev, parent, end, next, four bytes each.               *)
HeaderSize == 16

AlignUp(a)   == ((a + HeaderSize - 1) \div HeaderSize) * HeaderSize
AlignDown(a) == (a \div HeaderSize) * HeaderSize

Root  == AlignUp(Address)
Limit == AlignDown(Lim)

ASSUME HeapAssumption ==
  /\ Address \in Nat \ {0}
  /\ Lim \in Nat
  /\ Root + HeaderSize <= Limit
  /\ Lengths \subseteq Nat
  /\ Pointers \subseteq Nat

VARIABLES
  blocks,    \* block address |-> [end, parent]
  ret        \* what the last call returned

vars == <<blocks, ret>>
-----------------------------------------------------------------------------
(* A block address and the memory pointer callers hold for it.             *)
BlockOf(memptr) == memptr - HeaderSize
MemPtr(b)       == b + HeaderSize

Block(end, parent) == [end |-> end, parent |-> parent]

(* Return values: a pointer or 0; 0x81000000 + n, where n is the longest   *)
(* length that would do; 0x82000000; and -9.                               *)
Success(v)   == [status |-> "success", value |-> v]
Shortage(n)  == [status |-> "shortage", value |-> n]
NoMemory     == [status |-> "nomemory", value |-> 0]
NoMatch      == [status |-> "nomatch", value |-> 0]

(* What a refused call reports when the most it could have had is `room'   *)
(* bytes, header included.                                                 *)
Refusal(room) == IF room = HeaderSize THEN NoMemory ELSE Shortage(room - HeaderSize)

Live == DOMAIN blocks

(* The end of the space a block could grow into: the next block, or the    *)
(* end of the heap.                                                        *)
Above(b)  == {c \in Live : c > b} \cup {Limit}
NextOf(b) == CHOOSE n \in Above(b) : \A c \in Above(b) : n <= c

(* Wrong: the next header right behind the data.                           *)
GapStartUnaligned(b) == blocks[b].end

(* The gap after a block.                                                  *)
GapStart(b) == AlignUp(blocks[b].end)
FreeLen(b)  == NextOf(b) - GapStart(b)

(* The room a refused allocation reports; a gap without room for more than *)
(* a header does not count.                                                *)
IsMaxFreeLen(room) ==
  /\ room \in {HeaderSize} \cup {FreeLen(b) : b \in Live}
  /\ room >= HeaderSize
  /\ \A b \in Live : FreeLen(b) <= room

(* A block with all it owns, directly or not: the least set of blocks that *)
(* has b and every block with a parent in it.                              *)
ClosedUnderChildren(S) == \A c \in Live : blocks[c].parent \in S => c \in S
Subtree(b) ==
  {c \in Live : \A S \in SUBSET Live : b \in S /\ ClosedUnderChildren(S) => c \in S}
-----------------------------------------------------------------------------
Init ==
  /\ blocks = [b \in {Root} |-> Block(Root + HeaderSize, 0)]
  /\ ret = Success(0)

(* Wrong: a block that owns itself.                                        *)
MakeBlockSelfOwned(b, len, parent) ==
  blocks' = [c \in Live \cup {b} |->
               IF c = b THEN Block(b + len, b) ELSE blocks[c]]

MakeBlock(b, len, parent) ==
  blocks' = [c \in Live \cup {b} |->
               IF c = b THEN Block(b + len, parent) ELSE blocks[c]]

RemoveBlocks(S) == blocks' = [c \in Live \ S |-> blocks[c]]

(* alloc: first fit from the top of the heap.                              *)
Malloc(len, parent) ==
  LET needed == len + HeaderSize IN
  /\ BlockOf(parent) \in Live
  /\ \/ \E b \in Live :
          /\ FreeLen(b) >= needed
          /\ \A c \in Live : c > b => FreeLen(c) < needed
          /\ MakeBlock(GapStart(b), needed, BlockOf(parent))
          /\ ret' = Success(MemPtr(GapStart(b)))
     \/ /\ \A b \in Live : FreeLen(b) < needed
        /\ \E room \in {HeaderSize} \cup {FreeLen(b) : b \in Live} :
             IsMaxFreeLen(room) /\ ret' = Refusal(room)
        /\ UNCHANGED blocks

(* alloc_largest: all of the longest gap, the highest of several.          *)
MallocLargest(parent) ==
  /\ BlockOf(parent) \in Live
  /\ \/ \E b \in Live :
          /\ FreeLen(b) > HeaderSize
          /\ \A c \in Live : FreeLen(c) <= FreeLen(b)
          /\ \A c \in Live : c > b => FreeLen(c) < FreeLen(b)
          /\ MakeBlock(GapStart(b), FreeLen(b), BlockOf(parent))
          /\ ret' = Success(MemPtr(GapStart(b)))
     \/ /\ \A b \in Live : FreeLen(b) <= HeaderSize
        /\ ret' = NoMemory
        /\ UNCHANGED blocks

(* Wrong: reports what is missing, not what is there.                      *)
SetBlockMissing(memptr, newlen) ==
  LET b == BlockOf(memptr) IN
  /\ b \in Live
  /\ memptr + newlen > NextOf(b)
  /\ ret' = Refusal(NextOf(b) - (memptr + newlen))
  /\ UNCHANGED blocks

(* resize: in place, as far as the next block.                             *)
SetBlock(memptr, newlen) ==
  LET b == BlockOf(memptr) IN
  \/ /\ b \in Live
     /\ memptr + newlen <= NextOf(b)
     /\ blocks' = [blocks EXCEPT ![b].end = memptr + newlen]
     /\ ret' = Success(0)
  \/ /\ b \in Live
     /\ memptr + newlen > NextOf(b)
     /\ ret' = Refusal(NextOf(b) - b)
     /\ UNCHANGED blocks
  \/ /\ b \notin Live
     /\ ret' = NoMatch
     /\ UNCHANGED blocks

(* Wrong: leaves behind what the block owns.                               *)
MFreeAlone(memptr) ==
  LET b == BlockOf(memptr) IN
  /\ b # Root
  /\ b \in Live
  /\ RemoveBlocks({b})
  /\ ret' = Success(0)

(* free.  No caller frees the root block.                                  *)
MFree(memptr) ==
  LET b == BlockOf(memptr) IN
  /\ b # Root
  /\ \/ /\ b \in Live
        /\ RemoveBlocks(Subtree(b))
        /\ ret' = Success(0)
     \/ /\ b \notin Live
        /\ ret' = NoMatch
        /\ UNCHANGED blocks

(* free_by_parent: all that a process owns, but not the process block.     *)
FreeByParent(parent) ==
  LET b == BlockOf(parent) IN
  /\ b \in Live
  /\ RemoveBlocks(Subtree(b) \ {b})
  /\ ret' = Success(0)

Next ==
  \E p \in Pointers :
    \/ \E len \in Lengths : Malloc(len, p)
    \/ \E len \in Lengths : SetBlock(p, len)
    \/ MallocLargest(p)
    \/ MFree(p)
    \/ FreeByParent(p)

Spec == Init /\ [][Next]_vars
-----------------------------------------------------------------------------
(* The heap is a map from addresses to headers.                            *)
TypeOK ==
  /\ IsFiniteSet(Live)
  /\ Live \subseteq Nat
  /\ blocks \in [Live -> [end : Nat, parent : Nat]]
  /\ ret \in [status : {"success", "shortage", "nomemory", "nomatch"}, value : Nat]

(* However the calls are interleaved, every block keeps its header, ends   *)
(* within the heap, and overlaps no other block: what resize grows and     *)
(* what make_block places into a gap never reaches a neighbour's header.   *)
Layout ==
  /\ Root \in Live
  /\ \A b \in Live :
       /\ b % HeaderSize = 0
       /\ Root <= b
       /\ b + HeaderSize <= blocks[b].end
       /\ blocks[b].end <= Limit
       /\ \A c \in Live : b < c => blocks[b].end <= c

(* No block outlives its owner: freeing a process block takes all that the *)
(* process and its children still held, so nothing is leaked or dangling.  *)
ParentsLive ==
  /\ blocks[Root].parent = 0
  /\ \A b \in Live \ {Root} : blocks[b].parent \in Live

(* Every live block is owned, directly or not, by the root block: there is *)
(* no cycle of owners, on which free_by_parent would recur for ever, and   *)
(* no island that the end of every process would leave behind.             *)
Rooted == Subtree(Root) = Live
=============================================================================
