--------------------------- MODULE MemoryAllocator ---------------------------
(***************************************************************************)
(* memory_allocator (libvx68kdos/allocator.cc) as the code has it: a list  *)
(* of 16-byte headers in guest memory, linked in address order and walked  *)
(* from its top, one step per turn of a loop; free_by_parent with the      *)
(* stack of its activations; and words that wrap at W, 2^32 in the code.   *)
(*                                                                         *)
(* A header that remove_block unlinks stays in memory as it was, and the   *)
(* walk of free_by_parent that unlinked it reads it.                       *)
(***************************************************************************)
EXTENDS Integers, Sequences, FiniteSets

CONSTANTS
  Address, Lim,   \* the constructor's arguments
  Lengths,        \* the lengths callers ask for
  Pointers,       \* the memory pointers callers pass
  W               \* one more than the greatest word

HeaderSize == 16

Plus(a, b)   == (a + b) % W
Minus(a, b)  == (a - b) % W
AlignUp(a)   == (Plus(a, HeaderSize - 1) \div HeaderSize) * HeaderSize
AlignDown(a) == (a \div HeaderSize) * HeaderSize

Root  == AlignUp(Address)
Limit == AlignDown(Lim)

ASSUME AllocatorAssumption ==
  /\ W \in Nat /\ W % HeaderSize = 0
  /\ Address \in 1 .. W - 1
  /\ Lim \in 0 .. W - 1
  /\ 0 < Root /\ Root + HeaderSize <= Limit
  /\ Lengths \subseteq 0 .. W - 1
  /\ Pointers \subseteq 0 .. W - 1

VARIABLES
  mem,      \* header address |-> header, the unlinked ones included
  last,     \* last_block
  call,     \* the call in progress and its arguments
  scan,     \* the local variables of alloc, alloc_largest, resize and free
  frames,   \* the activations of free_by_parent
  ret       \* what the last call returned

vars == <<mem, last, call, scan, frames, ret>>
-----------------------------------------------------------------------------
BlockOf(memptr) == Minus(memptr, HeaderSize)
MemPtr(b)       == Plus(b, HeaderSize)

Header(prev, parent, end, next) ==
  [prev |-> prev, parent |-> parent, end |-> end, next |-> next]

Success(v)   == [status |-> "success", value |-> v]
Shortage(n)  == [status |-> "shortage", value |-> n]
NoMemory     == [status |-> "nomemory", value |-> 0]
NoMatch      == [status |-> "nomatch", value |-> 0]
Corrupt      == [status |-> "corrupt", value |-> 0]     \* -7
Refusal(room) ==
  IF room = HeaderSize THEN NoMemory ELSE Shortage(Minus(room, HeaderSize))

Idle == [name |-> "none", ptr |-> 0, len |-> 0]
Call(name, ptr, len) == [name |-> name, ptr |-> ptr, len |-> len]

(* A loop over the blocks starts at the top.  `next' is what the block     *)
(* could grow up to; the rest is what alloc and alloc_largest keep of the  *)
(* gaps they passed.                                                       *)
ScanFrom(block) ==
  [block |-> block, next |-> Limit, room |-> HeaderSize, best |-> 0, candidate |-> 0]

Frame(owner, block) == [owner |-> owner, block |-> block]

(* The headers linked from last_block: those within n links of it, for an  *)
(* n that reaches them all.                                                *)
Linked ==
  LET within[n \in Nat] ==
        IF n = 0 THEN {last}
        ELSE LET nearer == within[n - 1] IN
             nearer \cup ({mem[b].prev : b \in nearer} \cap DOMAIN mem)
  IN within[Cardinality(DOMAIN mem)]
-----------------------------------------------------------------------------
Init ==
  /\ mem = [b \in {Root} |-> Header(0, 0, Plus(Root, HeaderSize), 0)]
  /\ last = Root
  /\ call = Idle
  /\ scan = ScanFrom(0)
  /\ frames = <<>>
  /\ ret = Success(0)

(* make_block and remove_block: a doubly linked list's insertion after     *)
(* `prev', and removal.                                                    *)
MakeBlock(block, len, prev, parent) ==
  LET next   == mem[prev].next
      linked == [b \in DOMAIN mem \cup {block} |->
                   IF b = block THEN Header(prev, parent, Plus(block, len), next)
                                ELSE mem[b]]
      after  == [linked EXCEPT ![prev].next = block]
  IN IF next # 0 THEN /\ mem' = [after EXCEPT ![next].prev = block]
                      /\ UNCHANGED last
                 ELSE mem' = after /\ last' = block

(* Wrong: the next header still points back to the removed one.            *)
UnlinkedOneWay(block) ==
  [mem EXCEPT ![mem[block].prev].next = mem[block].next]

Unlinked(block) ==
  LET prev  == mem[block].prev
      next  == mem[block].next
      after == [mem EXCEPT ![prev].next = next]
  IN IF next # 0 THEN [after EXCEPT ![next].prev = prev] ELSE after

(* Wrong: next, which is 0, for prev.                                      *)
LastWithoutWrong(block) ==
  IF mem[block].next # 0 THEN last ELSE mem[block].next

LastWithout(block) == IF mem[block].next # 0 THEN last ELSE mem[block].prev

RemoveBlock(block) ==
  mem' = Unlinked(block) /\ last' = LastWithout(block)

Return(v) ==
  /\ call' = Idle
  /\ scan' = ScanFrom(0)
  /\ frames' = <<>>
  /\ ret' = v

Begin(name, ptr, len) ==
  /\ call = Idle
  /\ call' = Call(name, ptr, len)
  /\ scan' = ScanFrom(last)
  /\ UNCHANGED <<mem, last, frames, ret>>

(* The block at hand and the test every loop begins with.                  *)
Scanning(name)  == call.name = name /\ frames = <<>>
Exhausted       == scan.block = 0
OutOfOrder      == Plus(scan.block, HeaderSize) > scan.next
AtBlock(name)   == Scanning(name) /\ ~Exhausted /\ ~OutOfOrder

Candidate == AlignUp(mem[scan.block].end)
FreeLen   == Minus(scan.next, Candidate)

-----------------------------------------------------------------------------
Live(b) == b \in Linked

BeginAlloc(len, parent) ==
  Live(BlockOf(parent)) /\ Begin("alloc", parent, len)

Needed == Plus(call.len, HeaderSize)

AllocHere ==
  /\ AtBlock("alloc")
  /\ FreeLen >= Needed
  /\ MakeBlock(Candidate, Needed, scan.block, BlockOf(call.ptr))
  /\ Return(Success(MemPtr(Candidate)))

AllocNext ==
  /\ AtBlock("alloc")
  /\ FreeLen < Needed
  /\ scan' = [scan EXCEPT !.room = IF FreeLen > @ THEN FreeLen ELSE @,
                          !.next = scan.block,
                          !.block = mem[scan.block].prev]
  /\ UNCHANGED <<mem, last, call, frames, ret>>
-----------------------------------------------------------------------------
BeginLargest(parent) ==
  Live(BlockOf(parent)) /\ Begin("largest", parent, 0)

LargestNext ==
  /\ AtBlock("largest")
  /\ LET longer == FreeLen > scan.room IN
     scan' = [block |-> mem[scan.block].prev,
              next |-> scan.block,
              room |-> IF longer THEN FreeLen ELSE scan.room,
              best |-> IF longer THEN scan.block ELSE scan.best,
              candidate |-> IF longer THEN Candidate ELSE scan.candidate]
  /\ UNCHANGED <<mem, last, call, frames, ret>>

LargestEnd ==
  /\ Scanning("largest") /\ Exhausted
  /\ IF scan.room = HeaderSize
     THEN Return(NoMemory) /\ UNCHANGED <<mem, last>>
     ELSE /\ MakeBlock(scan.candidate, scan.room, scan.best, BlockOf(call.ptr))
          /\ Return(Success(MemPtr(scan.candidate)))
-----------------------------------------------------------------------------
BeginResize(memptr, newlen) == Begin("resize", memptr, newlen)

NewBrk == Plus(call.ptr, call.len)

ResizeHere ==
  /\ AtBlock("resize") /\ scan.block = BlockOf(call.ptr)
  /\ IF scan.next < NewBrk
     THEN /\ Return(Refusal(Minus(scan.next, scan.block)))
          /\ UNCHANGED <<mem, last>>
     ELSE /\ mem' = [mem EXCEPT ![scan.block].end = NewBrk]
          /\ Return(Success(0))
          /\ UNCHANGED last

(* Wrong: the slip that free has, where it does no harm.                   *)
ResizeNextToLimit ==
  /\ AtBlock("resize") /\ scan.block # BlockOf(call.ptr)
  /\ scan' = [scan EXCEPT !.next = Limit, !.block = mem[scan.block].prev]
  /\ UNCHANGED <<mem, last, call, frames, ret>>

ResizeNext ==
  /\ AtBlock("resize") /\ scan.block # BlockOf(call.ptr)
  /\ scan' = [scan EXCEPT !.next = scan.block, !.block = mem[scan.block].prev]
  /\ UNCHANGED <<mem, last, call, frames, ret>>

(* A loop that ends without success: on a list that is out of order, or   *)
(* with no gap that is long enough, or no block that matches.              *)
GiveUp ==
  /\ frames = <<>> /\ call # Idle
  /\ IF Exhausted THEN call.name # "largest" ELSE OutOfOrder
  /\ Return(IF ~Exhausted THEN Corrupt
            ELSE IF call.name = "alloc" THEN Refusal(scan.room)
            ELSE NoMatch)
  /\ UNCHANGED <<mem, last>>
-----------------------------------------------------------------------------
(* No caller frees the root block.                                         *)
BeginFree(memptr) == BlockOf(memptr) # Root /\ Begin("free", memptr, 0)

(* Wrong: stays at the block that did not match.                           *)
FreeNextStuck ==
  /\ AtBlock("free") /\ scan.block # BlockOf(call.ptr)
  /\ scan' = [scan EXCEPT !.next = Limit]
  /\ UNCHANGED <<mem, last, call, frames, ret>>

(* free resets `next' at every turn, so it compares with the limit only.   *)
FreeNext ==
  /\ AtBlock("free") /\ scan.block # BlockOf(call.ptr)
  /\ scan' = [scan EXCEPT !.next = Limit, !.block = mem[scan.block].prev]
  /\ UNCHANGED <<mem, last, call, frames, ret>>

FreeHere ==
  /\ AtBlock("free") /\ scan.block = BlockOf(call.ptr)
  /\ frames' = <<Frame(scan.block, last)>>
  /\ UNCHANGED <<mem, last, call, scan, ret>>

BeginFreeByParent(parent) ==
  /\ Live(BlockOf(parent))
  /\ call = Idle
  /\ call' = Call("byparent", parent, 0)
  /\ frames' = <<Frame(BlockOf(parent), last)>>
  /\ UNCHANGED <<mem, last, scan, ret>>

(* The innermost activation of free_by_parent, and its loop.               *)
Depth == Len(frames)
Top   == frames[Depth]

OwnedHere == Top.block # 0 /\ mem[Top.block].parent = Top.owner

(* Wrong: unlinks the block before it frees what the block owns.           *)
DescendAfterRemoval ==
  /\ frames # <<>> /\ OwnedHere
  /\ RemoveBlock(Top.block)
  /\ frames' = Append(frames, Frame(Top.block, last'))
  /\ UNCHANGED <<call, scan, ret>>

Descend ==
  /\ frames # <<>> /\ OwnedHere
  /\ frames' = Append(frames, Frame(Top.block, last))
  /\ UNCHANGED <<mem, last, call, scan, ret>>

Advance ==
  /\ frames # <<>> /\ Top.block # 0 /\ ~OwnedHere
  /\ frames' = [frames EXCEPT ![Depth].block = mem[Top.block].prev]
  /\ UNCHANGED <<mem, last, call, scan, ret>>

(* A nested activation returns: its caller unlinks the block and walks on  *)
(* from the header it has just unlinked.                                   *)
Ascend ==
  /\ Depth > 1 /\ Top.block = 0
  /\ LET caller == frames[Depth - 1] IN
     /\ RemoveBlock(caller.block)
     /\ frames' = [i \in 1 .. Depth - 1 |->
                     IF i < Depth - 1 THEN frames[i]
                     ELSE [caller EXCEPT !.block = mem'[caller.block].prev]]
  /\ UNCHANGED <<call, scan, ret>>

(* The outermost one returns, to free or to the caller.  The headers that  *)
(* the call unlinked are forgotten then: no later call reads one before    *)
(* make_block has written all of it (TLC would stop at such a read).       *)
FreeEnd ==
  /\ Depth = 1 /\ Top.block = 0
  /\ IF call.name = "free"
     THEN /\ mem' = [b \in Linked \ {Top.owner} |-> Unlinked(Top.owner)[b]]
          /\ last' = LastWithout(Top.owner)
     ELSE /\ mem' = [b \in Linked |-> mem[b]]
          /\ UNCHANGED last
  /\ Return(Success(0))
-----------------------------------------------------------------------------
Begins ==
  \E p \in Pointers :
    \/ \E len \in Lengths : BeginAlloc(len, p) \/ BeginResize(p, len)
    \/ BeginLargest(p)
    \/ BeginFree(p)
    \/ BeginFreeByParent(p)

Step ==
  \/ AllocHere \/ AllocNext
  \/ LargestNext \/ LargestEnd
  \/ ResizeHere \/ ResizeNext
  \/ FreeNext \/ FreeHere
  \/ GiveUp
  \/ Descend \/ Advance \/ Ascend \/ FreeEnd

Next == Begins \/ Step

(* A call that has begun runs: the allocator takes no lock and waits for   *)
(* nothing.                                                                *)
Spec == Init /\ [][Next]_vars /\ WF_vars(Step)
-----------------------------------------------------------------------------
TypeOK ==
  LET Words == 0 .. W - 1 IN
  /\ DOMAIN mem \subseteq Words
  /\ mem \in [DOMAIN mem -> [prev : Words, parent : Words, end : Words, next : Words]]
  /\ last \in DOMAIN mem
  /\ call \in [name : {"none", "alloc", "largest", "resize", "free", "byparent"},
               ptr : Words, len : Words]
  /\ scan \in [block : Words, next : Words, room : Words, best : Words,
               candidate : Words]
  /\ frames \in Seq([owner : Words, block : Words])
  /\ ret.value \in Words

(* The list that the walks rely on, in the middle of a nested free too:    *)
(* strictly ascending from the root to last_block, with prev and next      *)
(* mirroring each other.                                                   *)
ListInOrder ==
  /\ Root \in Linked /\ mem[Root].prev = 0
  /\ last \in Linked /\ mem[last].next = 0
  /\ \A b \in Linked \ {Root} :
       mem[b].prev \in Linked /\ mem[b].prev < b /\ mem[mem[b].prev].next = b
  /\ \A b \in Linked \ {last} :
       mem[b].next \in Linked /\ mem[mem[b].next].prev = b

(* No activation of free_by_parent stands on, or frees for, a block that   *)
(* has been unlinked, although the inner ones unlink blocks all over the   *)
(* list that the outer ones are walking; and no block is being freed by    *)
(* two of them, which bounds the depth of the recursion.                   *)
WalksStayLinked ==
  \A i \in 1 .. Depth :
    /\ frames[i].owner \in Linked
    /\ frames[i].block \in Linked \cup {0}
    /\ \A j \in 1 .. i - 1 : frames[i].owner # frames[j].owner

(* A resized block has the length that was asked for, and an allocated one *)
(* at least that (the code logs "resizing block ... to ... bytes" and then *)
(* "success").                                                             *)
SuccessMeansLength ==
  [][/\ ResizeHere /\ ret'.status = "success" =>
          mem'[scan.block].end - MemPtr(scan.block) = call.len
     /\ AllocHere => mem'[Candidate].end - MemPtr(Candidate) = call.len]_vars

(* Every call returns: no walk goes round in circles, and the recursion    *)
(* ends.                                                                   *)
CallsReturn == (call # Idle) ~> (call = Idle)
-----------------------------------------------------------------------------
(* The heap the callers see: the linked blocks, without those that a call  *)
(* of free or free_by_parent has decided on.                               *)
Owned(b) ==
  {c \in Linked : \A S \in SUBSET Linked :
     b \in S /\ (\A d \in Linked : mem[d].parent \in S => d \in S) => c \in S}

Doomed ==
  IF frames = <<>> THEN {}
  ELSE LET b == frames[1].owner IN
       IF call.name = "free" THEN Owned(b) ELSE Owned(b) \ {b}

HeapBlocks == [b \in Linked \ Doomed |-> [end |-> mem[b].end, parent |-> mem[b].parent]]
HeapRet    == IF frames = <<>> THEN ret ELSE Success(0)

Heap == INSTANCE DosHeap WITH blocks <- HeapBlocks, ret <- HeapRet

(* The linked list implements the map of blocks: each call takes effect at *)
(* one moment, exactly as DosHeap says, and reports what DosHeap says; it  *)
(* never takes the list for a corrupt one.                                 *)
ImplementsHeap == Heap!Spec
=============================================================================
