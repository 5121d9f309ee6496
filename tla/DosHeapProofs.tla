---------------------------- MODULE DosHeapProofs ----------------------------
(***************************************************************************)
(* Proofs about DosHeap, for every heap, every length and every pointer:   *)
(* the blocks never overlap nor leave the heap, no block outlives its      *)
(* owner, and every block is owned by the root block.                      *)
(***************************************************************************)
EXTENDS DosHeap, FiniteSetTheorems, TLAPS

(* Every nonempty set of natural numbers has a least element: here, the    *)
(* block that follows another.  (The library's induction takes operators   *)
(* for parameters; the well-foundedness of strict inclusion does not, and  *)
(* n is below m when 0 .. n is strictly included in 0 .. m.)               *)
LEMMA LeastNumber ==
  ASSUME NEW S \in SUBSET Nat, S # {}
  PROVE  \E n \in S : \A m \in S : n <= m
<1> DEFINE T == {0 .. n : n \in S}
<1>1. T \subseteq FiniteSubsetsOf(Nat)
  <2>1. ASSUME NEW n \in S
        PROVE  0 .. n \in SUBSET Nat /\ IsFiniteSet(0 .. n)
    BY FS_Interval
  <2>2. QED
    BY <2>1 DEF FiniteSubsetsOf
<1>2. PICK X \in T : \A Y \in T : ~ (<<Y, X>> \in StrictSubsetOrdering(Nat))
  <2>1. T # {}
    OBVIOUS
  <2> HIDE DEF T
  <2>2. QED
    BY <1>1, <2>1, FS_StrictSubsetOrderingWellFounded, WFMin
<1>3. PICK n \in S : X = 0 .. n
  BY <1>2
<1>4. ASSUME NEW m \in S, ~ (n <= m)
      PROVE  FALSE
  <2>1. 0 .. m \subseteq 0 .. n /\ 0 .. m # 0 .. n
    <3>1. n \in 0 .. n /\ n \notin 0 .. m
      BY <1>4
    <3>2. QED
      BY <1>4, <3>1
  <2>2. <<0 .. m, 0 .. n>> \in StrictSubsetOrdering(Nat)
    BY <2>1 DEF StrictSubsetOrdering
  <2>3. QED
    BY <1>2, <1>3, <2>2
<1>5. QED
  BY <1>4

(* Rounding up to a header's size: the least multiple not below a.         *)
LEMMA AlignUpProperties ==
  ASSUME NEW a \in Nat
  PROVE  /\ AlignUp(a) \in Nat
         /\ AlignUp(a) % HeaderSize = 0
         /\ a <= AlignUp(a)
         /\ \A n \in Nat : n % HeaderSize = 0 /\ a <= n => AlignUp(a) <= n
BY DEF AlignUp, HeaderSize

(* The bounds of the heap are aligned, and there is room for the root.     *)
LEMMA HeapBounds ==
  /\ Root \in Nat /\ Root > 0 /\ Root % HeaderSize = 0
  /\ Limit \in Nat /\ Limit % HeaderSize = 0
  /\ Root + HeaderSize <= Limit
BY HeapAssumption DEF HeapAssumption, Root, Limit, AlignUp, AlignDown, HeaderSize

(* Every live block has a next block, or the end of the heap; its gap ends *)
(* there.                                                                  *)
LEMMA NextOfProperties ==
  ASSUME TypeOK, Layout, NEW b \in Live
  PROVE  /\ NextOf(b) \in Above(b)
         /\ \A c \in Above(b) : NextOf(b) <= c
         /\ NextOf(b) \in Nat
         /\ NextOf(b) % HeaderSize = 0
         /\ b < NextOf(b)
         /\ NextOf(b) <= Limit
         /\ blocks[b].end \in Nat
         /\ blocks[b].end <= NextOf(b)
         /\ GapStart(b) \in Nat
         /\ GapStart(b) % HeaderSize = 0
         /\ b + HeaderSize <= GapStart(b)
         /\ blocks[b].end <= GapStart(b)
         /\ GapStart(b) <= NextOf(b)
         /\ FreeLen(b) \in Nat
<1>1. /\ blocks[b].end \in Nat /\ b \in Nat
      /\ b + HeaderSize <= blocks[b].end /\ blocks[b].end <= Limit
      /\ \A c \in Live : c \in Nat /\ c % HeaderSize = 0
      /\ \A c \in Live : b < c => blocks[b].end <= c
  BY DEF TypeOK, Layout
<1>2. Above(b) \in SUBSET Nat /\ Above(b) # {} /\ Limit \in Above(b)
  BY <1>1, HeapBounds DEF Above
<1>3. \E n \in Above(b) : \A c \in Above(b) : n <= c
  BY <1>2, LeastNumber
<1>4. NextOf(b) \in Above(b) /\ \A c \in Above(b) : NextOf(b) <= c
  BY <1>3 DEF NextOf
<1>5. b < Limit
  BY <1>1, HeapBounds DEF HeaderSize
<1>6. /\ NextOf(b) \in Nat /\ NextOf(b) % HeaderSize = 0
      /\ b < NextOf(b) /\ NextOf(b) <= Limit /\ blocks[b].end <= NextOf(b)
  BY <1>1, <1>2, <1>4, <1>5, HeapBounds DEF Above
<1>7. /\ GapStart(b) \in Nat /\ GapStart(b) % HeaderSize = 0
      /\ blocks[b].end <= GapStart(b) /\ GapStart(b) <= NextOf(b)
  BY <1>1, <1>6, AlignUpProperties DEF GapStart
<1>8. b + HeaderSize <= GapStart(b)
  BY <1>1, <1>7 DEF HeaderSize
<1>9. FreeLen(b) \in Nat
  BY <1>6, <1>7 DEF FreeLen
<1>10. QED
  BY <1>1, <1>4, <1>6, <1>7, <1>8, <1>9

(* Subtree(b) is the least set of live blocks with b and the children of   *)
(* its elements.                                                           *)
LEMMA SubtreeProperties ==
  ASSUME NEW b
  PROVE  /\ Subtree(b) \subseteq Live
         /\ b \in Live => b \in Subtree(b)
         /\ ClosedUnderChildren(Subtree(b))
         /\ \A S \in SUBSET Live :
              b \in S /\ ClosedUnderChildren(S) => Subtree(b) \subseteq S
BY DEF Subtree, ClosedUnderChildren
-----------------------------------------------------------------------------
(* A block made in a gap that is long enough overlaps nothing.             *)
LEMMA MakeBlockKeepsLayout ==
  ASSUME TypeOK, Layout, NEW b \in Live, NEW len \in Nat, NEW parent \in Live,
         HeaderSize <= len, len <= FreeLen(b),
         MakeBlock(GapStart(b), len, parent)
  PROVE  /\ GapStart(b) \notin Live
         /\ Live' = Live \cup {GapStart(b)}
         /\ blocks' \in [Live' -> [end : Nat, parent : Nat]]
         /\ Layout'
<1> DEFINE new == GapStart(b)
<1>1. /\ new \in Nat /\ new % HeaderSize = 0
      /\ b + HeaderSize <= new /\ blocks[b].end <= new
      /\ NextOf(b) \in Nat /\ NextOf(b) <= Limit /\ new + len <= NextOf(b)
      /\ \A c \in Live : b < c => NextOf(b) <= c
  BY NextOfProperties DEF Above, FreeLen
<1>2. /\ Live \subseteq Nat /\ Limit \in Nat /\ Root \in Nat
      /\ \A c \in Live : blocks[c].end \in Nat /\ blocks[c].parent \in Nat
  BY HeapBounds DEF TypeOK
<1>3. \A c \in Live : c < b => blocks[c].end <= b
  BY DEF Layout
<1>4. \A c \in Live : \/ blocks[c].end <= new /\ c < new
                      \/ new + len <= c /\ new < c
  <2> SUFFICES ASSUME NEW c \in Live
               PROVE  \/ blocks[c].end <= new /\ c < new
                      \/ new + len <= c /\ new < c
    OBVIOUS
  <2>1. CASE b < c
    BY <2>1, <1>1, <1>2 DEF HeaderSize
  <2>2. CASE c = b
    BY <2>2, <1>1, <1>2 DEF HeaderSize
  <2>3. CASE c < b
    BY <2>3, <1>1, <1>2, <1>3 DEF HeaderSize
  <2>4. QED
    BY <2>1, <2>2, <2>3, <1>2
<1>5. new \notin Live
  BY <1>4, <1>1
<1>6. blocks' = [c \in Live \cup {new} |->
                  IF c = new THEN Block(new + len, parent) ELSE blocks[c]]
  BY DEF MakeBlock
<1> HIDE DEF new
<1>live. Live' = Live \cup {new}
  BY <1>6 DEF Live
<1>7. /\ blocks'[new].end = new + len
      /\ \A c \in Live : blocks'[c] = blocks[c]
  BY <1>5, <1>6 DEF Block
<1>8. blocks' \in [Live' -> [end : Nat, parent : Nat]]
  <2>1. Block(new + len, parent) \in [end : Nat, parent : Nat]
    BY <1>1, <1>2 DEF Block
  <2>2. \A c \in Live : blocks[c] \in [end : Nat, parent : Nat]
    BY DEF TypeOK
  <2>3. QED
    BY <2>1, <2>2, <1>6, <1>live
<1>9. Layout'
  <2>1. Root \in Live'
    BY <1>live DEF Layout
  <2>2. ASSUME NEW c \in Live'
        PROVE  /\ c % HeaderSize = 0 /\ Root <= c
               /\ c + HeaderSize <= blocks'[c].end
               /\ blocks'[c].end <= Limit
               /\ \A d \in Live' : c < d => blocks'[c].end <= d
    <3>1. CASE c = new
      <4>1. Root <= new
        <5>1. Root <= b
          BY DEF Layout
        <5>2. QED
          BY <5>1, <1>1, <1>2 DEF HeaderSize
      <4>2. ASSUME NEW d \in Live', new < d
            PROVE  new + len <= d
        <5>1. d \in Live
          BY <4>2, <1>live, <1>1
        <5>2. QED
          BY <5>1, <4>2, <1>1, <1>2, <1>4
      <4>3. QED
        BY <3>1, <4>1, <4>2, <1>1, <1>2, <1>7 DEF HeaderSize
    <3>2. CASE c \in Live
      <4>1. /\ c % HeaderSize = 0 /\ Root <= c
            /\ c + HeaderSize <= blocks[c].end
            /\ blocks[c].end <= Limit
            /\ \A d \in Live : c < d => blocks[c].end <= d
        BY <3>2 DEF Layout
      <4>2. c < new => blocks[c].end <= new
        BY <3>2, <1>1, <1>2, <1>4
      <4>3. QED
        BY <3>2, <4>1, <4>2, <1>live, <1>7
    <3>3. QED
      BY <3>1, <3>2, <1>live
  <2>3. QED
    BY <2>1, <2>2 DEF Layout
<1>10. QED
  BY <1>5, <1>live, <1>8, <1>9 DEF new

(* Taking blocks off the heap moves no other block.                        *)
LEMMA RemoveBlocksKeepsLayout ==
  ASSUME TypeOK, Layout, NEW S \in SUBSET Live, Root \notin S, RemoveBlocks(S)
  PROVE  /\ Live' = Live \ S
         /\ \A c \in Live' : blocks'[c] = blocks[c]
         /\ blocks' \in [Live' -> [end : Nat, parent : Nat]]
         /\ Layout'
<1>1. blocks' = [c \in Live \ S |-> blocks[c]]
  BY DEF RemoveBlocks
<1>2. Live' = Live \ S
  BY <1>1 DEF Live
<1>3. \A c \in Live' : blocks'[c] = blocks[c]
  BY <1>1, <1>2
<1>4. blocks' \in [Live' -> [end : Nat, parent : Nat]]
  BY <1>1, <1>2 DEF TypeOK
<1>5. Layout'
  BY <1>2, <1>3 DEF Layout
<1>6. QED
  BY <1>2, <1>3, <1>4, <1>5

(* A new block with a live owner joins the tree of owners.                 *)
LEMMA MakeBlockKeepsTree ==
  ASSUME ParentsLive, Rooted, Root \in Live,
         NEW new, new \notin Live, NEW len, NEW parent \in Live,
         MakeBlock(new, len, parent)
  PROVE  ParentsLive' /\ Rooted'
<1>1. blocks' = [c \in Live \cup {new} |->
                  IF c = new THEN Block(new + len, parent) ELSE blocks[c]]
  BY DEF MakeBlock
<1>2. Live' = Live \cup {new}
  BY <1>1 DEF Live
<1>3. /\ blocks'[new].parent = parent
      /\ \A c \in Live : blocks'[c] = blocks[c]
  BY <1>1 DEF Block
<1>4. ParentsLive'
  BY <1>2, <1>3 DEF ParentsLive
<1>5. Rooted'
  <2>1. SUFFICES ASSUME NEW S \in SUBSET Live', Root \in S,
                        \A c \in Live' : blocks'[c].parent \in S => c \in S
                 PROVE  Live' \subseteq S
    BY DEF Rooted, Subtree, ClosedUnderChildren
  <2>2. ClosedUnderChildren(S \cap Live)
    BY <2>1, <1>2, <1>3 DEF ClosedUnderChildren
  <2>3. Live \subseteq S \cap Live
    BY <2>1, <2>2, SubtreeProperties DEF Rooted
  <2>4. new \in S
    BY <2>1, <2>3, <1>2, <1>3
  <2>5. QED
    BY <2>3, <2>4, <1>2
<1>6. QED
  BY <1>4, <1>5

(* Blocks taken off with all they own leave a tree of owners.              *)
LEMMA RemoveBlocksKeepsTree ==
  ASSUME ParentsLive, Rooted, Root \in Live,
         NEW S \in SUBSET Live, Root \notin S, ClosedUnderChildren(S),
         RemoveBlocks(S)
  PROVE  ParentsLive' /\ Rooted'
<1>1. blocks' = [c \in Live \ S |-> blocks[c]]
  BY DEF RemoveBlocks
<1>2. Live' = Live \ S
  BY <1>1 DEF Live
<1>3. \A c \in Live' : blocks'[c] = blocks[c]
  BY <1>1, <1>2
<1>4. ParentsLive'
  BY <1>2, <1>3 DEF ParentsLive, ClosedUnderChildren
<1>5. Rooted'
  <2>1. SUFFICES ASSUME NEW T \in SUBSET Live', Root \in T,
                        \A c \in Live' : blocks'[c].parent \in T => c \in T
                 PROVE  Live' \subseteq T
    BY DEF Rooted, Subtree, ClosedUnderChildren
  <2>2. ClosedUnderChildren(S \cup T)
    BY <2>1, <1>2, <1>3 DEF ClosedUnderChildren
  <2>3. S \cup T \in SUBSET Live /\ Root \in S \cup T
    BY <2>1, <1>2
  <2>4. Live \subseteq S \cup T
    BY <2>2, <2>3, SubtreeProperties DEF Rooted
  <2>5. QED
    BY <2>4, <1>2
<1>6. QED
  BY <1>4, <1>5

(* What a block owns: never the root, and not the block itself.            *)
LEMMA OwnedBlocks ==
  ASSUME TypeOK, Layout, ParentsLive, Rooted, NEW b \in Live
  PROVE  /\ b # Root => Root \notin Subtree(b)
         /\ ClosedUnderChildren(Subtree(b) \ {b})
         /\ Root \notin Subtree(b) \ {b}
<1> DEFINE S == Subtree(b)
<1>1. 0 \notin Live
  BY HeapBounds DEF Layout
<1>2. S \subseteq Live /\ b \in S /\ ClosedUnderChildren(S)
  BY SubtreeProperties
<1>3. b # Root => Root \notin S
  <2>1. ClosedUnderChildren(Live \ {Root})
    BY <1>1 DEF ClosedUnderChildren, ParentsLive
  <2>2. QED
    BY <2>1, SubtreeProperties
<1>4. \A c \in S : c = b \/ blocks[c].parent \in S
  <2> DEFINE T == {c \in S : c = b \/ blocks[c].parent \in S}
  <2>1. T \in SUBSET Live /\ b \in T
    BY <1>2
  <2>2. ClosedUnderChildren(T)
    BY <1>2 DEF ClosedUnderChildren
  <2>3. S \subseteq T
    <3> HIDE DEF T
    <3> QED
      BY <2>1, <2>2, SubtreeProperties
  <2>4. QED
    BY <2>3
<1>5. blocks[b].parent \notin S
  <2>1. CASE b = Root
    BY <2>1, <1>1, <1>2 DEF ParentsLive
  <2>2. CASE b # Root
    <3>1. SUFFICES ASSUME blocks[b].parent \in S
                   PROVE  FALSE
      OBVIOUS
    <3>2. ClosedUnderChildren(Live \ S)
      BY <3>1, <1>4 DEF ClosedUnderChildren
    <3>3. Root \in Live \ S
      BY <2>2, <1>3 DEF Layout
    <3>4. Live \subseteq Live \ S
      <4> HIDE DEF S
      <4> QED
        BY <3>2, <3>3, SubtreeProperties DEF Rooted
    <3>5. QED
      BY <3>4, <1>2
  <2>3. QED
    BY <2>1, <2>2
<1>6. ClosedUnderChildren(S \ {b})
  BY <1>2, <1>5 DEF ClosedUnderChildren
<1>7. QED
  BY <1>3, <1>6
-----------------------------------------------------------------------------
(* The inductive invariant: the extents and the owners need one another,   *)
(* since an allocation relies on its owner being a block, and freeing a    *)
(* process block relies on the tree not to take the root.                  *)
HeapInv == TypeOK /\ Layout /\ ParentsLive /\ Rooted

LEMMA InitHeapInv == Init => HeapInv
<1> SUFFICES ASSUME Init
             PROVE  HeapInv
  OBVIOUS
<1>1. /\ blocks = [b \in {Root} |-> Block(Root + HeaderSize, 0)]
      /\ ret = Success(0)
  BY DEF Init
<1>2. Live = {Root} /\ blocks[Root] = [end |-> Root + HeaderSize, parent |-> 0]
  BY <1>1 DEF Live, Block
<1>3. TypeOK
  <2>1. IsFiniteSet({Root})
    BY FS_Singleton
  <2>2. Block(Root + HeaderSize, 0) \in [end : Nat, parent : Nat]
    BY HeapBounds DEF Block, HeaderSize
  <2>3. blocks \in [Live -> [end : Nat, parent : Nat]]
    BY <1>1, <1>2, <2>2
  <2>4. QED
    BY <1>1, <1>2, <2>1, <2>3, HeapBounds DEF TypeOK, Success
<1>4. Layout
  BY <1>2, HeapBounds DEF Layout, HeaderSize
<1>5. ParentsLive
  BY <1>2 DEF ParentsLive
<1>6. Rooted
  BY <1>2, SubtreeProperties DEF Rooted
<1>7. QED
  BY <1>3, <1>4, <1>5, <1>6 DEF HeapInv

LEMMA MakeBlockKeepsInv ==
  ASSUME HeapInv, NEW b \in Live, NEW len \in Nat, NEW parent \in Live,
         HeaderSize <= len, len <= FreeLen(b),
         MakeBlock(GapStart(b), len, parent),
         ret' = Success(MemPtr(GapStart(b)))
  PROVE  HeapInv'
<1> USE DEF HeapInv
<1>1. /\ GapStart(b) \notin Live
      /\ Live' = Live \cup {GapStart(b)}
      /\ blocks' \in [Live' -> [end : Nat, parent : Nat]]
      /\ Layout'
  BY MakeBlockKeepsLayout
<1>2. ParentsLive' /\ Rooted'
  <2>1. Root \in Live
    BY DEF Layout
  <2>2. QED
    BY <1>1, <2>1, MakeBlockKeepsTree
<1>3. GapStart(b) \in Nat
  BY NextOfProperties
<1>4. TypeOK'
  <2>1. IsFiniteSet(Live')
    BY <1>1, FS_AddElement DEF TypeOK
  <2>2. ret' \in [status : {"success", "shortage", "nomemory", "nomatch"}, value : Nat]
    BY <1>3 DEF Success, MemPtr, HeaderSize
  <2>3. QED
    BY <1>1, <1>3, <2>1, <2>2 DEF TypeOK
<1>5. QED
  BY <1>1, <1>2, <1>4

LEMMA RemoveBlocksKeepsInv ==
  ASSUME HeapInv, NEW S \in SUBSET Live, Root \notin S, ClosedUnderChildren(S),
         RemoveBlocks(S), ret' = Success(0)
  PROVE  HeapInv'
<1> USE DEF HeapInv
<1>1. /\ Live' = Live \ S
      /\ blocks' \in [Live' -> [end : Nat, parent : Nat]]
      /\ Layout'
  BY RemoveBlocksKeepsLayout
<1>2. ParentsLive' /\ Rooted'
  <2>1. Root \in Live
    BY DEF Layout
  <2>2. QED
    BY <2>1, RemoveBlocksKeepsTree
<1>3. TypeOK'
  <2>1. IsFiniteSet(Live')
    BY <1>1, FS_Subset DEF TypeOK
  <2>2. ret' \in [status : {"success", "shortage", "nomemory", "nomatch"}, value : Nat]
    BY DEF Success
  <2>3. QED
    BY <1>1, <2>1, <2>2 DEF TypeOK
<1>4. QED
  BY <1>1, <1>2, <1>3

(* A call that changes no block keeps the invariant, whatever it returns.  *)
LEMMA SameBlocksKeepInv ==
  ASSUME HeapInv, UNCHANGED blocks,
         ret' \in [status : {"success", "shortage", "nomemory", "nomatch"}, value : Nat]
  PROVE  HeapInv'
BY DEF HeapInv, TypeOK, Layout, ParentsLive, Rooted, Subtree,
       ClosedUnderChildren, Live

LEMMA RefusalType ==
  ASSUME NEW room \in Nat, room >= HeaderSize
  PROVE  Refusal(room) \in
           [status : {"success", "shortage", "nomemory", "nomatch"}, value : Nat]
BY DEF Refusal, NoMemory, Shortage, HeaderSize

LEMMA MallocKeepsInv ==
  ASSUME HeapInv, NEW len \in Nat, NEW parent \in Nat, Malloc(len, parent)
  PROVE  HeapInv'
<1> DEFINE needed == len + HeaderSize
<1>1. BlockOf(parent) \in Live /\ needed \in Nat /\ HeaderSize <= needed
  BY DEF Malloc, HeaderSize
<1>2. CASE \E b \in Live :
             /\ FreeLen(b) >= needed
             /\ MakeBlock(GapStart(b), needed, BlockOf(parent))
             /\ ret' = Success(MemPtr(GapStart(b)))
  <2>1. PICK b \in Live :
             /\ FreeLen(b) >= needed
             /\ MakeBlock(GapStart(b), needed, BlockOf(parent))
             /\ ret' = Success(MemPtr(GapStart(b)))
    BY <1>2
  <2>2. needed <= FreeLen(b)
    BY <2>1, <1>1, NextOfProperties DEF HeapInv
  <2> HIDE DEF needed
  <2>3. QED
    BY <1>1, <2>1, <2>2, MakeBlockKeepsInv
<1>3. CASE /\ \E room \in {HeaderSize} \cup {FreeLen(b) : b \in Live} :
                IsMaxFreeLen(room) /\ ret' = Refusal(room)
           /\ UNCHANGED blocks
  <2>1. PICK room \in {HeaderSize} \cup {FreeLen(b) : b \in Live} :
             IsMaxFreeLen(room) /\ ret' = Refusal(room)
    BY <1>3
  <2>2. room \in Nat /\ room >= HeaderSize
    <3>1. \A b \in Live : FreeLen(b) \in Nat
      BY NextOfProperties DEF HeapInv
    <3>2. QED
      BY <2>1, <3>1 DEF IsMaxFreeLen, HeaderSize
  <2>3. QED
    BY <1>3, <2>1, <2>2, RefusalType, SameBlocksKeepInv
<1>4. QED
  BY <1>2, <1>3 DEF Malloc

LEMMA MallocLargestKeepsInv ==
  ASSUME HeapInv, NEW parent \in Nat, MallocLargest(parent)
  PROVE  HeapInv'
<1>1. BlockOf(parent) \in Live
  BY DEF MallocLargest
<1>2. CASE \E b \in Live :
             /\ FreeLen(b) > HeaderSize
             /\ MakeBlock(GapStart(b), FreeLen(b), BlockOf(parent))
             /\ ret' = Success(MemPtr(GapStart(b)))
  <2>1. PICK b \in Live :
             /\ FreeLen(b) > HeaderSize
             /\ MakeBlock(GapStart(b), FreeLen(b), BlockOf(parent))
             /\ ret' = Success(MemPtr(GapStart(b)))
    BY <1>2
  <2>2. FreeLen(b) \in Nat /\ HeaderSize <= FreeLen(b) /\ FreeLen(b) <= FreeLen(b)
    BY <2>1, NextOfProperties DEF HeapInv, HeaderSize
  <2>3. QED
    BY <1>1, <2>1, <2>2, MakeBlockKeepsInv
<1>3. CASE ret' = NoMemory /\ UNCHANGED blocks
  <2>1. NoMemory \in
          [status : {"success", "shortage", "nomemory", "nomatch"}, value : Nat]
    BY DEF NoMemory
  <2>2. QED
    BY <1>3, <2>1, SameBlocksKeepInv
<1>4. QED
  BY <1>2, <1>3 DEF MallocLargest

LEMMA SetBlockKeepsInv ==
  ASSUME HeapInv, NEW memptr \in Nat, NEW newlen \in Nat, SetBlock(memptr, newlen)
  PROVE  HeapInv'
<1> DEFINE b == BlockOf(memptr)
           RetType == [status : {"success", "shortage", "nomemory", "nomatch"},
                       value : Nat]
<1>1. CASE /\ b \in Live
           /\ memptr + newlen <= NextOf(b)
           /\ blocks' = [blocks EXCEPT ![b].end = memptr + newlen]
           /\ ret' = Success(0)
  <2>1. /\ NextOf(b) \in Nat /\ NextOf(b) <= Limit
        /\ \A c \in Live : b < c => NextOf(b) <= c
        /\ b + HeaderSize <= memptr + newlen
        /\ b \in Nat /\ memptr + newlen \in Nat
    BY <1>1, NextOfProperties DEF HeapInv, Above, BlockOf, HeaderSize, TypeOK
  <2>2. Live' = Live
    BY <1>1 DEF Live
  <2>3. /\ blocks'[b].end = memptr + newlen
        /\ \A c \in Live : blocks'[c].parent = blocks[c].parent
        /\ \A c \in Live : c # b => blocks'[c] = blocks[c]
    BY <1>1 DEF HeapInv, TypeOK
  <2>4. TypeOK'
    <3>1. blocks' \in [Live' -> [end : Nat, parent : Nat]]
      BY <1>1, <2>1, <2>2 DEF HeapInv, TypeOK
    <3>2. QED
      BY <1>1, <2>2, <3>1 DEF HeapInv, TypeOK, Success
  <2>5. Layout'
    <3>1. ASSUME NEW c \in Live
          PROVE  /\ c % HeaderSize = 0 /\ Root <= c
                 /\ c + HeaderSize <= blocks'[c].end
                 /\ blocks'[c].end <= Limit
                 /\ \A d \in Live : c < d => blocks'[c].end <= d
      <4>1. CASE c = b
        <5>1. \A d \in Live : d \in Nat
          BY DEF HeapInv, TypeOK
        <5>2. c % HeaderSize = 0 /\ Root <= c
          BY DEF HeapInv, Layout
        <5>3. QED
          BY <4>1, <1>1, <2>1, <2>3, <5>1, <5>2, HeapBounds
      <4>2. CASE c # b
        BY <4>2, <2>3 DEF HeapInv, Layout
      <4>3. QED
        BY <4>1, <4>2
    <3>2. Root \in Live
      BY DEF HeapInv, Layout
    <3>3. QED
      BY <2>2, <3>1, <3>2 DEF Layout
  <2>6. ParentsLive'
    BY <2>2, <2>3 DEF HeapInv, Layout, ParentsLive
  <2>7. Rooted'
    BY <2>2, <2>3 DEF HeapInv, Rooted, Subtree, ClosedUnderChildren
  <2>8. QED
    BY <2>4, <2>5, <2>6, <2>7 DEF HeapInv
<1>2. CASE b \in Live /\ ret' = Refusal(NextOf(b) - b) /\ UNCHANGED blocks
  <2>1. NextOf(b) - b \in Nat /\ NextOf(b) - b >= HeaderSize
    <3>1. b \in Nat /\ b + HeaderSize <= blocks[b].end
      BY <1>2 DEF HeapInv, TypeOK, Layout
    <3>2. /\ NextOf(b) \in Nat /\ blocks[b].end \in Nat
          /\ blocks[b].end <= NextOf(b)
      BY <1>2, NextOfProperties DEF HeapInv
    <3> HIDE DEF b
    <3>3. QED
      BY <3>1, <3>2 DEF HeaderSize
  <2>2. QED
    BY <1>2, <2>1, RefusalType, SameBlocksKeepInv
<1>3. CASE ret' = NoMatch /\ UNCHANGED blocks
  <2>1. NoMatch \in RetType
    BY DEF NoMatch
  <2>2. QED
    BY <1>3, <2>1, SameBlocksKeepInv
<1>4. QED
  BY <1>1, <1>2, <1>3 DEF SetBlock

LEMMA MFreeKeepsInv ==
  ASSUME HeapInv, NEW memptr \in Nat, MFree(memptr)
  PROVE  HeapInv'
<1> DEFINE b == BlockOf(memptr)
<1>1. CASE b \in Live /\ RemoveBlocks(Subtree(b)) /\ ret' = Success(0)
  <2>1. /\ Subtree(b) \in SUBSET Live
        /\ Root \notin Subtree(b)
        /\ ClosedUnderChildren(Subtree(b))
    BY <1>1, OwnedBlocks, SubtreeProperties DEF HeapInv, MFree
  <2>2. QED
    BY <1>1, <2>1, RemoveBlocksKeepsInv
<1>2. CASE ret' = NoMatch /\ UNCHANGED blocks
  <2>1. NoMatch \in
          [status : {"success", "shortage", "nomemory", "nomatch"}, value : Nat]
    BY DEF NoMatch
  <2>2. QED
    BY <1>2, <2>1, SameBlocksKeepInv
<1>3. QED
  BY <1>1, <1>2 DEF MFree

LEMMA FreeByParentKeepsInv ==
  ASSUME HeapInv, NEW parent \in Nat, FreeByParent(parent)
  PROVE  HeapInv'
<1> DEFINE b == BlockOf(parent)
<1>1. b \in Live /\ RemoveBlocks(Subtree(b) \ {b}) /\ ret' = Success(0)
  BY DEF FreeByParent
<1>2. /\ Subtree(b) \ {b} \in SUBSET Live
      /\ Root \notin Subtree(b) \ {b}
      /\ ClosedUnderChildren(Subtree(b) \ {b})
  BY <1>1, OwnedBlocks, SubtreeProperties DEF HeapInv
<1>3. QED
  BY <1>1, <1>2, RemoveBlocksKeepsInv

LEMMA NextKeepsHeapInv == HeapInv /\ [Next]_vars => HeapInv'
<1> SUFFICES ASSUME HeapInv, [Next]_vars
             PROVE  HeapInv'
  OBVIOUS
<1>1. CASE Next
  <2>1. PICK p \in Pointers :
          \/ \E len \in Lengths : Malloc(len, p)
          \/ \E len \in Lengths : SetBlock(p, len)
          \/ MallocLargest(p)
          \/ MFree(p)
          \/ FreeByParent(p)
    BY <1>1 DEF Next
  <2>2. p \in Nat /\ Lengths \subseteq Nat
    BY HeapAssumption DEF HeapAssumption
  <2>3. CASE \E len \in Lengths : Malloc(len, p)
    BY <2>2, <2>3, MallocKeepsInv
  <2>4. CASE \E len \in Lengths : SetBlock(p, len)
    BY <2>2, <2>4, SetBlockKeepsInv
  <2>5. CASE MallocLargest(p)
    BY <2>2, <2>5, MallocLargestKeepsInv
  <2>6. CASE MFree(p)
    BY <2>2, <2>6, MFreeKeepsInv
  <2>7. CASE FreeByParent(p)
    BY <2>2, <2>7, FreeByParentKeepsInv
  <2>8. QED
    BY <2>1, <2>3, <2>4, <2>5, <2>6, <2>7
<1>2. CASE UNCHANGED vars
  BY <1>2, SameBlocksKeepInv DEF vars, HeapInv, TypeOK
<1>3. QED
  BY <1>1, <1>2
-----------------------------------------------------------------------------
(* Whatever calls are made of the allocator, its state is a map from       *)
(* addresses to headers, and its results are those the callers know.       *)
THEOREM HeapTypeCorrect == Spec => []TypeOK
<1>1. HeapInv => TypeOK
  BY DEF HeapInv
<1>2. QED
  BY <1>1, InitHeapInv, NextKeepsHeapInv, PTL DEF Spec

(* alloc, alloc_largest and resize never make two blocks overlap, and no   *)
(* block ever reaches past the end of the heap.                            *)
THEOREM HeapLayout == Spec => []Layout
<1>1. HeapInv => Layout
  BY DEF HeapInv
<1>2. QED
  BY <1>1, InitHeapInv, NextKeepsHeapInv, PTL DEF Spec

(* free and free_by_parent leave no block whose owner is gone.             *)
THEOREM HeapParentsLive == Spec => []ParentsLive
<1>1. HeapInv => ParentsLive
  BY DEF HeapInv
<1>2. QED
  BY <1>1, InitHeapInv, NextKeepsHeapInv, PTL DEF Spec

(* Every block is owned, directly or not, by the root: the tree of owners  *)
(* has no cycle, so free_by_parent's recursion is bounded.                 *)
THEOREM HeapRooted == Spec => []Rooted
<1>1. HeapInv => Rooted
  BY DEF HeapInv
<1>2. QED
  BY <1>1, InitHeapInv, NextKeepsHeapInv, PTL DEF Spec

(* Freeing what the root owns leaves the heap as the constructor made it,  *)
(* but for the root block's length: nothing a process held is left.        *)
THEOREM EndFreesAll ==
  Spec => [][FreeByParent(MemPtr(Root)) => Live' = {Root}]_vars
<1>1. ASSUME HeapInv, FreeByParent(MemPtr(Root))
      PROVE  Live' = {Root}
  <2>1. BlockOf(MemPtr(Root)) = Root
    BY HeapBounds DEF BlockOf, MemPtr, HeaderSize
  <2>2. blocks' = [c \in Live \ (Subtree(Root) \ {Root}) |-> blocks[c]]
    BY <1>1, <2>1 DEF FreeByParent, RemoveBlocks
  <2>3. Live' = Live \ (Subtree(Root) \ {Root})
    BY <2>2 DEF Live
  <2>4. QED
    BY <1>1, <2>3 DEF HeapInv, Rooted, Layout
<1>2. QED
  BY <1>1, InitHeapInv, NextKeepsHeapInv, PTL DEF Spec
==============================================================================
