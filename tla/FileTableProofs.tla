--------------------------- MODULE FileTableProofs ---------------------------
(***************************************************************************)
(* Proofs about FileTable, for tables of any length and any number of      *)
(* contexts, objects and host descriptors: the counts of the file objects  *)
(* are exact, so none is deleted while it is held and none is kept when it *)
(* is not.                                                                 *)
(*                                                                         *)
(* Each action adds holders to one object, or takes one holder from one    *)
(* object; GainHolder and LoseHolder say that the invariant survives both, *)
(* and the actions are then shown to be of one kind or the other.          *)
(***************************************************************************)
EXTENDS FileTable, FiniteSetTheorems, TLAPS

(* What makes the counts exact inductive: the holders are finitely many,   *)
(* whatever the number of contexts.                                        *)
HoldersFinite == \A f \in File : IsFiniteSet(Holders(f))

HeldAreLive == \A f \in File : f \notin LiveFile => Holders(f) = {}

HostFdsUnique ==
  /\ \A f \in LiveFile : files[f].fd # NULL => files[f].fd \in hostOpen
  /\ \A f, g \in LiveFile : files[f].fd = files[g].fd /\ files[f].fd # NULL => f = g
  /\ \A fd \in hostOpen : \E f \in LiveFile : files[f].fd = fd

(* The objects, as they depend on the slots through Holders only.          *)
ObjectsOK ==
  /\ LiveFile \subseteq File
  /\ files \in [LiveFile -> [refs : Nat \ {0}, fd : HostFd \cup {NULL}]]
  /\ hostOpen \subseteq HostFd
  /\ HoldersFinite
  /\ RefCountExact
  /\ HeldAreLive
  /\ HostFdsUnique

SlotsOK ==
  /\ table \in [Context -> [Slot -> File \cup {NULL}]]
  /\ held \in [Context -> 0 .. NSLOTS]
  /\ ret \in Int

FileInv == SlotsOK /\ ObjectsOK

(* The slots there are.                                                    *)
LEMMA SlotFacts ==
  /\ NSLOTS \in Nat /\ NSTD = 5 /\ 2 * NSTD = 10 /\ NSLOTS >= 10
  /\ Slot \subseteq Nat
  /\ \A k \in Slot : k \in Nat /\ ~(k < 0) /\ k < NSLOTS
  /\ \A n \in 1 .. NSLOTS : n - 1 \in Slot
  /\ \A k \in 0 .. 9 : k \in Slot
  /\ NULL \notin File /\ NULL \notin HostFd
BY FileAssumption DEF FileAssumption, NSLOTS, NSTD, Slot

(* A slot holds one object.                                                *)
LEMMA OneHeld ==
  ASSUME NEW f \in File, NEW g \in File, NEW h, h \in Holders(f), h \in Holders(g)
  PROVE  f = g
BY DEF Holders

(* The invariant has the properties to be proved.                          *)
LEMMA FileInvSuffices ==
  ASSUME FileInv
  PROVE  TypeOK /\ RefCountExact /\ NoDangling /\ HostFdsOwned
<1>1. TypeOK /\ RefCountExact
  BY DEF FileInv, SlotsOK, ObjectsOK, TypeOK
<1>2. NoDangling
  <2> SUFFICES ASSUME NEW c \in Context, NEW k \in Slot, k < held[c],
                      table[c][k] # NULL
               PROVE  table[c][k] \in LiveFile
    BY DEF NoDangling
  <2>1. table[c][k] \in File
    BY DEF FileInv, SlotsOK
  <2>2. <<c, k>> \in Holders(table[c][k])
    BY DEF Holders
  <2>3. QED
    BY <2>1, <2>2 DEF FileInv, ObjectsOK, HeldAreLive
<1>3. ASSUME \A c \in Context : held[c] = 0, NEW f \in LiveFile
      PROVE  FALSE
  <2>1. ASSUME NEW c \in Context, NEW k \in Slot PROVE ~(k < held[c])
    BY <1>3, SlotFacts
  <2>2. Holders(f) = {}
    BY <2>1 DEF Holders
  <2>3. files[f].refs = 0
    BY <2>2, FS_EmptySet DEF FileInv, ObjectsOK, RefCountExact
  <2>4. QED
    BY <2>3 DEF FileInv, ObjectsOK
<1>4. HostFdsOwned
  BY <1>3 DEF FileInv, ObjectsOK, HostFdsUnique, HostFdsOwned
<1>5. QED
  BY <1>1, <1>2, <1>4
-----------------------------------------------------------------------------
(* A slot that is dropped takes one holder from one object.                *)
LEMMA LoseHolder ==
  ASSUME ObjectsOK, NEW f \in File, NEW h, h \in Holders(f), Unref(f),
         \A g \in File : Holders(g)' = Holders(g) \ {h}
  PROVE  ObjectsOK'
<1>1. f \in LiveFile /\ f # NULL
  BY SlotFacts DEF ObjectsOK, HeldAreLive
<1>2. \A g \in File : g # f => Holders(g)' = Holders(g)
  BY OneHeld
<1>3. /\ \A g \in File : IsFiniteSet(Holders(g)')
      /\ Cardinality(Holders(f)') = Cardinality(Holders(f)) - 1
  BY FS_RemoveElement DEF ObjectsOK, HoldersFinite
<1>4. /\ \A g \in LiveFile : g \in File
      /\ \A g \in LiveFile : /\ files[g].refs \in Nat \ {0}
                             /\ files[g].fd \in HostFd \cup {NULL}
                             /\ files[g].refs = Cardinality(Holders(g))
  BY DEF ObjectsOK, RefCountExact
<1>5. CASE files[f].refs > 1
  <2>1. /\ files' = [files EXCEPT ![f].refs = @ - 1]
        /\ hostOpen' = hostOpen
    BY <1>1, <1>5 DEF Unref
  <2>2. LiveFile' = LiveFile
    BY <2>1 DEF LiveFile, ObjectsOK
  <2>3. \A g \in LiveFile :
          /\ files'[g].fd = files[g].fd
          /\ files'[g].refs = IF g = f THEN files[g].refs - 1 ELSE files[g].refs
    BY <2>1 DEF ObjectsOK
  <2> DEFINE less == [files[f] EXCEPT !.refs = @ - 1]
  <2>4. files[f].refs - 1 \in Nat \ {0}
    BY <1>1, <1>4, <1>5
  <2>5. less \in [refs : Nat \ {0}, fd : HostFd \cup {NULL}]
    BY <1>1, <2>4 DEF ObjectsOK
  <2>6. files' = [files EXCEPT ![f] = less]
    BY <2>1
  <2>7. files' \in [LiveFile' -> [refs : Nat \ {0}, fd : HostFd \cup {NULL}]]
    <3> HIDE DEF less
    <3> QED BY <2>2, <2>5, <2>6 DEF ObjectsOK
  <2>8. RefCountExact'
    BY <1>2, <1>3, <1>4, <2>2, <2>3 DEF RefCountExact
  <2>9. HeldAreLive'
    BY <1>2, <1>1, <2>2 DEF HeldAreLive, ObjectsOK
  <2>10. HostFdsUnique'
    BY <2>1, <2>2, <2>3 DEF HostFdsUnique, ObjectsOK
  <2>11. QED
    BY <1>3, <2>1, <2>2, <2>7, <2>8, <2>9, <2>10 DEF ObjectsOK, HoldersFinite
<1>6. CASE ~(files[f].refs > 1)
  <2>1. /\ files' = [g \in LiveFile \ {f} |-> files[g]]
        /\ hostOpen' = hostOpen \ {files[f].fd}
    BY <1>1, <1>6 DEF Unref
  <2>2. LiveFile' = LiveFile \ {f} /\ \A g \in LiveFile' : files'[g] = files[g]
    BY <2>1 DEF LiveFile
  <2>3. Cardinality(Holders(f)) = 1
    BY <1>1, <1>4, <1>6
  <2>4. Holders(f)' = {}
    BY <1>3, <2>3, FS_EmptySet
  <2>5. files' \in [LiveFile' -> [refs : Nat \ {0}, fd : HostFd \cup {NULL}]]
    BY <2>1, <2>2 DEF ObjectsOK
  <2>6. RefCountExact'
    BY <1>2, <1>4, <2>2 DEF RefCountExact
  <2>7. HeldAreLive'
    BY <1>2, <2>2, <2>4 DEF HeldAreLive, ObjectsOK
  <2>8. HostFdsUnique'
    BY <1>1, <1>4, <2>1, <2>2 DEF HostFdsUnique, ObjectsOK
  <2>9. QED
    BY <1>3, <2>1, <2>2, <2>5, <2>6, <2>7, <2>8 DEF ObjectsOK, HoldersFinite
<1>7. QED
  BY <1>5, <1>6

(* A new object has the holders it is counted for.                         *)
LEMMA NewObject ==
  ASSUME ObjectsOK, NEW f \in File, NEW fd, NEW count \in Nat \ {0},
         NewFile(f, fd, count),
         \/ fd = NULL /\ UNCHANGED hostOpen
         \/ fd \in HostFd \ hostOpen /\ hostOpen' = hostOpen \cup {fd},
         IsFiniteSet(Holders(f)'), Cardinality(Holders(f)') = count,
         \A g \in File : g # f => Holders(g)' = Holders(g)
  PROVE  ObjectsOK'
<1>1. /\ f \notin LiveFile
      /\ files' = [g \in LiveFile \cup {f} |->
                     IF g = f THEN [refs |-> count, fd |-> fd] ELSE files[g]]
  BY DEF NewFile
<1>2. LiveFile' = LiveFile \cup {f}
  BY <1>1 DEF LiveFile
<1>3. /\ \A g \in LiveFile : g # f /\ files'[g] = files[g]
      /\ files'[f].refs = count /\ files'[f].fd = fd
  BY <1>1
<1>4. files' \in [LiveFile' -> [refs : Nat \ {0}, fd : HostFd \cup {NULL}]]
  BY <1>1, <1>2 DEF ObjectsOK
<1>5. RefCountExact'
  BY <1>2, <1>3 DEF RefCountExact, ObjectsOK
<1>6. HeldAreLive' /\ HoldersFinite'
  BY <1>2 DEF HeldAreLive, HoldersFinite, ObjectsOK
<1>7. HostFdsUnique'
  BY <1>2, <1>3, SlotFacts DEF HostFdsUnique, ObjectsOK
<1>8. QED
  BY <1>2, <1>4, <1>5, <1>6, <1>7 DEF ObjectsOK

(* A copied descriptor adds one holder to a live object.                   *)
LEMMA GainHolder ==
  ASSUME ObjectsOK, NEW f \in LiveFile, NEW h, h \notin Holders(f), Ref(f),
         UNCHANGED hostOpen,
         \A g \in File : Holders(g)' = IF g = f THEN Holders(g) \cup {h} ELSE Holders(g)
  PROVE  ObjectsOK'
<1>1. f \in File
  BY DEF ObjectsOK
<1>2. /\ \A g \in File : IsFiniteSet(Holders(g)')
      /\ Cardinality(Holders(f)') = Cardinality(Holders(f)) + 1
  BY <1>1, FS_AddElement DEF ObjectsOK, HoldersFinite
<1>3. LiveFile' = LiveFile
  BY DEF Ref, LiveFile, ObjectsOK
<1>4. \A g \in LiveFile :
        /\ files'[g].fd = files[g].fd
        /\ files'[g].refs = IF g = f THEN files[g].refs + 1 ELSE files[g].refs
  BY DEF Ref, ObjectsOK
<1>5. files' \in [LiveFile' -> [refs : Nat \ {0}, fd : HostFd \cup {NULL}]]
  BY <1>3 DEF Ref, ObjectsOK
<1>6. RefCountExact'
  BY <1>1, <1>2, <1>3, <1>4 DEF RefCountExact, ObjectsOK
<1>7. HeldAreLive'
  BY <1>3 DEF HeldAreLive, ObjectsOK
<1>8. HostFdsUnique'
  BY <1>3, <1>4 DEF HostFdsUnique, ObjectsOK
<1>9. QED
  BY <1>2, <1>3, <1>5, <1>6, <1>7, <1>8 DEF ObjectsOK, HoldersFinite
-----------------------------------------------------------------------------
(* Init and the actions.                                                   *)
LEMMA InitFileInv == Init => FileInv
<1> SUFFICES ASSUME Init PROVE FileInv
  OBVIOUS
<1>1. LiveFile = {} /\ hostOpen = {}
  BY DEF Init, LiveFile
<1>2. SlotsOK
  BY SlotFacts DEF Init, SlotsOK
<1>3. ASSUME NEW c \in Context, NEW k \in Slot PROVE ~(k < held[c])
  BY SlotFacts DEF Init
<1>4. \A f \in File : Holders(f) = {}
  BY <1>3 DEF Holders
<1>5. HoldersFinite /\ RefCountExact /\ HeldAreLive /\ HostFdsUnique
  BY <1>1, <1>4, FS_EmptySet DEF HoldersFinite, RefCountExact, HeldAreLive, HostFdsUnique
<1>6. files \in [LiveFile -> [refs : Nat \ {0}, fd : HostFd \cup {NULL}]]
  BY <1>1 DEF Init, LiveFile
<1>7. QED
  BY <1>1, <1>2, <1>5, <1>6 DEF FileInv, ObjectsOK

(* The constructor's object is held by ten slots.                          *)
LEMMA CreateContextKeepsInv ==
  ASSUME FileInv, NEW c \in Context, CreateContext(c)
  PROVE  FileInv'
<1>1. PICK f \in File :
        /\ NewFile(f, NULL, 2 * NSTD)
        /\ table' = [table EXCEPT ![c] =
                       [k \in Slot |-> IF k < 2 * NSTD THEN f ELSE NULL]]
  BY DEF CreateContext
<1>2. /\ held[c] = 0 /\ held' = [held EXCEPT ![c] = NSLOTS]
      /\ UNCHANGED <<hostOpen, ret>>
  BY DEF CreateContext
<1>3. SlotsOK'
  BY <1>1, <1>2, SlotFacts DEF FileInv, SlotsOK
<1>4. /\ \A d \in Context : held'[d] = IF d = c THEN NSLOTS ELSE held[d]
      /\ \A d \in Context, k \in Slot :
           table'[d][k] = IF d # c THEN table[d][k]
                          ELSE IF k < 10 THEN f ELSE NULL
  BY <1>1, <1>2, SlotFacts DEF FileInv, SlotsOK
<1>5. Holders(f) = {}
  BY <1>1 DEF NewFile, FileInv, ObjectsOK, HeldAreLive
<1>6. \A k \in Slot : k < held'[c] /\ ~(k < held[c])
  BY <1>2, <1>4, SlotFacts
<1>7. \A g \in File : g # f => Holders(g)' = Holders(g)
  <2> SUFFICES ASSUME NEW g \in File, g # f, NEW d \in Context, NEW k \in Slot
               PROVE  (k < held'[d] /\ table'[d][k] = g)
                      <=> (k < held[d] /\ table[d][k] = g)
    BY DEF Holders
  <2>1. CASE d = c
    BY <2>1, <1>4, <1>6, SlotFacts
  <2>2. CASE d # c
    BY <2>2, <1>4
  <2>3. QED
    BY <2>1, <2>2
<1>8. Holders(f)' = {<<c, k>> : k \in 0 .. 9}
  <2>1. ASSUME NEW h \in Holders(f)'
        PROVE  h \in {<<c, k>> : k \in 0 .. 9}
    <3>1. /\ h \in Context \X Slot /\ h[2] < held'[h[1]] /\ table'[h[1]][h[2]] = f
      BY DEF Holders
    <3>2. h[1] = c
      BY <3>1, <1>4, <1>5 DEF Holders
    <3>3. h[2] \in Slot /\ table'[c][h[2]] = f
      BY <3>1, <3>2
    <3>4. h[2] < 10 /\ h[2] \in Nat
      BY <3>3, <1>4, SlotFacts
    <3>5. QED
      BY <3>1, <3>2, <3>4
  <2>2. ASSUME NEW k \in 0 .. 9
        PROVE  <<c, k>> \in Holders(f)'
    BY <1>4, <1>6, SlotFacts DEF Holders
  <2>3. QED
    BY <2>1, <2>2
<1>9. IsFiniteSet(Holders(f)') /\ Cardinality(Holders(f)') = 10
  <2> DEFINE nth == [k \in 0 .. 9 |-> <<c, k>>]
  <2>1. nth \in Bijection(0 .. 9, {<<c, k>> : k \in 0 .. 9})
    BY DEF Bijection, Injection, Surjection, IsInjective
  <2>2. ExistsBijection(0 .. 9, {<<c, k>> : k \in 0 .. 9})
    BY <2>1 DEF ExistsBijection
  <2>3. IsFiniteSet(0 .. 9) /\ Cardinality(0 .. 9) = 10
    <3>1. 0 \in Int /\ 9 \in Int /\ (IF 0 > 9 THEN 0 ELSE 9 - 0 + 1) = 10
      OBVIOUS
    <3>2. /\ IsFiniteSet(0 .. 9)
          /\ Cardinality(0 .. 9) = IF 0 > 9 THEN 0 ELSE 9 - 0 + 1
      BY <3>1, FS_Interval, Zenon
    <3>3. QED
      BY <3>1, <3>2
  <2>4. QED
    BY <1>8, <2>2, <2>3, FS_Bijection
<1>10. ObjectsOK'
  <2>1. NewFile(f, NULL, 10)
    BY <1>1, SlotFacts
  <2>2. QED
    BY <1>2, <1>7, <1>9, <2>1, NewObject DEF FileInv
<1>11. QED
  BY <1>3, <1>10 DEF FileInv

(* A slot that was free and is set is one more holder of its object.       *)
LEMMA SlotIsSet ==
  ASSUME SlotsOK, NEW c \in Context, NEW k \in Slot, NEW f \in File,
         k < held[c], table[c][k] = NULL, SetSlot(c, k, f), UNCHANGED held
  PROVE  /\ <<c, k>> \notin Holders(f)
         /\ \A g \in File : Holders(g)' = IF g = f THEN Holders(g) \cup {<<c, k>>}
                                                   ELSE Holders(g)
         /\ table' \in [Context -> [Slot -> File \cup {NULL}]]
<1>1. /\ table' = [table EXCEPT ![c][k] = f]
      /\ \A d \in Context, j \in Slot :
           table'[d][j] = IF d = c /\ j = k THEN f ELSE table[d][j]
      /\ table' \in [Context -> [Slot -> File \cup {NULL}]]
  BY DEF SetSlot, SlotsOK
<1>2. <<c, k>> \notin Holders(f)
  BY SlotFacts DEF Holders
<1>3. ASSUME NEW g \in File
      PROVE  Holders(g)' = IF g = f THEN Holders(g) \cup {<<c, k>>} ELSE Holders(g)
  <2>1. \A d \in Context, j \in Slot :
          <<d, j>> \in Holders(g)' <=>
            \/ <<d, j>> \in Holders(g)
            \/ g = f /\ d = c /\ j = k
    BY <1>1, SlotFacts DEF Holders
  <2>2. Holders(g)' \subseteq Context \X Slot /\ Holders(g) \subseteq Context \X Slot
    BY DEF Holders
  <2>3. QED
    BY <2>1, <2>2
<1>4. QED
  BY <1>1, <1>2, <1>3

(* Setting a free slot to a new object, or to one that is held already.    *)
LEMMA OpenKeepsInv ==
  ASSUME FileInv, NEW c \in Context, NEW k \in Slot, NEW f \in File, NEW fd,
         k < held[c], table[c][k] = NULL, SetSlot(c, k, f), NewFile(f, fd, 1),
         \/ fd = NULL /\ UNCHANGED hostOpen
         \/ fd \in HostFd \ hostOpen /\ hostOpen' = hostOpen \cup {fd},
         UNCHANGED held, ret' \in Int
  PROVE  FileInv'
<1>1. Holders(f) = {}
  BY DEF NewFile, FileInv, ObjectsOK, HeldAreLive
<1>2. /\ \A g \in File : Holders(g)' = IF g = f THEN Holders(g) \cup {<<c, k>>}
                                                ELSE Holders(g)
      /\ SlotsOK'
  BY SlotIsSet DEF FileInv, SlotsOK
<1>3. Holders(f)' = {<<c, k>>}
  BY <1>1, <1>2
<1>4. IsFiniteSet(Holders(f)') /\ Cardinality(Holders(f)') = 1
  BY <1>3, FS_Singleton
<1>5. ObjectsOK'
  BY <1>2, <1>4, NewObject DEF FileInv
<1>6. QED
  BY <1>2, <1>5 DEF FileInv

LEMMA DupKeepsInv ==
  ASSUME FileInv, NEW c \in Context, NEW fd \in Fd, Dup(c, fd)
  PROVE  FileInv'
<1>1. CASE \E err \in {-6, -4} : Fail(err)
  <2>1. UNCHANGED <<table, held, files, hostOpen>> /\ ret' \in Int
    BY <1>1 DEF Fail, Dup
  <2>2. QED
    BY <2>1 DEF FileInv, SlotsOK, ObjectsOK, HoldersFinite, RefCountExact,
                HeldAreLive, HostFdsUnique, Holders, LiveFile
<1>2. CASE ~\E err \in {-6, -4} : Fail(err)
  <2> DEFINE f == table[c][SlotOf(fd)]
  <2>1. /\ held[c] = NSLOTS
        /\ fd < NFILES /\ f # NULL
        /\ Ref(f)
        /\ UNCHANGED <<held, hostOpen>>
    BY <1>2 DEF Dup, Alive, Valid
  <2>2. PICK k \in Slot : FirstFree(c, k) /\ SetSlot(c, k, f) /\ ret' = k - NSTD
    BY <1>2 DEF Dup
  <2>3. SlotOf(fd) \in Slot
    BY <2>1, FileAssumption DEF SlotOf, Slot, Fd, NSLOTS, NSTD, FileAssumption
  <2>4. f \in File /\ <<c, SlotOf(fd)>> \in Holders(f)
    <3>1. SlotOf(fd) < held[c]
      BY <2>1, <2>3, SlotFacts
    <3>2. f \in File
      BY <2>1, <2>3 DEF FileInv, SlotsOK
    <3>3. QED
      BY <2>3, <3>1, <3>2 DEF Holders
  <2>5. f \in LiveFile
    BY <2>4 DEF FileInv, ObjectsOK, HeldAreLive
  <2>6. k < held[c] /\ table[c][k] = NULL /\ ret' \in Int
    BY <2>1, <2>2, SlotFacts DEF FirstFree
  <2> HIDE DEF f
  <2>7. /\ <<c, k>> \notin Holders(f)
        /\ \A g \in File : Holders(g)' = IF g = f THEN Holders(g) \cup {<<c, k>>}
                                                  ELSE Holders(g)
        /\ table' \in [Context -> [Slot -> File \cup {NULL}]]
    BY <2>1, <2>2, <2>4, <2>6, SlotIsSet DEF FileInv
  <2>8. ObjectsOK'
    BY <2>1, <2>5, <2>7, GainHolder DEF FileInv
  <2>9. SlotsOK'
    BY <2>1, <2>6, <2>7 DEF FileInv, SlotsOK
  <2>10. QED
    BY <2>8, <2>9 DEF FileInv
<1>3. QED
  BY <1>1, <1>2
-----------------------------------------------------------------------------
(* A slot that is cleared, or passed by the destructor.                    *)
LEMMA CloseKeepsInv ==
  ASSUME FileInv, NEW c \in Context, NEW fd \in Fd, Close(c, fd)
  PROVE  FileInv'
<1>1. CASE ~Valid(c, fd)
  <2>1. UNCHANGED <<table, held, files, hostOpen>> /\ ret' = -6
    BY <1>1 DEF Fail, Close
  <2>2. QED
    BY <2>1 DEF FileInv, SlotsOK, ObjectsOK, HoldersFinite, RefCountExact,
                HeldAreLive, HostFdsUnique, Holders, LiveFile
<1>2. CASE Valid(c, fd)
  <2> DEFINE k == SlotOf(fd)
             f == table[c][k]
  <2>1. /\ held[c] = NSLOTS
        /\ fd < NFILES /\ f # NULL
        /\ Unref(f)
        /\ table' = [table EXCEPT ![c][k] = NULL]
        /\ ret' = 0
        /\ UNCHANGED held
    BY <1>2 DEF Close, Alive, Valid, SetSlot
  <2>2. k \in Slot
    BY <2>1, FileAssumption DEF SlotOf, Slot, Fd, NSLOTS, NSTD, FileAssumption
  <2>3. f \in File /\ <<c, k>> \in Holders(f)
    <3>1. k < held[c]
      BY <2>1, <2>2, SlotFacts
    <3>2. f \in File
      BY <2>1, <2>2 DEF FileInv, SlotsOK
    <3> HIDE DEF k
    <3>3. QED
      BY <2>2, <3>1, <3>2 DEF Holders
  <2> HIDE DEF k
  <2>4. /\ \A d \in Context, j \in Slot :
             table'[d][j] = IF d = c /\ j = k THEN NULL ELSE table[d][j]
        /\ table' \in [Context -> [Slot -> File \cup {NULL}]]
    BY <2>1, <2>2 DEF FileInv, SlotsOK
  <2>5. ASSUME NEW g \in File
        PROVE  Holders(g)' = Holders(g) \ {<<c, k>>}
    <3>1. \A d \in Context, j \in Slot :
            <<d, j>> \in Holders(g)' <=>
              <<d, j>> \in Holders(g) /\ ~(d = c /\ j = k)
      BY <2>1, <2>4, SlotFacts DEF Holders
    <3>2. Holders(g)' \subseteq Context \X Slot /\ Holders(g) \subseteq Context \X Slot
      BY DEF Holders
    <3>3. QED
      BY <3>1, <3>2
  <2> HIDE DEF f
  <2>6. ObjectsOK'
    BY <2>1, <2>3, <2>5, LoseHolder DEF FileInv
  <2>7. SlotsOK'
    BY <2>1, <2>4 DEF FileInv, SlotsOK
  <2>8. QED
    BY <2>6, <2>7 DEF FileInv
<1>3. QED
  BY <1>1, <1>2

LEMMA DestroyKeepsInv ==
  ASSUME FileInv, NEW c \in Context, Destroy(c)
  PROVE  FileInv'
<1> DEFINE k == held[c] - 1
           f == table[c][k]
<1>1. /\ held[c] > 0 /\ held[c] \in 1 .. NSLOTS
      /\ Unref(f)
      /\ held' = [held EXCEPT ![c] = k]
      /\ UNCHANGED <<table, ret>>
  BY DEF Destroy, FileInv, SlotsOK
<1>2. k \in Slot /\ held'[c] = k /\ \A d \in Context : d # c => held'[d] = held[d]
  BY <1>1, SlotFacts DEF FileInv, SlotsOK
<1>3. SlotsOK'
  BY <1>1, <1>2, SlotFacts DEF FileInv, SlotsOK
<1>4. ASSUME NEW j \in Slot PROVE j < k <=> j < held[c] /\ j # k
  BY <1>1, <1>2, SlotFacts
<1>5. ASSUME NEW g \in File
      PROVE  Holders(g)' = Holders(g) \ {<<c, k>>}
  <2>1. \A d \in Context, j \in Slot :
          <<d, j>> \in Holders(g)' <=>
            <<d, j>> \in Holders(g) /\ ~(d = c /\ j = k)
    <3> HIDE DEF k
    <3> QED BY <1>1, <1>2, <1>4 DEF Holders
  <2>2. Holders(g)' \subseteq Context \X Slot /\ Holders(g) \subseteq Context \X Slot
    BY DEF Holders
  <2>3. QED
    BY <2>1, <2>2
<1>6. CASE f = NULL
  <2>1. UNCHANGED <<files, hostOpen>>
    BY <1>1, <1>6 DEF Unref
  <2>2. \A g \in File : Holders(g)' = Holders(g)
    BY <1>5, <1>6, SlotFacts DEF Holders
  <2>3. ObjectsOK'
    BY <2>1, <2>2 DEF FileInv, ObjectsOK, HoldersFinite, RefCountExact,
                      HeldAreLive, HostFdsUnique, LiveFile
  <2>4. QED
    BY <1>3, <2>3 DEF FileInv
<1>7. CASE f # NULL
  <2>1. k < held[c]
    BY <1>1
  <2>2. f \in File /\ <<c, k>> \in Holders(f)
    BY <1>2, <1>7, <2>1 DEF FileInv, SlotsOK, Holders
  <2> HIDE DEF f, k
  <2>3. ObjectsOK'
    BY <1>1, <1>5, <2>2, LoseHolder DEF FileInv
  <2>4. QED
    BY <1>3, <2>3 DEF FileInv
<1>8. QED
  BY <1>6, <1>7
-----------------------------------------------------------------------------
LEMMA NextKeepsFileInv == FileInv /\ [Next]_vars => FileInv'
<1> SUFFICES ASSUME FileInv, [Next]_vars PROVE FileInv'
  OBVIOUS
<1>1. CASE UNCHANGED <<table, held, files, hostOpen>> /\ ret' \in Int
  BY <1>1 DEF FileInv, SlotsOK, ObjectsOK, HoldersFinite, RefCountExact,
              HeldAreLive, HostFdsUnique, Holders, LiveFile
<1>2. ASSUME NEW c \in Context, OpenFail(c)
      PROVE  UNCHANGED <<table, held, files, hostOpen>> /\ ret' \in Int
  BY <1>2 DEF OpenFail, Fail
<1>3. ASSUME NEW c \in Context, OpenCon(c)
      PROVE  FileInv'
  <2>1. PICK k \in Slot, f \in File :
          /\ FirstFree(c, k) /\ NewFile(f, NULL, 1) /\ SetSlot(c, k, f)
          /\ ret' = k - NSTD
    BY <1>3 DEF OpenCon
  <2>2. k < held[c] /\ table[c][k] = NULL /\ ret' \in Int
    BY <1>3, <2>1, SlotFacts DEF OpenCon, Alive, FirstFree
  <2>3. UNCHANGED <<held, hostOpen>>
    BY <1>3 DEF OpenCon
  <2>4. QED
    BY <2>1, <2>2, <2>3, OpenKeepsInv
<1>4. ASSUME NEW c \in Context, OpenRegular(c)
      PROVE  FileInv'
  <2>1. PICK k \in Slot, f \in File, fd \in HostFd \ hostOpen :
          /\ FirstFree(c, k) /\ NewFile(f, fd, 1) /\ SetSlot(c, k, f)
          /\ hostOpen' = hostOpen \cup {fd}
          /\ ret' = k - NSTD
    BY <1>4 DEF OpenRegular
  <2>2. k < held[c] /\ table[c][k] = NULL /\ ret' \in Int
    BY <1>4, <2>1, SlotFacts DEF OpenRegular, Alive, FirstFree
  <2>3. UNCHANGED held
    BY <1>4 DEF OpenRegular
  <2>4. QED
    BY <2>1, <2>2, <2>3, OpenKeepsInv
<1>5. CASE UNCHANGED vars
  BY <1>1, <1>5 DEF vars, FileInv, SlotsOK
<1>6. QED
  BY <1>1, <1>2, <1>3, <1>4, <1>5, CreateContextKeepsInv, DestroyKeepsInv,
     DupKeepsInv, CloseKeepsInv DEF Next
-----------------------------------------------------------------------------
(* The tables hold objects, and no object that is kept has a count of 0.   *)
THEOREM FilesTypeCorrect == Spec => []TypeOK
<1>1. FileInv => TypeOK
  BY FileInvSuffices
<1>2. QED
  BY <1>1, InitFileInv, NextKeepsFileInv, PTL DEF Spec

(* However descriptors are opened, copied and closed, and contexts created *)
(* and destroyed, unref deletes an object exactly when its last holder     *)
(* lets it go.                                                             *)
THEOREM CountsAreExact == Spec => []RefCountExact
<1>1. FileInv => RefCountExact
  BY FileInvSuffices
<1>2. QED
  BY <1>1, InitFileInv, NextKeepsFileInv, PTL DEF Spec

(* No descriptor outlives its file object, in the middle of the destructor *)
(* too; so the assertions of ref and unref never fail.                     *)
THEOREM NothingDangles == Spec => []NoDangling
<1>1. FileInv => NoDangling
  BY FileInvSuffices
<1>2. QED
  BY <1>1, InitFileInv, NextKeepsFileInv, PTL DEF Spec

(* The host's descriptors are neither shared by two objects nor leaked by  *)
(* contexts that have been destroyed.                                      *)
THEOREM HostFdsAreOwned == Spec => []HostFdsOwned
<1>1. FileInv => HostFdsOwned
  BY FileInvSuffices
<1>2. QED
  BY <1>1, InitFileInv, NextKeepsFileInv, PTL DEF Spec
==============================================================================
