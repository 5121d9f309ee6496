--------------------------- MODULE TextScreenProofs ---------------------------
(***************************************************************************)
(* Safety of TextScreen for any number of rows, any size of the words that *)
(* their marks are packed into, and any interleaving of the two threads.   *)
(***************************************************************************)
EXTENDS TextScreen, FiniteSetTheorems, TLAPS

(* Every nonempty bounded set of natural numbers has a greatest element,   *)
(* as strict inclusion between the intervals up to the bound is            *)
(* well-founded.                                                           *)
LEMMA GreatestNumber ==
  ASSUME NEW S \in SUBSET Nat, S # {}, NEW bound \in Nat,
         \A n \in S : n <= bound
  PROVE  \E n \in S : \A m \in S : m <= n
<1> DEFINE T == {n .. bound : n \in S}
<1>1. T \subseteq FiniteSubsetsOf(Nat)
  <2>1. ASSUME NEW n \in S
        PROVE  n .. bound \in SUBSET Nat /\ IsFiniteSet(n .. bound)
    BY FS_Interval
  <2>2. QED
    BY <2>1 DEF FiniteSubsetsOf
<1>2. PICK X \in T : \A Y \in T : ~ (<<Y, X>> \in StrictSubsetOrdering(Nat))
  <2>1. T # {}
    OBVIOUS
  <2> HIDE DEF T
  <2>2. QED
    BY <1>1, <2>1, FS_StrictSubsetOrderingWellFounded, WFMin
<1>3. PICK n \in S : X = n .. bound
  BY <1>2
<1>4. ASSUME NEW m \in S, ~ (m <= n)
      PROVE  FALSE
  <2>1. m .. bound \subseteq n .. bound /\ m .. bound # n .. bound
    <3>1. n \in n .. bound /\ n \notin m .. bound
      BY <1>4
    <3>2. QED
      BY <1>4, <3>1
  <2>2. <<m .. bound, n .. bound>> \in StrictSubsetOrdering(Nat)
    BY <2>1 DEF StrictSubsetOrdering
  <2>3. QED
    BY <1>2, <1>3, <2>2
<1>5. QED
  BY <1>4

(* What NoStaleColors needs.  Marks are lost only by the GTK thread's      *)
(* ClearStore, which writes back the word it has loaded: nothing that this *)
(* word lacks is old without another reason to be scanned.  The VM's       *)
(* MarkStore loses none, since no mark has been set since its load; so the *)
(* word that the GTK thread has loaded is still marked.                    *)
VmWordCovers == vm.pc = "store" => marked \cap WordOf(vm.y) \subseteq vm.word

UiWordMarked == ui.pc = "store" => ui.word \subseteq marked \cap WordOf(ui.y)

LostAreNotNeeded ==
  ui.pc = "store" =>
    \A y \in WordOf(ui.y) : OldColors(y) => modified \/ y \in ui.word \/ ToBeScanned(y)

(* Colors that were copied for a row and are old have set the flag.        *)
CopiedColors == ui.pc = "pixels" /\ ui.colors # palette => modified

ScreenInv ==
  /\ TypeOK /\ NoStaleColors
  /\ VmWordCovers /\ UiWordMarked /\ LostAreNotNeeded /\ CopiedColors
-----------------------------------------------------------------------------
(* A word of marks has a last row.                                         *)
LEMMA LastOfWord ==
  ASSUME NEW y \in Row
  PROVE  LET last == CHOOSE r \in WordOf(y) : \A s \in WordOf(y) : s <= r
         IN last \in Row /\ y <= last
<1> DEFINE P(r) == \A s \in WordOf(y) : s <= r
<1>1. WordOf(y) \in SUBSET Nat /\ y \in WordOf(y) /\ WordOf(y) \subseteq Row
  BY ScreenAssumption DEF WordOf, Row
<1>2. \A n \in WordOf(y) : n <= Height
  BY ScreenAssumption DEF WordOf, Row
<1>3. \E r \in WordOf(y) : P(r)
  BY <1>1, <1>2, ScreenAssumption, GreatestNumber
<1>4. (CHOOSE r \in WordOf(y) : P(r)) \in WordOf(y) /\ P(CHOOSE r \in WordOf(y) : P(r))
  BY <1>3, Zenon
<1>5. QED BY <1>1, <1>4

VmType == [pc : {"rest", "write", "load", "store"}, top : Nat, bottom : Nat,
           y : Nat, image : Image, word : SUBSET Row]
UiType == [pc : {"rest", "test", "load", "store", "colors", "pixels"}, y : Row,
           all : BOOLEAN, word : SUBSET Row, colors : Palette]

LEMMA RestTyped == VmRest \in VmType /\ UiRest \in UiType /\ 0 \in Row
<1>1. 0 \in Row /\ {} \in SUBSET Row
  BY ScreenAssumption DEF Row
<1>2. FALSE \in BOOLEAN
  BY Zenon
<1>3. VmRest \in VmType
  BY <1>1, ScreenAssumption DEF VmRest, VmType
<1>4. UiRest \in UiType
  BY <1>1, <1>2, ScreenAssumption, Zenon DEF UiRest, UiType
<1>5. QED BY <1>1, <1>3, <1>4

LEMMA NextRowTyped ==
  ASSUME ui \in UiType
  PROVE  NextRow \in UiType /\ (NextRow.pc = "rest" => NextRow = UiRest)
<1>1. CASE ui.y + 1 < Height
  <2>1. ui.y + 1 \in Row
    BY <1>1, ScreenAssumption DEF UiType, Row
  <2>2. NextRow = [ui EXCEPT !.pc = "test", !.y = ui.y + 1, !.word = {}]
    BY <1>1 DEF NextRow
  <2>3. QED BY <2>1, <2>2 DEF UiType
<1>2. CASE ~(ui.y + 1 < Height)
  BY <1>2, RestTyped DEF NextRow
<1>3. QED BY <1>1, <1>2
-----------------------------------------------------------------------------
(* TypeOK by parts.                                                        *)
VmInOrder == vm.pc # "rest" => vm.y \in vm.top .. vm.bottom - 1 /\ vm.bottom <= Height
ShownType == [Row -> {Nothing} \cup (Image \X Palette)]

LEMMA TypeParts ==
  TypeOK <=>
    /\ vram \in [Row -> Image] /\ marked \subseteq Row /\ palette \in Palette
    /\ modified \in BOOLEAN /\ vm \in VmType /\ VmInOrder
    /\ counter \in 1 .. SCREEN_CHECK_INTERVAL
    /\ ui \in UiType /\ (ui.pc = "rest" => ui = UiRest) /\ shown \in ShownType
BY Zenon DEF TypeOK, VmType, UiType, VmInOrder, ShownType

(* A drawing is at a row of the screen.                                    *)
LEMMA VmDraws ==
  ASSUME vm \in VmType, VmInOrder, vm.pc # "rest"
  PROVE  vm.y \in Row /\ vm.y \in vm.top .. vm.bottom - 1 /\ vm.bottom <= Height
<1>1. vm.top \in Nat /\ vm.bottom \in Nat /\ vm.y \in Nat
  BY DEF VmType
<1>2. vm.y \in vm.top .. vm.bottom - 1 /\ vm.bottom <= Height
  BY Zenon DEF VmInOrder
<1>3. QED BY <1>1, <1>2, ScreenAssumption DEF Row

(* The VM's steps keep to the types.                                       *)
LEMMA VmTyped ==
  ASSUME TypeOK, VmBegins \/ VmStep
  PROVE  TypeOK'
<1> USE ScreenAssumption
<1>1. SUFFICES /\ vram' \in [Row -> Image] /\ marked' \subseteq Row /\ palette' \in Palette
               /\ modified' \in BOOLEAN /\ vm' \in VmType /\ VmInOrder'
               /\ UNCHANGED uiVars
  BY TypeParts, Zenon DEF uiVars, TypeOK, VmType, UiType, VmInOrder, ShownType
<1> DEFINE Typed == /\ vram' \in [Row -> Image] /\ marked' \subseteq Row /\ palette' \in Palette
                    /\ modified' \in BOOLEAN /\ vm' \in VmType /\ VmInOrder'
                    /\ UNCHANGED uiVars
<1>2. /\ vram \in [Row -> Image] /\ marked \subseteq Row /\ palette \in Palette
      /\ modified \in BOOLEAN /\ vm \in VmType /\ VmInOrder
  BY TypeParts
<1>3. ASSUME NEW y \in Row, NEW image \in Image, PutWord(y, image)
      PROVE  Typed
  <2>1. y \in Nat /\ y + 1 \in Nat /\ y + 1 <= Height /\ y \in y .. (y + 1) - 1
    BY DEF Row
  <2>2. vm' = [pc |-> "write", top |-> y, bottom |-> y + 1, y |-> y, image |-> image,
               word |-> {}]
    BY <1>3 DEF PutWord, VmRest
  <2>3. vm' \in VmType
    BY <2>1, <2>2 DEF VmType
  <2>4. vm'.y = y /\ vm'.top = y /\ vm'.bottom = y + 1
    BY <2>2
  <2>5. VmInOrder'
    BY <2>1, <2>4, Zenon DEF VmInOrder
  <2>6. QED BY <1>2, <1>3, <2>3, <2>5 DEF PutWord
<1>4. ASSUME NEW top \in Row, NEW bottom \in 1 .. Height, NEW image \in Image,
             DrawRows(top, bottom, image)
      PROVE  Typed
  <2>1. top \in Nat /\ bottom \in Nat /\ bottom <= Height /\ top \in top .. bottom - 1
    BY <1>4 DEF DrawRows, Row
  <2>2. vm' = [pc |-> "write", top |-> top, bottom |-> bottom, y |-> top,
               image |-> image, word |-> {}]
    BY <1>4 DEF DrawRows, VmRest
  <2>3. vm' \in VmType
    BY <2>1, <2>2 DEF VmType
  <2>4. vm'.y = top /\ vm'.top = top /\ vm'.bottom = bottom
    BY <2>2
  <2>5. VmInOrder'
    BY <2>1, <2>4, Zenon DEF VmInOrder
  <2>6. QED BY <1>2, <1>4, <2>3, <2>5 DEF DrawRows
<1>5. ASSUME NEW p \in Palette, PutPalette(p)
      PROVE  Typed
  <2>1. modified' \in BOOLEAN
    BY <1>5, Zenon DEF PutPalette
  <2>2. QED BY <1>2, <1>5, <2>1 DEF PutPalette, VmInOrder
<1>6. CASE WriteRow
  <2>1. vm.y \in Row /\ vm.y \in vm.top .. vm.bottom - 1 /\ vm.bottom <= Height
    BY <1>2, <1>6, VmDraws DEF WriteRow
  <2>2. vm.y \in Nat /\ vm.top \in Nat /\ vm.bottom \in Nat /\ vm.image \in Image
    BY <1>2 DEF VmType
  <2>3. CASE vm.y + 1 < vm.bottom
    <3>1. vm' = [vm EXCEPT !.y = vm.y + 1]
      BY <1>6, <2>3 DEF WriteRow
    <3>2. vm' \in VmType
      BY <1>2, <2>2, <3>1 DEF VmType
    <3>3. vm'.y = vm.y + 1 /\ vm'.top = vm.top /\ vm'.bottom = vm.bottom
      BY <1>2, <3>1 DEF VmType
    <3>4. VmInOrder'
      BY <2>1, <2>2, <2>3, <3>3 DEF VmInOrder
    <3>5. QED BY <1>2, <1>6, <2>1, <2>2, <3>2, <3>4 DEF WriteRow
  <2>4. CASE ~(vm.y + 1 < vm.bottom)
    <3>1. vm' = [vm EXCEPT !.pc = "load", !.y = vm.top]
      BY <1>6, <2>4 DEF WriteRow
    <3>2. vm' \in VmType
      BY <1>2, <2>2, <3>1 DEF VmType
    <3>3. vm'.y = vm.top /\ vm'.top = vm.top /\ vm'.bottom = vm.bottom
      BY <1>2, <3>1 DEF VmType
    <3>4. VmInOrder'
      BY <2>1, <2>2, <2>4, <3>3 DEF VmInOrder
    <3>5. QED BY <1>2, <1>6, <2>1, <2>2, <3>2, <3>4 DEF WriteRow
  <2>5. QED BY <2>3, <2>4
<1>7. CASE MarkLoad
  <2>1. vm' \in VmType /\ VmInOrder'
    BY <1>2, <1>7 DEF MarkLoad, VmType, VmInOrder
  <2>2. QED BY <1>2, <1>7, <2>1 DEF MarkLoad
<1>8. CASE MarkStore
  <2>1. vm.y \in Row /\ vm.y \in vm.top .. vm.bottom - 1 /\ vm.bottom <= Height
    BY <1>2, <1>8, VmDraws DEF MarkStore
  <2> DEFINE last == CHOOSE r \in WordOf(vm.y) : \A s \in WordOf(vm.y) : s <= r
  <2>2. last \in Row /\ vm.y <= last
    BY <2>1, LastOfWord
  <2> HIDE DEF last
  <2>3. vm' = IF last + 1 < vm.bottom
              THEN [vm EXCEPT !.pc = "load", !.y = last + 1, !.word = {}] ELSE VmRest
    BY <1>8, Zenon DEF MarkStore, last
  <2>4. marked' \subseteq Row /\ UNCHANGED <<vram, palette, modified, uiVars>>
    BY <1>2, <1>8 DEF MarkStore, WordOf, VmType
  <2>5. CASE last + 1 < vm.bottom
    <3>1. last + 1 \in Nat /\ vm.top \in Nat /\ vm.bottom \in Nat /\ vm.y \in Nat
      BY <1>2, <2>2 DEF VmType, Row
    <3>2. vm' = [vm EXCEPT !.pc = "load", !.y = last + 1, !.word = {}]
      BY <2>3, <2>5
    <3>3. vm' \in VmType
      BY <1>2, <3>1, <3>2 DEF VmType
    <3>4. vm'.y = last + 1 /\ vm'.top = vm.top /\ vm'.bottom = vm.bottom
      BY <1>2, <3>2 DEF VmType
    <3>5. last \in Int /\ last + 1 \in vm.top .. vm.bottom - 1
      BY <2>1, <2>2, <2>5, <3>1 DEF Row
    <3>6. VmInOrder'
      BY <2>1, <3>4, <3>5, Zenon DEF VmInOrder
    <3>7. QED BY <1>2, <2>4, <3>3, <3>6
  <2>6. CASE ~(last + 1 < vm.bottom)
    BY <1>2, <2>3, <2>4, <2>6, RestTyped DEF VmInOrder, VmRest
  <2>7. QED BY <2>5, <2>6
<1>9. QED
  BY <1>1, <1>3, <1>4, <1>5, <1>6, <1>7, <1>8 DEF VmBegins, VmStep

(* The GTK thread's steps keep to the types.                               *)
LEMMA UiTyped ==
  ASSUME TypeOK, UiStep
  PROVE  TypeOK'
<1> USE ScreenAssumption
<1>1. SUFFICES /\ UNCHANGED vmVars /\ marked' \subseteq Row /\ modified' \in BOOLEAN
               /\ counter' \in 1 .. SCREEN_CHECK_INTERVAL
               /\ ui' \in UiType /\ (ui'.pc = "rest" => ui' = UiRest)
               /\ shown' \in ShownType
  BY TypeParts, Zenon DEF vmVars, TypeOK, VmType, UiType, VmInOrder, ShownType
<1> DEFINE Typed == /\ UNCHANGED vmVars /\ marked' \subseteq Row /\ modified' \in BOOLEAN
                    /\ counter' \in 1 .. SCREEN_CHECK_INTERVAL
                    /\ ui' \in UiType /\ (ui'.pc = "rest" => ui' = UiRest)
                    /\ shown' \in ShownType
<1>2. /\ vram \in [Row -> Image] /\ marked \subseteq Row /\ palette \in Palette
      /\ modified \in BOOLEAN /\ counter \in 1 .. SCREEN_CHECK_INTERVAL
      /\ ui \in UiType /\ (ui.pc = "rest" => ui = UiRest) /\ shown \in ShownType
  BY TypeParts
<1>3. CASE Timeout
  <2>1. counter' \in 1 .. SCREEN_CHECK_INTERVAL
    BY <1>2, <1>3 DEF Timeout
  <2>2. modified' \in BOOLEAN
    BY <1>2, <1>3, Zenon DEF Timeout
  <2>3. \/ ui' = [UiRest EXCEPT !.pc = "test"]
        \/ ui' = [UiRest EXCEPT !.pc = "test", !.all = modified]
    BY <1>3, Zenon DEF Timeout
  <2>4. ui' \in UiType /\ ui'.pc = "test"
    BY <1>2, <2>3, RestTyped DEF UiType
  <2>5. QED BY <1>2, <1>3, <2>1, <2>2, <2>4 DEF Timeout
<1>4. CASE TestMark
  <2>1. ui' \in UiType /\ (ui'.pc = "rest" => ui' = UiRest)
    <3>1. CASE ui' = [ui EXCEPT !.pc = "load"] \/ ui' = [ui EXCEPT !.pc = "colors"]
      BY <1>2, <3>1 DEF UiType
    <3>2. CASE ui' = NextRow
      BY <1>2, <3>2, NextRowTyped, Zenon
    <3>3. QED BY <1>4, <3>1, <3>2 DEF TestMark
  <2>2. QED BY <1>2, <1>4, <2>1 DEF TestMark
<1>5. CASE ClearLoad
  <2>1. ui' \in UiType /\ ui'.pc = "store"
    BY <1>2, <1>5 DEF ClearLoad, UiType
  <2>2. QED BY <1>2, <1>5, <2>1 DEF ClearLoad
<1>6. CASE ClearStore
  <2>1. ui' \in UiType /\ ui'.pc = "colors"
    BY <1>2, <1>6 DEF ClearStore, UiType
  <2>2. marked' \subseteq Row
    BY <1>2, <1>6 DEF ClearStore, UiType
  <2>3. QED BY <1>2, <1>6, <2>1, <2>2 DEF ClearStore
<1>7. CASE ScanColors
  <2>1. ui' \in UiType /\ ui'.pc = "pixels"
    BY <1>2, <1>7 DEF ScanColors, UiType
  <2>2. QED BY <1>2, <1>7, <2>1 DEF ScanColors
<1>8. CASE ScanPixels
  <2>1. shown' \in ShownType
    BY <1>2, <1>8 DEF ScanPixels, UiType, ShownType
  <2>2. ui' \in UiType /\ (ui'.pc = "rest" => ui' = UiRest)
    BY <1>2, <1>8, NextRowTyped, Zenon DEF ScanPixels
  <2>3. QED BY <1>2, <1>8, <2>1, <2>2 DEF ScanPixels
<1>9. QED
  BY <1>1, <1>3, <1>4, <1>5, <1>6, <1>7, <1>8 DEF UiStep
-----------------------------------------------------------------------------
(* The VM's steps: no mark is lost, since no other thread sets one between *)
(* a load and its store, and a change of the palettes sets the flag.       *)
LEMMA VmKeepsInv ==
  ASSUME ScreenInv, VmBegins \/ VmStep
  PROVE  ScreenInv'
<1>1. TypeOK' /\ vm \in VmType
  BY VmTyped, TypeParts DEF ScreenInv
<1>2. SUFFICES /\ UNCHANGED <<ui, shown>>
               /\ marked \subseteq marked'
               /\ modified' \/ (UNCHANGED <<palette, modified>>)
               /\ vm'.pc = "store" => marked' \cap WordOf(vm'.y) \subseteq vm'.word
  <2>1. ASSUME NEW y \in Row, UNCHANGED <<ui, shown, palette>>
        PROVE  (OldColors(y)' <=> OldColors(y)) /\ (ToBeScanned(y)' <=> ToBeScanned(y))
    BY <2>1 DEF OldColors, ToBeScanned
  <2>2. WordOf(ui.y) \subseteq Row
    BY DEF WordOf
  <2>3. CASE modified'
    BY <1>1, <1>2, <2>3
       DEF ScreenInv, NoStaleColors, VmWordCovers, UiWordMarked, LostAreNotNeeded, CopiedColors
  <2>4. CASE UNCHANGED <<palette, modified>>
    <3>1. NoStaleColors'
      BY <1>2, <2>1, <2>4 DEF ScreenInv, NoStaleColors
    <3>2. LostAreNotNeeded'
      BY <1>2, <2>1, <2>2, <2>4 DEF ScreenInv, LostAreNotNeeded, WordOf
    <3>3. VmWordCovers' /\ UiWordMarked' /\ CopiedColors'
      BY <1>2, <2>4 DEF ScreenInv, VmWordCovers, UiWordMarked, CopiedColors, WordOf
    <3>4. QED BY <1>1, <3>1, <3>2, <3>3 DEF ScreenInv
  <2>5. QED BY <1>2, <2>3, <2>4
<1>3. ASSUME NEW y \in Row, NEW image \in Image, PutWord(y, image)
      PROVE  UNCHANGED <<ui, shown, marked, palette, modified>> /\ vm'.pc # "store"
  BY <1>3 DEF PutWord, uiVars, VmRest
<1>4. ASSUME NEW top \in Row, NEW bottom \in 1 .. Height, NEW image \in Image,
             DrawRows(top, bottom, image)
      PROVE  UNCHANGED <<ui, shown, marked, palette, modified>> /\ vm'.pc # "store"
  BY <1>4 DEF DrawRows, uiVars, VmRest
<1>5. ASSUME NEW p \in Palette, PutPalette(p)
      PROVE  UNCHANGED <<ui, shown, marked, vm>> /\ modified' /\ vm'.pc # "store"
  BY <1>5 DEF PutPalette, uiVars
<1>6. CASE WriteRow
  <2>1. UNCHANGED <<ui, shown, marked, palette, modified>> /\ vm'.pc # "store"
    BY <1>1, <1>6 DEF WriteRow, uiVars, VmType
  <2>2. QED BY <1>2, <2>1
<1>7. CASE MarkLoad
  <2>1. UNCHANGED <<ui, shown, marked, palette, modified>>
    BY <1>7 DEF MarkLoad, uiVars
  <2>2. vm'.word = marked \cap WordOf(vm.y) /\ vm'.y = vm.y
    BY <1>1, <1>7 DEF MarkLoad, VmType
  <2>3. QED BY <1>2, <2>1, <2>2 DEF WordOf
<1>8. CASE MarkStore
  <2>1. UNCHANGED <<ui, shown, palette, modified>> /\ vm'.pc # "store"
    BY <1>1, <1>8 DEF MarkStore, uiVars, VmType, VmRest
  <2>2. marked \subseteq marked'
    BY <1>8 DEF MarkStore, ScreenInv, VmWordCovers
  <2>3. QED BY <1>2, <2>1, <2>2
<1>9. QED
  BY <1>2, <1>3, <1>4, <1>5, <1>6, <1>7, <1>8 DEF VmBegins, VmStep

(* What has to be shown of a step of the GTK thread.                       *)
LEMMA UiSuffices ==
  ASSUME ScreenInv, UiStep, marked' \subseteq marked,
         NoStaleColors', UiWordMarked', LostAreNotNeeded', CopiedColors'
  PROVE  ScreenInv'
<1>1. TypeOK'
  BY UiTyped DEF ScreenInv
<1>2. UNCHANGED vm
  BY DEF UiStep, Timeout, TestMark, ClearLoad, ClearStore, ScanColors, ScanPixels, vmVars
<1>3. VmWordCovers'
  BY <1>2 DEF ScreenInv, VmWordCovers, WordOf
<1>4. QED BY <1>1, <1>3 DEF ScreenInv

(* The GTK thread's steps.  ClearStore takes the mark of the row that it   *)
(* is about to scan, and the marks that are not in the word it has loaded. *)
LEMMA UiKeepsInv ==
  ASSUME ScreenInv, UiStep
  PROVE  ScreenInv'
<1> USE ScreenAssumption
<1>1. /\ modified \in BOOLEAN /\ marked \subseteq Row /\ ui \in UiType
      /\ (ui.pc = "rest" => ui = UiRest) /\ shown \in ShownType /\ vram \in [Row -> Image]
  BY TypeParts DEF ScreenInv
<1>2. /\ NoStaleColors /\ UiWordMarked /\ LostAreNotNeeded /\ CopiedColors
      /\ ui.y \in Row /\ Row \subseteq Nat
  BY <1>1 DEF ScreenInv, UiType, Row
<1>3. CASE Timeout
  <2>1. UNCHANGED <<palette, marked, shown>> /\ ui = UiRest
    BY <1>1, <1>3 DEF Timeout, vmVars
  <2>2. ui'.pc = "test" /\ ui'.y = 0
    BY <1>3 DEF Timeout, UiRest
  <2>3. modified => modified' \/ ui'.all
    BY <1>3 DEF Timeout, UiRest
  <2>4. ASSUME NEW y \in Row, OldColors(y)'
        PROVE  modified' \/ y \in marked' \/ ToBeScanned(y)'
    <3>1. modified \/ y \in marked
      BY <1>2, <2>1, <2>4 DEF NoStaleColors, OldColors, ToBeScanned, UiRest
    <3>2. QED BY <1>2, <2>1, <2>2, <2>3, <3>1 DEF ToBeScanned
  <2>5. NoStaleColors'
    BY <2>4 DEF NoStaleColors
  <2>6. QED
    BY <2>1, <2>2, <2>5, UiSuffices DEF UiWordMarked, LostAreNotNeeded, CopiedColors
<1>4. CASE TestMark
  <2>1. UNCHANGED <<palette, marked, modified, shown>> /\ ui.pc = "test"
    BY <1>4 DEF TestMark, vmVars
  <2>2. CASE ui' = [ui EXCEPT !.pc = "load"]
    <3>1. ui'.pc = "load" /\ ui'.y = ui.y /\ ui'.all = ui.all
      BY <1>1, <2>2 DEF UiType
    <3>2. NoStaleColors'
      BY <1>2, <2>1, <3>1 DEF NoStaleColors, OldColors, ToBeScanned
    <3>3. QED BY <2>1, <3>1, <3>2, UiSuffices DEF UiWordMarked, LostAreNotNeeded, CopiedColors
  <2>3. CASE ui' = [ui EXCEPT !.pc = "colors"]
    <3>1. ui'.pc = "colors" /\ ui'.y = ui.y /\ ui'.all = ui.all
      BY <1>1, <2>3 DEF UiType
    <3>2. NoStaleColors'
      BY <1>2, <2>1, <3>1 DEF NoStaleColors, OldColors, ToBeScanned
    <3>3. QED BY <2>1, <3>1, <3>2, UiSuffices DEF UiWordMarked, LostAreNotNeeded, CopiedColors
  <2>4. CASE ~ui.all /\ ui' = NextRow
    <3>1. ui'.pc \in {"test", "rest"}
      BY <1>1, <2>4 DEF NextRow, UiType, UiRest
    <3>2. \A y \in Row : OldColors(y) => modified \/ y \in marked
      BY <1>2, <2>1, <2>4 DEF NoStaleColors, ToBeScanned
    <3>3. NoStaleColors'
      BY <2>1, <3>2 DEF NoStaleColors, OldColors
    <3>4. QED BY <2>1, <3>1, <3>3, UiSuffices DEF UiWordMarked, LostAreNotNeeded, CopiedColors
  <2>5. QED BY <1>4, <2>2, <2>3, <2>4 DEF TestMark
<1>5. CASE ClearLoad
  <2>1. UNCHANGED <<palette, marked, modified, shown>> /\ ui.pc = "load"
    BY <1>5 DEF ClearLoad, vmVars
  <2>2. /\ ui'.pc = "store" /\ ui'.y = ui.y /\ ui'.all = ui.all
        /\ ui'.word = marked \cap WordOf(ui.y)
    BY <1>1, <1>5 DEF ClearLoad, UiType
  <2>3. NoStaleColors'
    BY <1>2, <2>1, <2>2 DEF NoStaleColors, OldColors, ToBeScanned
  <2>4. UiWordMarked'
    BY <2>1, <2>2 DEF UiWordMarked, WordOf
  <2>5. LostAreNotNeeded'
    BY <2>1, <2>2, <2>3 DEF LostAreNotNeeded, NoStaleColors, WordOf
  <2>6. QED BY <2>1, <2>2, <2>3, <2>4, <2>5, UiSuffices DEF CopiedColors
<1>6. CASE ClearStore
  <2>1. /\ UNCHANGED <<palette, modified, shown>> /\ ui.pc = "store"
        /\ marked' = (marked \ WordOf(ui.y)) \cup (ui.word \ {ui.y})
    BY <1>6 DEF ClearStore, vmVars
  <2>2. ui'.pc = "colors" /\ ui'.y = ui.y /\ ui'.all = ui.all
    BY <1>1, <1>6 DEF ClearStore, UiType
  <2>3. marked' \subseteq marked
    BY <1>2, <2>1 DEF UiWordMarked
  <2>4. ASSUME NEW y \in Row, OldColors(y)'
        PROVE  modified' \/ y \in marked' \/ ToBeScanned(y)'
    <3>1. OldColors(y) /\ (ToBeScanned(y) => ToBeScanned(y)')
      BY <2>1, <2>2, <2>4 DEF OldColors, ToBeScanned
    <3>2. CASE y \in WordOf(ui.y)
      <4>1. modified \/ y \in ui.word \/ ToBeScanned(y)
        BY <1>2, <2>1, <3>1, <3>2 DEF LostAreNotNeeded
      <4>2. QED BY <2>1, <2>2, <3>1, <4>1 DEF ToBeScanned
    <3>3. CASE y \notin WordOf(ui.y)
      BY <1>2, <2>1, <3>1, <3>3 DEF NoStaleColors
    <3>4. QED BY <3>2, <3>3
  <2>5. NoStaleColors'
    BY <2>4 DEF NoStaleColors
  <2>6. QED
    BY <2>2, <2>3, <2>5, UiSuffices DEF UiWordMarked, LostAreNotNeeded, CopiedColors
<1>7. CASE ScanColors
  <2>1. UNCHANGED <<palette, marked, modified, shown>> /\ ui.pc = "colors"
    BY <1>7 DEF ScanColors, vmVars
  <2>2. ui'.pc = "pixels" /\ ui'.y = ui.y /\ ui'.all = ui.all /\ ui'.colors = palette
    BY <1>1, <1>7 DEF ScanColors, UiType
  <2>3. NoStaleColors'
    BY <1>2, <2>1, <2>2 DEF NoStaleColors, OldColors, ToBeScanned
  <2>4. QED
    BY <2>1, <2>2, <2>3, UiSuffices DEF UiWordMarked, LostAreNotNeeded, CopiedColors
<1>8. CASE ScanPixels
  <2>1. /\ UNCHANGED <<palette, marked, modified>> /\ ui.pc = "pixels" /\ ui' = NextRow
        /\ shown' = [shown EXCEPT ![ui.y] = <<vram[ui.y], ui.colors>>]
    BY <1>8 DEF ScanPixels, vmVars
  <2>2. ui'.pc \in {"test", "rest"}
    BY <1>1, <2>1 DEF NextRow, UiType, UiRest
  <2>3. ASSUME NEW y \in Row, OldColors(y)'
        PROVE  modified' \/ y \in marked' \/ ToBeScanned(y)'
    <3>1. CASE y = ui.y
      <4>1. shown'[y] = <<vram[y], ui.colors>>
        BY <1>1, <2>1, <3>1 DEF ShownType
      <4>2. <<vram[y], ui.colors>> \in Image \X Palette
        BY <1>1, <3>1 DEF UiType
      <4>3. shown'[y] # Nothing /\ shown'[y][2] = ui.colors
        BY <4>1, <4>2
      <4>4. ui.colors # palette
        BY <2>1, <2>3, <4>3 DEF OldColors
      <4>5. QED BY <1>2, <2>1, <4>4 DEF CopiedColors
    <3>2. CASE y # ui.y
      <4>1. shown'[y] = shown[y]
        BY <1>1, <2>1, <3>2 DEF ShownType
      <4>2. OldColors(y)
        BY <2>1, <2>3, <4>1 DEF OldColors
      <4>3. modified \/ y \in marked \/ (ui.all /\ ui.y < y)
        BY <1>2, <2>1, <3>2, <4>2 DEF NoStaleColors, ToBeScanned
      <4>4. ASSUME ui.all /\ ui.y < y
            PROVE  ToBeScanned(y)'
        <5>1. ui.y + 1 < Height /\ (ui.y + 1 < y \/ ui.y + 1 = y)
          BY <1>2, <4>4 DEF Row
        <5>2. ui'.pc = "test" /\ ui'.y = ui.y + 1 /\ ui'.all = ui.all
          BY <1>1, <2>1, <5>1 DEF NextRow, UiType
        <5>3. QED BY <4>4, <5>1, <5>2 DEF ToBeScanned
      <4>5. QED BY <2>1, <4>3, <4>4
    <3>3. QED BY <3>1, <3>2
  <2>4. NoStaleColors'
    BY <2>3 DEF NoStaleColors
  <2>5. QED
    BY <2>1, <2>2, <2>4, UiSuffices DEF UiWordMarked, LostAreNotNeeded, CopiedColors
<1>9. QED
  BY <1>3, <1>4, <1>5, <1>6, <1>7, <1>8 DEF UiStep
-----------------------------------------------------------------------------
(* The invariant holds of every behaviour of the two threads.              *)
LEMMA ScreenInvHolds == Spec => []ScreenInv
<1>1. Init => ScreenInv
  <2>1. ASSUME Init PROVE TypeOK
    <3>1. FALSE \in BOOLEAN /\ Nothing \in {Nothing} \cup (Image \X Palette)
      BY Zenon
    <3>2. VmInOrder
      BY <2>1 DEF Init, VmInOrder, VmRest
    <3>3. modified \in BOOLEAN
      BY <2>1, <3>1, Zenon DEF Init
    <3>4. 1 \in 1 .. SCREEN_CHECK_INTERVAL
      BY ScreenAssumption
    <3>5. /\ vram \in [Row -> Image] /\ marked \subseteq Row /\ palette \in Palette
          /\ counter \in 1 .. SCREEN_CHECK_INTERVAL /\ shown \in ShownType
      BY <2>1, <3>1, <3>4, ScreenAssumption DEF Init, ShownType
    <3>6. QED BY <2>1, <3>2, <3>3, <3>5, TypeParts, RestTyped DEF Init
  <2>2. ASSUME Init
        PROVE  NoStaleColors /\ VmWordCovers /\ UiWordMarked /\ LostAreNotNeeded /\ CopiedColors
    BY <2>2 DEF Init, VmRest, UiRest, NoStaleColors, VmWordCovers, UiWordMarked,
                LostAreNotNeeded, CopiedColors
  <2>3. QED BY <2>1, <2>2 DEF ScreenInv
<1>2. ScreenInv /\ [Next]_vars => ScreenInv'
  <2>1. ASSUME ScreenInv, UNCHANGED vars PROVE ScreenInv'
    BY <2>1 DEF vars, uiVars, vmVars, ScreenInv, TypeOK, VmWordCovers, UiWordMarked,
                LostAreNotNeeded, CopiedColors, NoStaleColors, OldColors, ToBeScanned, WordOf
  <2>2. QED BY <2>1, VmKeepsInv, UiKeepsInv DEF Next
<1>3. QED BY <1>1, <1>2, PTL DEF Spec

(* Every loop over rows stays on the screen, and the threads' places are   *)
(* among those the code has.                                               *)
THEOREM ScreenTypeCorrect == Spec => []TypeOK
<1>1. ScreenInv => TypeOK
  BY DEF ScreenInv
<1>2. QED BY <1>1, ScreenInvHolds, PTL

(* A change of the text palettes reaches every row: the flag of            *)
(* palettes_memory, a mark or the redraw that goes on will scan each row   *)
(* that shows other colors, though marks of other rows may get lost.       *)
THEOREM NoRowKeepsOldColors == Spec => []NoStaleColors
<1>1. ScreenInv => NoStaleColors
  BY DEF ScreenInv
<1>2. QED BY <1>1, ScreenInvHolds, PTL
=============================================================================
