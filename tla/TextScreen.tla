------------------------------ MODULE TextScreen ------------------------------
(***************************************************************************)
(* How text reaches the window: the VM's thread writes rows of the text    *)
(* VRAM and marks them (libvx68k/textvram.cc) and changes text palettes    *)
(* (libvx68k/palettemem.cc), while the GTK thread's timeout polls the      *)
(* marks and redraws rows (libvx68k-gtk/gtkconsole.cc).                    *)
(*                                                                         *)
(* mark_update_area locks the text VRAM's mutex and row_changed does not,  *)
(* so nothing excludes them: the loads and stores of the words that        *)
(* vector<bool> packs its elements into interleave, and the mutex, which   *)
(* nothing else takes while both threads run, is left out.  The palettes'  *)
(* mutex is taken by both sides: what is done under it is one step.        *)
(***************************************************************************)
EXTENDS Integers, FiniteSets

CONSTANTS
  Height,                  \* rows that are shown: 512
  WordRows,                \* elements in a word of vector<bool>
  SCREEN_CHECK_INTERVAL,   \* redraw timeouts between looks at the palettes
  Image,                   \* what a row of the VRAM may hold
  Palette,                 \* what the text palettes may be
  Blank, FirstPalette,     \* what they are at first
  Nothing                  \* what a row of the window shows before it is drawn

ASSUME ScreenAssumption ==
  /\ Height \in Nat \ {0}
  /\ WordRows \in Nat \ {0}
  /\ SCREEN_CHECK_INTERVAL \in Nat \ {0}
  /\ Blank \in Image /\ FirstPalette \in Palette
  /\ Nothing \notin Image \X Palette

Row == 0 .. Height - 1

(* The rows with a mark in the same word as row y's.                       *)
WordOf(y) == {r \in Row : r \div WordRows = y \div WordRows}

VARIABLES
  vram,       \* the image of each row
  marked,     \* raster_update_marks: the rows that are marked
  palette,    \* the text palettes
  modified,   \* text_colors_modified
  vm,         \* the VM's thread: a drawing of rows top .. bottom - 1
  counter,    \* timeouts until the next look at the palettes
  ui,         \* the GTK thread: its timeout handler
  shown       \* the image and the palettes each row of the window was drawn of

vars == <<vram, marked, palette, modified, vm, counter, ui, shown>>

vmVars == <<vram, palette, vm>>
uiVars == <<counter, ui, shown>>
-----------------------------------------------------------------------------
VmRest == [pc |-> "rest", top |-> 0, bottom |-> 0, y |-> 0, image |-> Blank, word |-> {}]
UiRest == [pc |-> "rest", y |-> 0, all |-> FALSE, word |-> {}, colors |-> FirstPalette]

(* After connect, which marks every row that is shown.                     *)
Init ==
  /\ vram = [y \in Row |-> Blank]
  /\ marked = Row
  /\ palette = FirstPalette
  /\ modified = FALSE
  /\ vm = VmRest
  /\ counter = 1
  /\ ui = UiRest
  /\ shown = [y \in Row |-> Nothing]
-----------------------------------------------------------------------------
(* put_16 and put_8 write one row, if it is to change.                     *)
PutWord(y, image) ==
  /\ vm.pc = "rest"
  /\ vram[y] # image
  /\ vm' = [VmRest EXCEPT !.pc = "write", !.top = y, !.bottom = y + 1, !.y = y,
                          !.image = image]
  /\ UNCHANGED <<vram, marked, palette, modified, uiVars>>

(* draw_char, scroll and fill_plane write several rows.                    *)
DrawRows(top, bottom, image) ==
  /\ vm.pc = "rest"
  /\ top < bottom
  /\ vm' = [VmRest EXCEPT !.pc = "write", !.top = top, !.bottom = bottom, !.y = top,
                          !.image = image]
  /\ UNCHANGED <<vram, marked, palette, modified, uiVars>>

WriteRow ==
  /\ vm.pc = "write"
  /\ vram' = [vram EXCEPT ![vm.y] = vm.image]
  /\ vm' = IF vm.y + 1 < vm.bottom THEN [vm EXCEPT !.y = @ + 1]
           ELSE [vm EXCEPT !.pc = "load", !.y = vm.top]
  /\ UNCHANGED <<marked, palette, modified, uiVars>>

(* mark_update_area, word by word.                                         *)
MarkLoad ==
  /\ vm.pc = "load"
  /\ vm' = [vm EXCEPT !.pc = "store", !.word = marked \cap WordOf(vm.y)]
  /\ UNCHANGED <<vram, marked, palette, modified, uiVars>>

MarkStore ==
  LET last == CHOOSE r \in WordOf(vm.y) : \A s \in WordOf(vm.y) : s <= r IN
  /\ vm.pc = "store"
  /\ marked' = (marked \ WordOf(vm.y)) \cup vm.word
                 \cup (WordOf(vm.y) \cap (vm.top .. vm.bottom - 1))
  /\ vm' = IF last + 1 < vm.bottom
           THEN [vm EXCEPT !.pc = "load", !.y = last + 1, !.word = {}]
           ELSE VmRest
  /\ UNCHANGED <<vram, palette, modified, uiVars>>

(* Wrong: sets no flag.                                                    *)
PutPaletteUnflagged(p) ==
  /\ vm.pc = "rest"
  /\ p # palette
  /\ palette' = p
  /\ UNCHANGED <<vram, marked, modified, vm, uiVars>>

(* palettes_memory::put_16.                                                *)
PutPalette(p) ==
  /\ vm.pc = "rest"
  /\ p # palette
  /\ palette' = p
  /\ modified' = TRUE
  /\ UNCHANGED <<vram, marked, vm, uiVars>>
-----------------------------------------------------------------------------
(* Wrong: resets the flag at every redraw, and looks at it at some.        *)
TimeoutForgets ==
  /\ ui.pc = "rest"
  /\ IF counter > 1
     THEN /\ counter' = counter - 1
          /\ ui' = [UiRest EXCEPT !.pc = "test"]
     ELSE /\ counter' = SCREEN_CHECK_INTERVAL
          /\ ui' = [UiRest EXCEPT !.pc = "test", !.all = modified]
  /\ modified' = FALSE
  /\ UNCHANGED <<vmVars, marked, shown>>

(* handle_timeout, every TIMEOUT_INTERVAL: screen_changed, which returns   *)
(* the flag and resets it, at every SCREEN_CHECK_INTERVALth time; then row *)
(* after row.                                                              *)
Timeout ==
  /\ ui.pc = "rest"
  /\ IF counter > 1
     THEN /\ counter' = counter - 1
          /\ ui' = [UiRest EXCEPT !.pc = "test"]
          /\ UNCHANGED modified
     ELSE /\ counter' = SCREEN_CHECK_INTERVAL
          /\ ui' = [UiRest EXCEPT !.pc = "test", !.all = modified]
          /\ modified' = FALSE
  /\ UNCHANGED <<vmVars, marked, shown>>

(* Wrong: one row too many.                                                *)
NextRowTooFar ==
  IF ui.y < Height THEN [ui EXCEPT !.pc = "test", !.y = @ + 1, !.word = {}]
                   ELSE UiRest

NextRow ==
  IF ui.y + 1 < Height THEN [ui EXCEPT !.pc = "test", !.y = @ + 1, !.word = {}]
                       ELSE UiRest

(* row_changed: reads the mark, and clears it if it was set.               *)
TestMark ==
  /\ ui.pc = "test"
  /\ ui' = IF ui.y \in marked THEN [ui EXCEPT !.pc = "load"]
           ELSE IF ui.all THEN [ui EXCEPT !.pc = "colors"]
           ELSE NextRow
  /\ UNCHANGED <<vmVars, marked, modified, counter, shown>>

ClearLoad ==
  /\ ui.pc = "load"
  /\ ui' = [ui EXCEPT !.pc = "store", !.word = marked \cap WordOf(ui.y)]
  /\ UNCHANGED <<vmVars, marked, modified, counter, shown>>

ClearStore ==
  /\ ui.pc = "store"
  /\ marked' = (marked \ WordOf(ui.y)) \cup (ui.word \ {ui.y})
  /\ ui' = [ui EXCEPT !.pc = "colors", !.word = {}]
  /\ UNCHANGED <<vmVars, modified, counter, shown>>

(* scan_row: a copy of the text palettes, then the row's pixels.           *)
ScanColors ==
  /\ ui.pc = "colors"
  /\ ui' = [ui EXCEPT !.pc = "pixels", !.colors = palette]
  /\ UNCHANGED <<vmVars, marked, modified, counter, shown>>

ScanPixels ==
  /\ ui.pc = "pixels"
  /\ shown' = [shown EXCEPT ![ui.y] = <<vram[ui.y], ui.colors>>]
  /\ ui' = NextRow
  /\ UNCHANGED <<vmVars, marked, modified, counter>>
-----------------------------------------------------------------------------
VmBegins ==
  \/ \E y \in Row, image \in Image : PutWord(y, image)
  \/ \E top \in Row, bottom \in 1 .. Height, image \in Image : DrawRows(top, bottom, image)
  \/ \E p \in Palette : PutPalette(p)

VmStep == WriteRow \/ MarkLoad \/ MarkStore

UiStep == Timeout \/ TestMark \/ ClearLoad \/ ClearStore \/ ScanColors \/ ScanPixels

Next == VmBegins \/ VmStep \/ UiStep

(* GTK's main loop runs the timeout again and again, and the VM's thread   *)
(* goes on with a drawing it has begun; it need not begin another.         *)
Spec == Init /\ [][Next]_vars /\ WF_vars(VmStep) /\ WF_vars(UiStep)
-----------------------------------------------------------------------------
TypeOK ==
  /\ vram \in [Row -> Image]
  /\ marked \subseteq Row
  /\ palette \in Palette
  /\ modified \in BOOLEAN
  /\ vm \in [pc : {"rest", "write", "load", "store"}, top : Nat, bottom : Nat,
             y : Nat, image : Image, word : SUBSET Row]
  /\ counter \in 1 .. SCREEN_CHECK_INTERVAL
  /\ ui \in [pc : {"rest", "test", "load", "store", "colors", "pixels"}, y : Row,
             all : BOOLEAN, word : SUBSET Row, colors : Palette]
  /\ shown \in [Row -> {Nothing} \cup (Image \X Palette)]
  /\ vm.pc # "rest" => vm.y \in vm.top .. vm.bottom - 1 /\ vm.bottom <= Height
  /\ ui.pc = "rest" => ui = UiRest

(* A row that shows colors of before a change, or nothing yet, is redrawn: *)
(* it is marked, or this redraw or the next look at the palettes has still *)
(* to come to it.                                                          *)
OldColors(y) == IF shown[y] = Nothing THEN TRUE ELSE shown[y][2] # palette

ToBeScanned(y) ==
  \/ ui.pc # "rest" /\ ui.all /\ ui.y < y
  \/ ui.y = y /\ (ui.pc = "store" \/ ui.pc = "colors")
  \/ ui.y = y /\ ui.pc \in {"test", "load"} /\ ui.all
  \/ ui.y = y /\ ui.pc = "pixels" /\ ui.colors = palette

NoStaleColors ==
  \A y \in Row : OldColors(y) => modified \/ y \in marked \/ ToBeScanned(y)

(* Every row that is shown differs from the VRAM only as long as a mark    *)
(* says so: row_changed "returns true once when the row is changed", so    *)
(* that between two redraws, with no drawing going on, no change is left   *)
(* without its mark.                                                       *)
NoStaleRow ==
  vm.pc = "rest" /\ ui.pc = "rest" =>
    \A y \in Row : y \notin marked => shown[y] # Nothing /\ shown[y][1] = vram[y]

(* Once the program leaves the screen alone, a change of colors that the   *)
(* redraw has yet to see makes all of the window right, the rows whose     *)
(* marks were lost included.                                               *)
AllShown == \A y \in Row : shown[y] = <<vram[y], palette>>

PaletteRepairs ==
  \A p \in Palette : [](modified /\ [](vm.pc = "rest" /\ palette = p) => <>AllShown)
=============================================================================
