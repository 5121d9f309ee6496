------------------------------ MODULE TextConsole ------------------------------
(***************************************************************************)
(* The text screen that programs write to: machine::b_putc with its cursor *)
(* and the first bytes of double-byte characters it keeps, and the text    *)
(* VRAM's scroll and draw_char (libvx68k/machine.cc, textvram.cc).         *)
(*                                                                         *)
(* Beside it stands the paper: all lines that were ever written.           *)
(***************************************************************************)
EXTENDS Integers, Sequences

CONSTANTS
  Columns,     \* 96 in the code
  Rows,        \* 31
  TabSize,     \* 8
  Stride,      \* 128: columns of a row in the VRAM
  MaxLines     \* bound on the paper's lines

ConsoleAssumption ==
  /\ {Columns, Rows, TabSize, Stride} \subseteq Nat \ {0} /\ MaxLines \in Nat
  /\ Columns % TabSize = 0 /\ Stride > Columns + 1

VARIABLES
  screen,      \* the first Rows rows of the VRAM, with a character's halves
  curx, cury,  \* the cursor
  saved,       \* saved_byte1 is set
  lines,       \* the paper
  lost         \* a character was drawn beyond a line's end

cvars == <<screen, curx, cury, saved, lines, lost>>

(* Bytes: controls, one-column characters and the first of double-byte     *)
(* characters, as _PRINT, _FPUTS, _WRITE and _B_PRINT send them; _B_PUTC   *)
(* and _PUTCHAR also send words: double-byte characters, and what is none  *)
(* and is drawn as a byte but takes two columns.                           *)
Bytes == {"HT", "LF", "CR", "BEL", "narrow", "lead"}
Words == {"wide", "odd"}

Blank == [x \in 0..(Stride - 1) |-> "blank"]

Init ==
  /\ screen = [y \in 0..(Rows - 1) |-> Blank]
  /\ curx = 0 /\ cury = 0
  /\ saved = FALSE
  /\ lines = <<Blank>>
  /\ lost = FALSE
-----------------------------------------------------------------------------
(* One line up, and an empty one at the bottom.                            *)
Scroll(s) == [y \in DOMAIN s |-> IF y = Rows - 1 THEN Blank ELSE s[y + 1]]

(* ++cury, and scroll at the bottom.                                       *)
Down(s, y) ==
  IF y + 1 = Rows THEN [screen |-> Scroll(s), y |-> y] ELSE [screen |-> s, y |-> y + 1]

(* The kind of character that a code makes with what was saved.            *)
Combined(code) == IF saved /\ code \in Bytes THEN "wide" ELSE code

(* The row with a character drawn at x.                                    *)
Draw(row, x, char) ==
  CASE char = "wide" -> [row EXCEPT ![x] = "left", ![x + 1] = "right"]
    [] OTHER -> [row EXCEPT ![x] = "narrow"]

Width(char) == IF char \in Words THEN 2 ELSE 1

(* Wrong: it is broken at the end of the line.                             *)
FittedNever(x, char) == x

(* The column of a double-byte character that does not fit.                *)
Fitted(x, char) == IF char \in Words /\ x + 1 = Columns THEN x + 1 ELSE x

Control(code) ==
  /\ saved' = FALSE
  /\ curx' = CASE code = "HT" -> ((curx + TabSize) \div TabSize) * TabSize
               [] code = "CR" -> 0
               [] OTHER -> curx
  /\ curx' <= Stride
  /\ UNCHANGED lost
  /\ IF code = "LF"
     THEN LET d == Down(screen, cury)
          IN screen' = d.screen /\ cury' = d.y /\ lines' = Append(lines, Blank)
     ELSE UNCHANGED <<screen, cury, lines>>

(* The paper takes a character on a new line if the last has no room.      *)
OnPaper(char, drawn) ==
  LET full == curx >= Columns \/ (char \in Words /\ curx + 1 = Columns)
      l == IF full THEN Append(lines, Blank) ELSE lines
  IN lines' = IF drawn
              THEN [l EXCEPT ![Len(l)] = Draw(@, IF full THEN 0 ELSE curx, char)]
              ELSE l

Character(code) ==
  LET char == Combined(code)
      wrap == Fitted(curx, char) = Columns
      x == IF wrap THEN 0 ELSE curx
      d == IF wrap THEN Down(screen, cury) ELSE [screen |-> screen, y |-> cury]
      drawn == char # "lead"
  IN /\ x + 2 <= Stride
     /\ cury' = d.y
     /\ screen' = IF drawn THEN [d.screen EXCEPT ![d.y] = Draw(@, x, char)] ELSE d.screen
     /\ curx' = IF drawn THEN x + Width(char) ELSE x
     /\ saved' = ~drawn
     /\ OnPaper(char, drawn)
     /\ lost' = (curx > Columns)

BPutc(code) == IF code \in {"HT", "LF", "CR", "BEL"} THEN Control(code) ELSE Character(code)

(* Bounds: the paper's lines, and how far tabs take the cursor; what comes *)
(* after a lost character is not followed.                                 *)
Next == \E code \in Bytes \cup Words : Len(lines) < MaxLines /\ ~lost /\ BPutc(code)

Spec == Init /\ [][Next]_cvars
-----------------------------------------------------------------------------
(* The cursor is on the screen's rows.                                     *)
TypeOK ==
  /\ screen \in [0..(Rows - 1) -> [0..(Stride - 1) -> {"blank", "narrow", "left", "right"}]]
  /\ cury \in 0..(Rows - 1) /\ curx \in 0..Stride

(* Lines that have left the screen.                                        *)
Gone == IF Len(lines) > Rows THEN Len(lines) - Rows ELSE 0

(* The screen shows the last lines of all that was written, each in its    *)
(* place and nothing else, whatever mixes of tabs, line feeds, single and  *)
(* double-byte characters, split or whole, have wrapped and scrolled it.   *)
(* That holds until a character follows a tab at column 96, which takes    *)
(* the cursor to 104: b_putc compares it with 96 only.                     *)
ScreenShowsLines ==
  ~lost =>
    /\ \A y \in 0..(Rows - 1), x \in 0..(Columns - 1) :
         screen[y][x] = IF y + 1 + Gone <= Len(lines) THEN lines[y + 1 + Gone][x] ELSE "blank"
    /\ cury = Len(lines) - 1 - Gone
=============================================================================
