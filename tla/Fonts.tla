--------------------------------- MODULE Fonts ---------------------------------
(***************************************************************************)
(* The font ROM (libvx68k/fontrom.cc): the places of its glyphs, the       *)
(* glyphs that machine::connect copies into it from the console, what the  *)
(* calls _FNTADR and _FNTGET tell programs of a character, and the glyph   *)
(* that draw_char (libvx68k/textvram.cc) draws for it.                     *)
(*                                                                         *)
(* A character is <<ch1, ch2>>.  A glyph is <<"narrow", ch>> or            *)
(* <<"wide", ch1, ch2>>, with a JIS code.                                  *)
(***************************************************************************)
EXTENDS Integers, FiniteSets, Sequences

CONSTANTS
  Leads, Trails     \* bytes of the characters that programs ask for

FontAssumption == Leads \subseteq 0..255 /\ Trails \subseteq 0..255

VARIABLES
  connected,   \* the console's glyphs have been copied
  wanted,      \* the last character asked for, and its size in dots
  place,       \* _FNTADR's answer: an offset in the ROM, and the numbers of
               \* bytes of a line and of lines, less one
  drawn        \* the glyph that draw_char draws or _FNTGET gives

nvars == <<connected, wanted, place, drawn>>

Nothing == <<>>
(* What new[] left in the ROM, and what is behind the ROM's end.           *)
Uncopied == <<"garbage">>
Zeros == <<"zeros">>

Init ==
  /\ connected = FALSE
  /\ wanted = Nothing /\ place = Nothing /\ drawn = Nothing
-----------------------------------------------------------------------------
LinearJis(ch1, ch2) ==
  (IF ch1 >= \h30 THEN ch1 - \h30 + 8 ELSE ch1 - \h21) * 94 + (ch2 - \h21)

Narrow16(ch) == ch * 16 + \h3a800
Narrow24(ch) == ch * 48 + \h3d000
Wide16(ch1, ch2) == LinearJis(ch1, ch2) * 32
Wide24(ch1, ch2) == LinearJis(ch1, ch2) * 72 + \h40000

(* copy_data: all narrow glyphs of 16 dots, and those wide ones that the   *)
(* two loops come to; no glyph of 24 dots.                                 *)
CopiedRow(ch1) == ch1 \in (\h21..\h28) \cup (\h30..\h74)
CopiedWide == {c \in (\h21..\h74) \X (\h21..\h7e) : CopiedRow(c[1])}

Contents ==
  LET wideAt == {Wide16(c[1], c[2]) : c \in CopiedWide}
      narrowAt == {Narrow16(ch) : ch \in 0..255}
      row(o) == o \div (32 * 94)
      wide(o) == <<"wide", IF row(o) < 8 THEN row(o) + \h21 ELSE row(o) - 8 + \h30,
                   ((o \div 32) % 94) + \h21>>
  IN [o \in wideAt \cup narrowAt |->
        IF o \in narrowAt THEN <<"narrow", (o - \h3a800) \div 16>> ELSE wide(o)]

(* What reading a glyph of the ROM at an offset gives.                     *)
GlyphAt(o) ==
  IF o % \h100000 >= \hc0000 THEN Zeros
  ELSE IF connected /\ o \in DOMAIN Contents THEN Contents[o]
  ELSE Uncopied

IsLead(ch1) == ch1 \in \h81..\h9f \/ ch1 \in \he0..\hef
TwoBytes(ch1) == ch1 \in \h21..\h7e

(* Wrong: the gap at 0x7f is not closed.                                   *)
ToJisWithGap(c, signed) ==
  IF ~IsLead(c[1]) THEN c
  ELSE LET row == 2 * (IF c[1] >= \he0 THEN c[1] - \hc1 ELSE c[1] - \h81)
           col == c[2] - \h40
           second == col >= 94 \/ (~signed /\ col < 0)
       IN IF second THEN <<row + 1 + \h21, col - 94 + \h21>> ELSE <<row + \h21, col + \h21>>

(* Shift-JIS to JIS, as written three times: with unsigned arithmetic in   *)
(* the calls, where a column below 0 is above 94, and signed in draw_char. *)
ToJis(c, signed) ==
  IF ~IsLead(c[1]) THEN c
  ELSE LET row == 2 * (IF c[1] >= \he0 THEN c[1] - \hc1 ELSE c[1] - \h81)
           col == IF c[2] >= \h80 THEN c[2] - \h41 ELSE c[2] - \h40
           second == col >= 94 \/ (~signed /\ col < 0)
       IN IF second THEN <<row + 1 + \h21, col - 94 + \h21>> ELSE <<row + \h21, col + \h21>>

Place(j, size) ==
  IF TwoBytes(j[1])
  THEN IF size = 12 THEN Wide24(j[1], j[2]) ELSE Wide16(j[1], j[2])
  ELSE IF size = 12 THEN Narrow24(j[2]) ELSE Narrow16(j[2])

Shape(j, size) ==
  << IF TwoBytes(j[1]) THEN (IF size = 12 THEN 2 ELSE 1) ELSE IF size = 12 THEN 1 ELSE 0,
     CASE size = 6 -> 11 [] size = 12 -> 23 [] OTHER -> 15 >>

(* machine::connect.                                                       *)
CopyData ==
  /\ connected' = TRUE
  /\ wanted' = Nothing /\ place' = Nothing /\ drawn' = Nothing

FntAdr(c, size) ==
  LET j == ToJis(c, FALSE)
  IN /\ wanted = Nothing /\ wanted' = <<c, size>>
     /\ place' = <<Place(j, size)>> \o Shape(j, size)
     /\ drawn' = Nothing
     /\ UNCHANGED connected

(* _FNTGET: nothing for 6 dots; the glyph, as the ROM has it.              *)
FntGet(c, size) ==
  /\ wanted = Nothing /\ wanted' = <<c, size>>
  /\ drawn' = IF size = 6 THEN Nothing ELSE GlyphAt(Place(ToJis(c, FALSE), size))
  /\ place' = Nothing
  /\ UNCHANGED connected

(* draw_char asks the console.                                             *)
DrawChar(c) ==
  LET j == ToJis(c, TRUE)
  IN /\ connected
     /\ wanted = Nothing /\ wanted' = <<c, 8>>
     /\ drawn' = IF TwoBytes(j[1]) THEN <<"wide", j[1], j[2]>> ELSE <<"narrow", j[2]>>
     /\ place' = Nothing
     /\ UNCHANGED connected

(* The program goes on with what it was told.                              *)
GoOn ==
  /\ wanted # Nothing
  /\ wanted' = Nothing /\ place' = Nothing /\ drawn' = Nothing
  /\ UNCHANGED connected

Next ==
  \/ CopyData \/ GoOn
  \/ \E c \in Leads \X Trails :
       DrawChar(c) \/ \E size \in {0, 6, 8, 12} : FntAdr(c, size) \/ FntGet(c, size)

Spec == Init /\ [][Next]_nvars
-----------------------------------------------------------------------------
(* Glyphs are glyphs.                                                      *)
TypeOK ==
  /\ connected \in BOOLEAN
  /\ drawn = Nothing \/ drawn[1] \in {"narrow", "wide", "garbage", "zeros"}
  /\ place = Nothing \/ (place[2] \in 0..2 /\ place[3] \in {11, 15, 23})

(* Shift-JIS orders the characters by 188 to a first byte, JIS by 94 to a  *)
(* row.                                                                    *)
SjisTrails == (\h40..\h7e) \cup (\h80..\hfc)
Number(c) ==
  188 * (IF c[1] < \ha0 THEN c[1] - \h81 ELSE c[1] - \hc1) + Cardinality({t \in SjisTrails : t < c[2]})
Glyph(c) ==
  IF IsLead(c[1]) THEN <<"wide", (Number(c) \div 94) + \h21, (Number(c) % 94) + \h21>>
  ELSE <<"narrow", c[2]>>

(* The characters that both the text screen and the calls can show: one    *)
(* byte, or two in Shift-JIS whose JIS row the console has.                *)
Shown(c) ==
  \/ c[1] = 0
  \/ IsLead(c[1]) /\ c[2] \in SjisTrails /\ CopiedRow(Glyph(c)[2])

(* For every such character the three copies of the conversion and the     *)
(* ROM's layout agree: _FNTGET gives, and the address that _FNTADR tells   *)
(* holds, the very glyph that b_putc draws; so no two glyphs share a place *)
(* and none lies behind the ROM's end.  (Glyphs of 24 dots are never       *)
(* copied: programs read what new[] left.)                                 *)
GlyphsAgree ==
  connected /\ wanted # Nothing /\ wanted[2] \in {0, 8} /\ Shown(wanted[1]) =>
    /\ drawn # Nothing => drawn = Glyph(wanted[1])
    /\ place # Nothing => GlyphAt(place[1]) = Glyph(wanted[1])
=============================================================================
