CONSTANTS
  Height = 2
  WordRows = 2
  SCREEN_CHECK_INTERVAL = 2
  Image = {blank, text}
  Palette = {p1, p2}
  Blank = blank
  FirstPalette = p1
  Nothing = Nothing

SPECIFICATION Spec

INVARIANTS
  TypeOK
  NoStaleColors
PROPERTY PaletteRepairs
