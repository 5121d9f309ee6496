CONSTANTS
  Parts = {"heap", "supervisor", "memory", "console", "mouse", "floppy", "fonts", "sram", "calendar"}

  Address = 10
  Lim = 123
  Lengths <- MCLengths
  Pointers <- MCPointers

  Top = 30
  SuperTop = 30
  MaxCalls = 3

  MemSize = 2097152
  MainWords <- MCMainWords
  TextWord = 14680064
  ColorWord = 15213056
  Ports <- MCPorts
  Areas = {0}
  Values <- MCValues

  Columns = 4
  Rows = 2
  TabSize = 4
  Stride = 8
  MaxLines = 3

  Screen = 3
  MaxDelta = 2
  Limits <- MCLimits
  Garbage = {0, 7}

  Images = {0, 9, 1232}
  Cylinders = {0, 76, 77}
  Heads = {0, 1, 2}
  Records = {0, 1, 8, 9}
  Sizes = {2, 3}
  ByteCounts = {0, 1, 1024, 2049, 8191}
  LongWord = 8192

  Leads <- MCLeads
  Trails <- MCTrails

  Process = {p1, p2}

  Years = {1999, 2080}
  Months = {9, 12}
  Days = {1, 31}
  Weekdays = {6}
  Hours = {23}
  Minutes = {0, 59}

SPECIFICATION MachineSpec

INVARIANTS
  Layout
  ParentsLive
  Rooted
  MachineTypeOK
  LoadsSeeStores
  ScreenShowsLines
  MotionAddsUp
  ReadsRecords
  GlyphsAgree
  SettingsReady
  DatesAgree

PROPERTIES
  CallsBalance
  UserKeepsOut

CHECK_DEADLOCK FALSE
