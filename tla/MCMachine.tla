------------------------------- MODULE MCMachine -------------------------------
(***************************************************************************)
(* An instance for TLC of the components of the machine that a program     *)
(* calls one at a time and that share no state: the DOS heap, the          *)
(* supervisor state, main memory with the devices' registers, the text     *)
(* console, the mouse, floppy disks, fonts, the SRAM and the calendar.     *)
(* Each behaviour runs one of them, `part', and the others' variables are  *)
(* idle; so the states are the sum of the components' and not the product, *)
(* and nothing is lost, since no step of one reads or writes another's.    *)
(***************************************************************************)
EXTENDS DosHeap, Sequences

CONSTANTS
  Parts,
  Top, SuperTop, MaxCalls,
  MemSize, MainWords, TextWord, ColorWord, Ports, Areas, Values,
  Columns, Rows, TabSize, Stride, MaxLines,
  Screen, MaxDelta, Limits, Garbage,
  Images, Cylinders, Heads, Records, Sizes, ByteCounts, LongWord,
  Leads, Trails,
  Process,
  Years, Months, Days, Weekdays, Hours, Minutes

VARIABLES
  part,
  dos, regs, mem, vec, runs, rerun, calls,
  content, protected, text, color, fdc, mfp, got, user, stored,
  screen, curx, cury, saved, lines, lost,
  pos, old, motion, bounds, buttons, getdt, seen, start, reads,
  disks, buffer, asked, result,
  connected, wanted, place, drawn,
  length, memsize, bootdev, room, at, given,
  clock, read, kind, d0

Sup == INSTANCE Supervisor
Mem == INSTANCE AddressSpace
Con == INSTANCE TextConsole
Mou == INSTANCE Mouse
Flo == INSTANCE Floppy
Fon == INSTANCE Fonts
Ram == INSTANCE Sram
Cal == INSTANCE Calendar

ASSUME MachineAssumption ==
  /\ Sup!SupervisorAssumption /\ Mem!AddressAssumption /\ Con!ConsoleAssumption
  /\ Mou!MouseAssumption /\ Flo!FloppyAssumption /\ Fon!FontAssumption /\ Cal!CalendarAssumption

supIdle == dos = 0 /\ regs = 0 /\ mem = 0 /\ vec = 0 /\ runs = 0 /\ rerun = 0 /\ calls = <<>>
memIdle ==
  /\ content = 0 /\ protected = 0 /\ text = 0 /\ color = 0 /\ fdc = 0 /\ mfp = 0
  /\ got = 0 /\ user = FALSE /\ stored = 0
conIdle == screen = 0 /\ curx = 0 /\ cury = 0 /\ saved = 0 /\ lines = 0 /\ lost = 0
mouIdle ==
  /\ pos = 0 /\ old = 0 /\ motion = 0 /\ bounds = 0 /\ buttons = 0 /\ getdt = 0
  /\ seen = 0 /\ start = 0 /\ reads = 0
floIdle == disks = 0 /\ buffer = 0 /\ asked = 0 /\ result = 0
fonIdle == connected = 0 /\ wanted = 0 /\ place = 0 /\ drawn = 0
ramIdle == length = 0 /\ memsize = 0 /\ bootdev = 0 /\ room = 0 /\ at = 0 /\ given = 0
calIdle == clock = 0 /\ read = 0 /\ kind = 0 /\ d0 = 0

MachineInit ==
  /\ part \in Parts
  /\ Init
  /\ IF part = "supervisor" THEN Sup!Init ELSE supIdle
  /\ IF part = "memory" THEN Mem!Init ELSE memIdle
  /\ IF part = "console" THEN Con!Init ELSE conIdle
  /\ IF part = "mouse" THEN Mou!Init ELSE mouIdle
  /\ IF part = "floppy" THEN Flo!Init ELSE floIdle
  /\ IF part = "fonts" THEN Fon!Init ELSE fonIdle
  /\ IF part = "sram" THEN Ram!Init ELSE ramIdle
  /\ IF part = "calendar" THEN Cal!Init ELSE calIdle

supv == <<dos, regs, mem, vec, runs, rerun, calls>>
memv == <<content, protected, text, color, fdc, mfp, got, user, stored>>
conv == <<screen, curx, cury, saved, lines, lost>>
mouv == <<pos, old, motion, bounds, buttons, getdt, seen, start, reads>>
flov == <<disks, buffer, asked, result>>
fonv == <<connected, wanted, place, drawn>>
ramv == <<length, memsize, bootdev, room, at, given>>
calv == <<clock, read, kind, d0>>

MachineNext ==
  \/ /\ part = "heap" /\ Next
     /\ UNCHANGED <<part, supv, memv, conv, mouv, flov, fonv, ramv, calv>>
  \/ /\ part = "supervisor" /\ Sup!Next
     /\ UNCHANGED <<part, vars, memv, conv, mouv, flov, fonv, ramv, calv>>
  \/ /\ part = "memory" /\ Mem!Next
     /\ UNCHANGED <<part, vars, supv, conv, mouv, flov, fonv, ramv, calv>>
  \/ /\ part = "console" /\ Con!Next
     /\ UNCHANGED <<part, vars, supv, memv, mouv, flov, fonv, ramv, calv>>
  \/ /\ part = "mouse" /\ Mou!Next
     /\ UNCHANGED <<part, vars, supv, memv, conv, flov, fonv, ramv, calv>>
  \/ /\ part = "floppy" /\ Flo!Next
     /\ UNCHANGED <<part, vars, supv, memv, conv, mouv, fonv, ramv, calv>>
  \/ /\ part = "fonts" /\ Fon!Next
     /\ UNCHANGED <<part, vars, supv, memv, conv, mouv, flov, ramv, calv>>
  \/ /\ part = "sram" /\ Ram!Next
     /\ UNCHANGED <<part, vars, supv, memv, conv, mouv, flov, fonv, calv>>
  \/ /\ part = "calendar" /\ Cal!Next
     /\ UNCHANGED <<part, vars, supv, memv, conv, mouv, flov, fonv, ramv>>

machineVars == <<part, vars, supv, memv, conv, mouv, flov, fonv, ramv, calv>>

MachineSpec == MachineInit /\ [][MachineNext]_machineVars
-----------------------------------------------------------------------------
(* The type invariants of the parts.                                       *)
MachineTypeOK ==
  /\ TypeOK
  /\ part = "supervisor" => Sup!TypeOK
  /\ part = "memory" => Mem!TypeOK
  /\ part = "console" => Con!TypeOK
  /\ part = "mouse" => Mou!TypeOK
  /\ part = "floppy" => Flo!TypeOK
  /\ part = "fonts" => Fon!TypeOK
  /\ part = "sram" => Ram!TypeOK
  /\ part = "calendar" => Cal!TypeOK

(* The parts' properties, stated in their modules.                         *)
CallsBalance == Sup!CallsBalance
JsrReturns == Sup!JsrReturns
LoadsSeeStores == part = "memory" => Mem!LoadsSeeStores
UserKeepsOut == Mem!UserKeepsOut
ScreenShowsLines == part = "console" => Con!ScreenShowsLines
MotionAddsUp == part = "mouse" => Mou!MotionAddsUp
ReadsRecords == part = "floppy" => Flo!ReadsRecords
GlyphsAgree == part = "fonts" => Fon!GlyphsAgree
SettingsReady == part = "sram" => Ram!SettingsReady
DatesAgree == part = "calendar" => Cal!DatesAgree

MCLengths  == {0, 8, 24}
MCPointers == {16 * i : i \in 2 .. 8}

(* Around the end of the memory that an area set of 0 protects; a word     *)
(* of each device, some at odd addresses or where there is none.           *)
MCMainWords == {\h1ffe, \h2000}
MCPorts ==
  {\he86001, \he86000, \he94001, \he88001, \hff0000, \h1ffc, \h3002000, \hea0000, \he90003}
MCValues == {<<252>>, <<0, 252>>, <<252, 0, 0, 252>>}
MCLimits == {<<0, 3>>, <<1, 2>>, <<2, 1>>}

(* Both sides of every boundary of the conversion and of the ROM.          *)
MCLeads ==
  {0, \h20, \h21, \h28, \h29, \h30, \h74, \h7f, \h80, \h81, \h84, \h88, \h89, \h9f, \ha0,
   \he0, \hea, \heb, \hef, \hf0}
MCTrails == {0, \h3f, \h40, \h41, \h7e, \h7f, \h80, \h9d, \h9e, \h9f, \hfc, \hff}
=============================================================================
