---------------------------------- MODULE Sram ----------------------------------
(***************************************************************************)
(* The static RAM (libvx68k/sram.cc): the file "sram" that every process   *)
(* of the emulator in a directory maps and shares, with the settings that  *)
(* its constructor puts there where it finds none.  Processes stop at any  *)
(* point and start again; the file remains.                                *)
(***************************************************************************)
EXTENDS Integers

CONSTANT Process

VARIABLES
  length,      \* the file: "none", "part", or "whole" (16K)
  memsize,     \* the long word at 8, in megabytes
  bootdev,     \* the byte at 0x1d
  room,        \* the host has room for the whole file
  at,          \* where each process is in the constructor
  given        \* the settings of the file that the user brought

svars == <<length, memsize, bootdev, room, at, given>>

DefaultSize == 4
DefaultDevice == 16

(* Files of the user's: none, one cut off anywhere, a whole one.           *)
Init ==
  /\ length \in {"none", "part", "whole"}
  /\ memsize \in (IF length = "none" THEN {0} ELSE {0, 2, 12})
  /\ bootdev \in (IF length = "none" THEN {0} ELSE {0, 128})
  /\ room \in BOOLEAN
  /\ at = [p \in Process |-> "off"]
  /\ given = [memsize |-> memsize, bootdev |-> bootdev]

Goes(p, here, there) == at[p] = here /\ at' = [at EXCEPT ![p] = there]
-----------------------------------------------------------------------------
(* open and lseek.  A file that the host does not let it open is mapped    *)
(* nevertheless: the process faults at its first look.                     *)
Open(p) ==
  /\ \/ length = "whole" /\ Goes(p, "off", "sized")
     \/ length # "whole" /\ Goes(p, "off", "short")
     \/ Goes(p, "off", "fault")
  /\ UNCHANGED <<length, memsize, bootdev, room, given>>

(* Wrong: a file that is cut off is begun anew.                            *)
ExtendAnew(p) ==
  /\ Goes(p, "short", "sized")
  /\ length' = "whole" /\ memsize' = 0 /\ bootdev' = 0
  /\ UNCHANGED <<room, given>>

(* The byte at the end makes the file whole, with zeros in the hole.  That *)
(* the host has no room for it is not noticed: an empty file has no memory *)
(* behind its map, which is a fault, a part has it for the settings.       *)
Extend(p) ==
  /\ \/ room /\ Goes(p, "short", "sized") /\ length' = "whole"
     \/ ~room /\ Goes(p, "short", IF length = "none" THEN "fault" ELSE "sized") /\ UNCHANGED length
  /\ UNCHANGED <<memsize, bootdev, room, given>>

SetSize(p) ==
  /\ Goes(p, "sized", "device")
  /\ memsize' = IF memsize = 0 THEN DefaultSize ELSE memsize
  /\ UNCHANGED <<length, bootdev, room, given>>

SetDevice(p) ==
  /\ Goes(p, "device", "ready")
  /\ bootdev' = IF bootdev = 0 THEN DefaultDevice ELSE bootdev
  /\ UNCHANGED <<length, memsize, room, given>>

(* get_8 and get_16 read through the map.                                  *)
Get(p) == at[p] = "ready" /\ UNCHANGED svars

(* put_8 and put_16 do nothing: what a program writes is not kept.         *)
Put(p) == at[p] = "ready" /\ UNCHANGED svars

(* The process ends, in the constructor or later.                          *)
Stop(p) ==
  /\ at[p] # "off" /\ at' = [at EXCEPT ![p] = "off"]
  /\ UNCHANGED <<length, memsize, bootdev, room, given>>

Next ==
  \E p \in Process :
    Open(p) \/ Extend(p) \/ SetSize(p) \/ SetDevice(p) \/ Get(p) \/ Put(p) \/ Stop(p)

Spec == Init /\ [][Next]_svars
-----------------------------------------------------------------------------
(* Settings are of their kinds.                                            *)
TypeOK ==
  /\ length \in {"none", "part", "whole"} /\ memsize \in {0, 2, DefaultSize, 12}
  /\ bootdev \in {0, DefaultDevice, 128}
  /\ at \in [Process -> {"off", "short", "sized", "device", "ready", "fault"}]

(* However processes stopped in the middle of it and whichever others run  *)
(* beside it, a process that has passed the constructor finds both         *)
(* settings set and, if the host had room, the whole file behind its map;  *)
(* and settings that the user made are never replaced.                     *)
SettingsReady ==
  /\ \A p \in Process :
       at[p] = "ready" => memsize # 0 /\ bootdev # 0 /\ (room => length = "whole")
  /\ given.memsize # 0 => memsize = given.memsize
  /\ given.bootdev # 0 => bootdev = given.bootdev
=============================================================================
