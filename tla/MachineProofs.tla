----------------------------- MODULE MachineProofs -----------------------------
(***************************************************************************)
(* Safety of the machine's parts in MCMachine, for every value of the      *)
(* constants: the settings of the static RAM, with any number of           *)
(* processes, the motion that a program adds up, the memory that a program *)
(* in user state cannot change, loads that see what stores wrote, the text *)
(* that the screen shows, dates and times in their forms, the glyphs of    *)
(* characters, the records that a read brings, and calls between a program *)
(* and the ROM, which lead back with the stacks they were made with; and   *)
(* the types of all parts, the DOS heap's among them.                      *)
(***************************************************************************)
EXTENDS MCMachine, DosHeapProofs, FiniteSetTheorems, TLAPS

-----------------------------------------------------------------------------
(* The static RAM.                                                         *)

(* What SettingsReady needs: the constructor's steps come in their order,  *)
(* and no process takes back what another has set or made whole.           *)
SettingsGrow ==
  /\ at \in [Process -> {"off", "short", "sized", "device", "ready", "fault"}]
  /\ length \in {"none", "part", "whole"}
  /\ \A p \in Process :
       /\ at[p] \in {"sized", "device", "ready"} => (room => length = "whole")
       /\ at[p] \in {"device", "ready"} => memsize # 0
       /\ at[p] = "ready" => bootdev # 0
  /\ given.memsize # 0 => memsize = given.memsize
  /\ given.bootdev # 0 => bootdev = given.bootdev

LEMMA InitSettingsGrow == Ram!Init => SettingsGrow
<1> SUFFICES ASSUME Ram!Init PROVE SettingsGrow
  OBVIOUS
<1>1. /\ at = [p \in Process |-> "off"] /\ length \in {"none", "part", "whole"}
      /\ given = [memsize |-> memsize, bootdev |-> bootdev]
  BY DEF Ram!Init
<1>2. given.memsize = memsize /\ given.bootdev = bootdev
  BY <1>1
<1>3. QED BY <1>1, <1>2 DEF SettingsGrow

LEMMA StepSettingsGrow ==
  ASSUME SettingsGrow, Ram!Next
  PROVE  SettingsGrow'
<1> USE DEF SettingsGrow
<1>1. PICK p \in Process :
        \/ Ram!Open(p) \/ Ram!Extend(p) \/ Ram!SetSize(p) \/ Ram!SetDevice(p)
        \/ Ram!Get(p) \/ Ram!Put(p) \/ Ram!Stop(p)
  BY DEF Ram!Next
<1>2. CASE Ram!Open(p)
  BY <1>2 DEF Ram!Open, Ram!Goes
<1>3. CASE Ram!Extend(p)
  BY <1>3 DEF Ram!Extend, Ram!Goes
<1>4. CASE Ram!SetSize(p)
  BY <1>4 DEF Ram!SetSize, Ram!Goes, Ram!DefaultSize
<1>5. CASE Ram!SetDevice(p)
  BY <1>5 DEF Ram!SetDevice, Ram!Goes, Ram!DefaultDevice
<1>6. CASE Ram!Get(p) \/ Ram!Put(p)
  BY <1>6 DEF Ram!Get, Ram!Put, Ram!svars
<1>7. CASE Ram!Stop(p)
  BY <1>7 DEF Ram!Stop
<1>8. QED BY <1>1, <1>2, <1>3, <1>4, <1>5, <1>6, <1>7
-----------------------------------------------------------------------------
(* Another part's step, or none, leaves a part's variables alone.          *)
LEMMA OthersLeaveAlone ==
  ASSUME [MachineNext]_machineVars
  PROVE  /\ UNCHANGED part
         /\ part = "sram" => Ram!Next \/ UNCHANGED ramv
         /\ part = "mouse" => Mou!Next \/ UNCHANGED mouv
         /\ part = "console" => Con!Next \/ UNCHANGED conv
         /\ part = "floppy" => Flo!Next \/ UNCHANGED flov
         /\ part = "fonts" => Fon!Next \/ UNCHANGED fonv
         /\ part = "calendar" => Cal!Next \/ UNCHANGED calv
         /\ part = "supervisor" => Sup!Next \/ UNCHANGED supv
         /\ (part = "heap" /\ Next) \/ UNCHANGED vars
         /\ (part = "memory" /\ Mem!Next) \/ UNCHANGED memv
         /\ (part = "supervisor" /\ Sup!Next) \/ UNCHANGED supv
BY DEF MachineNext, machineVars

(* However processes stop in the constructor of sram, start again and run  *)
(* beside each other, a process that has passed it finds both settings     *)
(* set, and the user's own settings stay.                                  *)
THEOREM SettingsStay == MachineSpec => []SettingsReady
<1> DEFINE I == part = "sram" => SettingsGrow
<1>1. MachineInit => I
  BY InitSettingsGrow DEF MachineInit
<1>2. I /\ [MachineNext]_machineVars => I'
  <2>1. ASSUME I, [MachineNext]_machineVars, part = "sram"
        PROVE  SettingsGrow'
    <3>1. CASE Ram!Next
      BY <2>1, <3>1, StepSettingsGrow
    <3>2. CASE UNCHANGED ramv
      BY <2>1, <3>2 DEF ramv, SettingsGrow
    <3>3. QED BY <2>1, <3>1, <3>2, OthersLeaveAlone
  <2>2. QED BY <2>1, OthersLeaveAlone
<1>3. I => SettingsReady
  BY DEF SettingsReady, Ram!SettingsReady, SettingsGrow
<1>4. QED BY <1>1, <1>2, <1>3, PTL DEF MachineSpec
-----------------------------------------------------------------------------
(* The mouse.                                                              *)

(* The sum that a program keeps, and numbers to add.                       *)
MotionInv ==
  /\ pos \in Int /\ old \in Int /\ motion \in Int /\ seen \in Int /\ start \in Int
  /\ bounds[1] \in Int /\ bounds[2] \in Int
  /\ Mou!MotionAddsUp

LEMMA InitMotion == Mou!Init => MotionInv
BY MachineAssumption DEF Mou!Init, Mou!MouseAssumption, MotionInv, Mou!MotionAddsUp

LEMMA StepMotion ==
  ASSUME MotionInv, Mou!Next
  PROVE  MotionInv'
<1> USE DEF MotionInv, Mou!MotionAddsUp
<1>1. Mou!MouseAssumption
  BY MachineAssumption
<1>2. CASE Mou!MotionEvent
  BY <1>2 DEF Mou!MotionEvent
<1>3. CASE Mou!ButtonEvent
  BY <1>3 DEF Mou!ButtonEvent
<1>4. CASE Mou!TrackMouse
  BY <1>4 DEF Mou!TrackMouse, Mou!Account
<1>5. CASE Mou!GetLeft \/ Mou!GetRight
  BY <1>5 DEF Mou!GetLeft, Mou!GetRight
<1>6. CASE Mou!GetMotion
  BY <1>1, <1>6 DEF Mou!GetMotion, Mou!Clamp, Mou!MouseAssumption
<1>7. CASE Mou!Begin
  BY <1>7 DEF Mou!Begin
<1>8. CASE Mou!MsInit
  BY <1>1, <1>8 DEF Mou!MsInit, Mou!MouseAssumption
<1>9. CASE Mou!MsLimit
  BY <1>1, <1>9 DEF Mou!MsLimit, Mou!MouseAssumption
<1>10. CASE Mou!MsCurgt \/ Mou!MsCursor \/ Mou!MsStat \/ Mou!Set232c
  BY <1>10 DEF Mou!MsCurgt, Mou!MsCursor, Mou!MsStat, Mou!Set232c, Mou!NoChange, Mou!mvars
<1>11. QED
  BY <1>2, <1>3, <1>4, <1>5, <1>6, <1>7, <1>8, <1>9, <1>10 DEF Mou!Next

(* A program that asks once between ticks has got the whole way, whatever  *)
(* events, bounds and ticks come between or in the midst of its calls.     *)
THEOREM MotionIsWhole == MachineSpec => []MotionAddsUp
<1> DEFINE I == part = "mouse" => MotionInv
<1>1. MachineInit => I
  BY InitMotion DEF MachineInit
<1>2. I /\ [MachineNext]_machineVars => I'
  <2>1. ASSUME I, [MachineNext]_machineVars, part = "mouse"
        PROVE  MotionInv'
    <3>1. CASE Mou!Next
      BY <2>1, <3>1, StepMotion
    <3>2. CASE UNCHANGED mouv
      BY <2>1, <3>2 DEF mouv, MotionInv, Mou!MotionAddsUp
    <3>3. QED BY <2>1, <3>1, <3>2, OthersLeaveAlone
  <2>2. QED BY <2>1, OthersLeaveAlone
<1>3. I => MotionAddsUp
  BY DEF MotionAddsUp, MotionInv
<1>4. QED BY <1>1, <1>2, <1>3, PTL DEF MachineSpec
-----------------------------------------------------------------------------
(* Memory.                                                                 *)

Byte == Mem!Byte

(* Words are pairs of bytes, and the protected part of memory ends at an   *)
(* even address.                                                           *)
MemTyped ==
  /\ content \in [MainWords -> [1..2 -> Byte]]
  /\ protected \in Nat /\ protected % 2 = 0

(* The words of memory that are kept are at even addresses, and a datum is *)
(* one, two or four bytes.                                                 *)
LEMMA MemoryBounds == Mem!PlaceAssumption
BY MachineAssumption, Zenon DEF Mem!AddressAssumption

LEMMA PlacesAreNumbers == \A a \in Mem!Places : a \in Nat /\ a % Mem!Space \in Nat /\ a % Mem!Space < Mem!Space
<1>1. Ports \subseteq Nat
  BY MachineAssumption, Zenon DEF Mem!AddressAssumption, Mem!DataAssumption
<1>2. \A w \in MainWords \cup {TextWord, ColorWord} : w \in Nat /\ w + 1 \in Nat
  BY MemoryBounds, SMT DEF Mem!PlaceAssumption
<1>3. ASSUME NEW a \in Mem!Places PROVE a \in Nat
  <2>1. \/ a \in Ports
        \/ \E w \in MainWords \cup {TextWord, ColorWord} : a = w \/ a = w + 1
    BY <1>3, Zenon DEF Mem!Places
  <2>2. QED BY <1>1, <1>2, <2>1, Zenon
<1>4. ASSUME NEW a \in Nat PROVE a % Mem!Space \in Nat /\ a % Mem!Space < Mem!Space
  BY SMT DEF Mem!Space
<1>5. QED BY <1>3, <1>4

LEMMA DataShape ==
  ASSUME NEW d, NEW data \in Mem!Data(d)
  PROVE  /\ data \in Seq(Byte) /\ Len(data) \in {1, 2, 4}
         /\ DOMAIN data = 1..Len(data) /\ \A k \in 1..Len(data) : data[k] \in Byte
<1>0. /\ Values \subseteq Seq(Byte) /\ \A v \in Values : Len(v) \in {1, 2, 4}
      /\ Areas \subseteq Byte
  BY MachineAssumption, Zenon DEF Mem!AddressAssumption, Mem!DataAssumption, Byte
<1>1. data \in Seq(Byte) /\ Len(data) \in {1, 2, 4}
  <2>1. CASE d = "area_set"
    <3>1. PICK v \in Areas : data = <<v>> \/ data = <<0, v>>
      BY <2>1 DEF Mem!Data
    <3>2. v \in Byte /\ 0 \in Byte
      BY <1>0, <3>1 DEF Byte, Mem!Byte
    <3>3. CASE data = <<v>>
      <4>1. <<v>> \in Seq(Byte) /\ Len(<<v>>) = 1
        BY <3>2
      <4>2. QED BY <3>3, <4>1
    <3>4. CASE data = <<0, v>>
      <4>1. <<0, v>> \in Seq(Byte) /\ Len(<<0, v>>) = 2
        BY <3>2
      <4>2. QED BY <3>4, <4>1
    <3>5. QED BY <3>1, <3>3, <3>4
  <2>2. CASE d # "area_set"
    BY <1>0, <2>2 DEF Mem!Data
  <2>3. QED BY <2>1, <2>2
<1>2. QED BY <1>1

(* Long words are stored to main memory only.                              *)
LEMMA DataSize ==
  ASSUME NEW d, d # "main", NEW data \in Mem!Data(d)
  PROVE  Len(data) \in {1, 2}
<1>1. CASE d = "area_set"
  <2>1. PICK v \in Areas : data = <<v>> \/ data = <<0, v>>
    BY <1>1 DEF Mem!Data
  <2>2. Len(<<v>>) = 1 /\ Len(<<0, v>>) = 2
    OBVIOUS
  <2>3. QED BY <2>1, <2>2, Zenon
<1>2. CASE d # "area_set"
  BY <1>2, DataShape DEF Mem!Data
<1>3. QED BY <1>1, <1>2

(* One store: of data, at a, by an access of kind fc.                      *)
Stores(a, data, fc) ==
  LET d == Mem!Device(a)
      i == a % Mem!Space
      ok == ~Mem!Refused(a, Len(data), fc)
  IN /\ a % Len(data) = 0 /\ got = <<>> /\ UNCHANGED <<fdc, mfp, got>>
     /\ IF ok /\ d = "main" THEN Mem!MainStore(i, data) ELSE UNCHANGED content
     /\ IF ok /\ d = "text" THEN Mem!TextStore(i, data) ELSE UNCHANGED text
     /\ IF ok /\ d = "palettes" THEN Mem!PalettesStore(i, data) ELSE UNCHANGED color
     /\ IF ok /\ d = "area_set" THEN Mem!AreaStore(data) ELSE UNCHANGED protected
     /\ user' = (fc # Mem!SUPER_DATA)
     /\ stored' = [b \in DOMAIN stored |->
                     IF ok /\ b - i + 1 \in DOMAIN data THEN data[b - i + 1] ELSE stored[b]]

(* What a store does to a word.                                            *)
LEMMA WordAfterStore ==
  ASSUME MemTyped, NEW a \in Nat, NEW d, NEW data \in Mem!Data(d), Mem!MainStore(a, data)
  PROVE  /\ content' \in [MainWords -> [1..2 -> Byte]]
         /\ \A w \in MainWords, k \in 1..2 :
              content'[w][k] = IF w + k - a \in 1..Len(data) THEN data[w + k - a] ELSE content[w][k]
<1>1. DOMAIN content = MainWords
  BY DEF MemTyped
<1>2. content' = [w \in MainWords |-> [k \in 1..2 |->
                    IF w + k - a \in 1..Len(data) THEN data[w + k - a] ELSE content[w][k]]]
  BY <1>1, DataShape DEF Mem!MainStore
<1>3. ASSUME NEW w \in MainWords, NEW k \in 1..2
      PROVE  (IF w + k - a \in 1..Len(data) THEN data[w + k - a] ELSE content[w][k]) \in Byte
  BY DataShape DEF MemTyped
<1>4. content' \in [MainWords -> [1..2 -> Byte]]
  BY <1>2, <1>3
<1>5. QED BY <1>2, <1>4

LEMMA InitMemory == Mem!Init => MemTyped
<1> SUFFICES ASSUME Mem!Init PROVE MemTyped
  OBVIOUS
<1>1. Mem!Word(\h4afc) = <<74, 252>>
  BY DEF Mem!Word
<1>2. <<74, 252>> \in [1..2 -> Byte]
  BY DEF Byte, Mem!Byte
<1>3. QED BY <1>1, <1>2 DEF Mem!Init, MemTyped

LEMMA StepMemory ==
  ASSUME MemTyped, Mem!Next
  PROVE  MemTyped'
<1>1. CASE Mem!Store
  <2>1. PICK a \in Mem!Places :
          \E data \in Mem!Data(Mem!Device(a)), fc \in Mem!Codes : Stores(a, data, fc)
    BY <1>1, Zenon DEF Mem!Store, Stores
  <2>2. PICK data \in Mem!Data(Mem!Device(a)), fc \in Mem!Codes : Stores(a, data, fc)
    BY <2>1
  <2>3. content' \in [MainWords -> [1..2 -> Byte]]
    BY <2>2, WordAfterStore, PlacesAreNumbers DEF MemTyped, Stores
  <2>4. protected' \in Nat /\ protected' % 2 = 0
    <3>1. Len(data) \in {1, 2, 4} /\ \A k \in 1..Len(data) : data[k] \in Byte
      BY <2>2, DataShape
    <3>2. Len(data) \in 1..Len(data)
      BY <3>1
    <3>3. data[Len(data)] \in 0..255
      BY <3>1, <3>2, Zenon DEF Byte, Mem!Byte
    <3>4. CASE UNCHANGED protected
      BY <3>4 DEF MemTyped
    <3>5. CASE Mem!AreaStore(data)
      <4>1. PICK v \in 0..255 : v = data[Len(data)]
        BY <3>3
      <4>2. protected' = (v + 1) * \h2000
        BY <3>5, <4>1 DEF Mem!AreaStore
      <4>3. QED BY <4>2
    <3>6. QED BY <2>2, <3>4, <3>5, Zenon DEF Stores
  <2>5. QED BY <2>3, <2>4 DEF MemTyped
<1>2. CASE Mem!Read \/ Mem!GoOn
  BY <1>2 DEF Mem!Read, Mem!GoOn, MemTyped
<1>3. QED BY <1>1, <1>2 DEF Mem!Next

(* The ends of main memory, at most, and of the text VRAM.                 *)
MainEnd == \hc00000
TextFirst == \he00000
TextEnd == \he80000

(* Where the devices are that the proofs are about.                        *)
LEMMA DeviceAt ==
  ASSUME NEW a \in Nat
  PROVE  LET i == a % Mem!Space
             d == Mem!Device(a)
         IN /\ d = "main" <=> i < MemSize
            /\ d = "text" <=> TextFirst <= i /\ i < TextEnd
            /\ d \notin {"main", "text", "none"} =>
                 MainEnd <= i /\ (i < TextFirst \/ TextEnd <= i)
<1> DEFINE i == a % Mem!Space
           d == Mem!Device(a)
           Here(r) == r[2] <= i /\ i < r[3]
<1>1. i \in Nat /\ MemSize \in Nat /\ MemSize <= MainEnd
  BY MemoryBounds, SMT DEF Mem!Space, Mem!PlaceAssumption, MainEnd
<1> HIDE DEF i
<1>2. \/ d = "none" /\ \A r \in Mem!Map : ~Here(r)
      \/ \E r \in Mem!Map : Here(r) /\ d = r[1]
  <2> DEFINE here == {r \in Mem!Map : Here(r)}
  <2>1. d = IF here = {} THEN "none" ELSE (CHOOSE r \in here : TRUE)[1]
    BY Zenon DEF Mem!Device, i
  <2>2. CASE here = {}
    BY <2>1, <2>2, Zenon
  <2>3. CASE here # {}
    <3>1. (CHOOSE r \in here : TRUE) \in here
      BY <2>3, Zenon
    <3>2. QED BY <2>1, <2>3, <3>1, Zenon
  <2>4. QED BY <2>2, <2>3, Zenon
<1>3. <<"main", 0, MemSize>> \in Mem!Map /\ <<"text", TextFirst, TextEnd>> \in Mem!Map
  BY SMT DEF Mem!Map, MainEnd, TextFirst, TextEnd
<1>4. CASE d = "none" /\ \A r \in Mem!Map : ~Here(r)
  BY <1>1, <1>3, <1>4, SMT DEF i, MainEnd, TextFirst, TextEnd
<1>5. CASE \E r \in Mem!Map : Here(r) /\ d = r[1]
  <2>1. PICK r \in Mem!Map : Here(r) /\ d = r[1]
    BY <1>5
  <2>2. /\ r[1] = "main" <=> i < MemSize
        /\ r[1] = "text" <=> TextFirst <= i /\ i < TextEnd
        /\ r[1] \notin {"main", "text", "none"} =>
             MainEnd <= i /\ (i < TextFirst \/ TextEnd <= i)
    BY <1>1, <2>1, SMT DEF Mem!Map, MainEnd, TextFirst, TextEnd
  <2>3. QED BY <2>1, <2>2, Zenon DEF i
<1>6. QED BY <1>2, <1>4, <1>5, Zenon

(* A program in user state changes neither the protected part of memory    *)
(* nor its limit, the text VRAM or the palettes, by no store of any size   *)
(* through any address.                                                    *)
THEOREM UserIsKeptOut == MachineSpec => UserKeepsOut
<1> DEFINE I == part = "memory" => MemTyped
           KeepsOut == /\ \A w \in MainWords : w < protected => content'[w] = content[w]
                       /\ UNCHANGED <<protected, text, color>>
<1>1. MachineInit => I
  BY InitMemory DEF MachineInit
<1>2. I /\ [MachineNext]_machineVars => I'
  <2>1. ASSUME I, [MachineNext]_machineVars, part = "memory"
        PROVE  MemTyped'
    <3>1. CASE Mem!Next
      BY <2>1, <3>1, StepMemory
    <3>2. CASE UNCHANGED memv
      BY <2>1, <3>2 DEF memv, MemTyped
    <3>3. QED BY <2>1, <3>1, <3>2, OthersLeaveAlone
  <2>2. QED BY <2>1, OthersLeaveAlone
<1>3. ASSUME MemTyped, Mem!Next
      PROVE  user' => KeepsOut
  <2>1. CASE Mem!Store
    <3>0. PICK a \in Mem!Places :
            \E data \in Mem!Data(Mem!Device(a)), fc \in Mem!Codes : Stores(a, data, fc)
      BY <2>1, Zenon DEF Mem!Store, Stores
    <3>1. PICK data \in Mem!Data(Mem!Device(a)), fc \in Mem!Codes : Stores(a, data, fc)
      BY <3>0
    <3> USE DEF Stores
    <3> DEFINE i == a % Mem!Space
    <3>2. SUFFICES ASSUME fc # Mem!SUPER_DATA
                   PROVE  KeepsOut
      BY <3>1, Zenon
    <3>3. UNCHANGED <<protected, text, color>>
      BY <3>1, <3>2, Zenon DEF Mem!Refused, Mem!AreaRefuses
    <3>4. i \in Nat
      BY PlacesAreNumbers
    <3>5. \/ UNCHANGED content
          \/ Mem!MainStore(i, data) /\ ~(i < protected)
      BY <3>1, <3>2, Zenon DEF Mem!Refused, Mem!MainRefuses
    <3>6. ASSUME Mem!MainStore(i, data), ~(i < protected), NEW w \in MainWords, w < protected
          PROVE  content'[w] = content[w]
      <4>1. w \in Nat /\ w % 2 = 0 /\ protected \in Nat /\ protected % 2 = 0
        BY <1>3, MemoryBounds, SMT DEF MemTyped, Mem!PlaceAssumption
      <4>2. \A k \in 1..2 : content'[w][k] = content[w][k]
        <5> HIDE DEF i
        <5>1. \A k \in 1..2 : w + k - i \notin 1..Len(data)
          BY <3>4, <3>6, <4>1
        <5>2. QED BY <1>3, <3>4, <3>6, <5>1, WordAfterStore
      <4>3. content[w] \in [1..2 -> Byte] /\ content'[w] \in [1..2 -> Byte]
        BY <1>3, <3>4, <3>6, WordAfterStore DEF MemTyped
      <4>4. QED BY <4>2, <4>3
    <3>7. QED BY <3>3, <3>5, <3>6, Zenon
  <2>2. CASE Mem!Read \/ Mem!GoOn
    BY <2>2 DEF Mem!Read, Mem!GoOn
  <2>3. QED BY <1>3, <2>1, <2>2 DEF Mem!Next
<1>4. I /\ [MachineNext]_machineVars => [user' => KeepsOut]_(Mem!avars)
  <2>1. ASSUME I, [MachineNext]_machineVars
        PROVE  [user' => KeepsOut]_(Mem!avars)
    <3>1. CASE part = "memory" /\ Mem!Next
      BY <1>3, <2>1, <3>1
    <3>2. CASE UNCHANGED memv
      BY <3>2 DEF memv, Mem!avars
    <3>3. QED BY <2>1, <3>1, <3>2, OthersLeaveAlone
  <2>2. QED BY <2>1
<1>5. QED BY <1>1, <1>2, <1>4, PTL DEF MachineSpec, UserKeepsOut, Mem!UserKeepsOut
-----------------------------------------------------------------------------
(* What was stored is where it was stored: in a word of main memory, or in *)
(* the text VRAM.                                                          *)
Kept == UNION {{w, w + 1} : w \in MainWords \cup {TextWord}}

Shadow ==
  /\ MemTyped
  /\ DOMAIN stored = Kept /\ DOMAIN text = {TextWord, TextWord + 1}
  /\ \A w \in MainWords, k \in 1..2 : content[w][k] = stored[w + k - 1]
  /\ \A b \in {TextWord, TextWord + 1} : text[b] = stored[b]

(* The addresses of bytes that are kept.                                   *)
LEMMA KeptBytes ==
  /\ \A w \in MainWords : w \in Kept /\ w + 1 \in Kept
  /\ TextWord \in Kept /\ TextWord + 1 \in Kept
  /\ \A b \in Kept : \/ \E w \in MainWords : b = w \/ b = w + 1
                     \/ b = TextWord \/ b = TextWord + 1
<1>1. ASSUME NEW w \in MainWords \cup {TextWord}
      PROVE  w \in Kept /\ w + 1 \in Kept
  BY DEF Kept
<1>2. ASSUME NEW b \in Kept
      PROVE  \E w \in MainWords \cup {TextWord} : b = w \/ b = w + 1
  BY DEF Kept
<1>3. QED BY <1>1, <1>2, Zenon

LEMMA Addresses ==
  /\ \A w \in MainWords : w \in Nat /\ w % 2 = 0 /\ w + 1 < MemSize
  /\ TextWord \in Nat /\ TextWord % 2 = 0 /\ TextFirst <= TextWord /\ TextWord + 1 < TextEnd
  /\ MemSize \in Nat /\ MemSize <= MainEnd /\ MainEnd + 4 < TextFirst
  /\ MainEnd \in Nat /\ TextFirst \in Nat /\ TextEnd \in Nat
BY MemoryBounds, SMT DEF Mem!PlaceAssumption, MainEnd, TextFirst, TextEnd

LEMMA InitShadow == Mem!Init => Shadow
<1> SUFFICES ASSUME Mem!Init PROVE Shadow
  OBVIOUS
<1>1. /\ stored = [b \in Kept |-> IF b >= MemSize THEN 0 ELSE Mem!Word(\h4afc)[1 + (b % 2)]]
      /\ text = [b \in {TextWord, TextWord + 1} |-> 0]
      /\ content = [w \in MainWords |-> Mem!Word(\h4afc)]
  BY DEF Mem!Init, Kept
<1> DEFINE W == Mem!Word(\h4afc)
<1> HIDE DEF W
<1>2. ASSUME NEW w \in MainWords, NEW k \in 1..2
      PROVE  content[w][k] = stored[w + k - 1]
  <2>1. w + k - 1 \in Kept /\ ~(w + k - 1 >= MemSize) /\ 1 + ((w + k - 1) % 2) = k
    <3>1. CASE k = 1
      BY <3>1, KeptBytes, Addresses
    <3>2. CASE k = 2
      BY <3>2, KeptBytes, Addresses
    <3>3. QED BY <3>1, <3>2
  <2>2. stored[w + k - 1] = W[1 + ((w + k - 1) % 2)]
    BY <1>1, <2>1 DEF W
  <2>3. content[w][k] = W[k]
    BY <1>1 DEF W
  <2>4. QED BY <2>1, <2>2, <2>3
<1>3. ASSUME NEW b \in {TextWord, TextWord + 1}
      PROVE  text[b] = stored[b]
  <2>1. b \in Kept /\ b >= MemSize
    BY KeptBytes, Addresses
  <2>2. QED BY <1>1, <2>1
<1>4. QED BY <1>1, <1>2, <1>3, InitMemory DEF Shadow

LEMMA StoreShadow ==
  ASSUME Shadow, NEW a \in Mem!Places, NEW data \in Mem!Data(Mem!Device(a)),
         NEW fc \in Mem!Codes, Stores(a, data, fc), MemTyped'
  PROVE  Shadow'
<1> DEFINE d == Mem!Device(a)
           i == a % Mem!Space
           n == Len(data)
           ok == ~Mem!Refused(a, n, fc)
           Hit(b) == ok /\ b - i + 1 \in 1..n
<1>1. a \in Nat /\ i \in Nat /\ n \in {1, 2, 4} /\ DOMAIN data = 1..n
  BY PlacesAreNumbers, DataShape
<1>2. stored' = [b \in Kept |-> IF Hit(b) THEN data[b - i + 1] ELSE stored[b]]
  BY <1>1, Zenon DEF Stores, Shadow
<1>3. /\ d = "main" <=> i < MemSize
      /\ d = "text" <=> TextFirst <= i /\ i < TextEnd
      /\ d \notin {"main", "text", "none"} => MainEnd <= i /\ (i < TextFirst \/ TextEnd <= i)
  BY <1>1, DeviceAt, Zenon
<1>4. d = "none" => ~ok
  BY Zenon DEF Mem!Refused
<1>5. a % n = 0
  BY Zenon DEF Stores
<1>6. d # "main" => n \in {1, 2}
  BY <1>1, DataSize
<1>7. n = 2 => i % 2 = 0
  BY <1>1, <1>5, SMT DEF Mem!Space
<1>8. /\ IF ok /\ d = "main" THEN Mem!MainStore(i, data) ELSE UNCHANGED content
      /\ IF ok /\ d = "text" THEN Mem!TextStore(i, data) ELSE UNCHANGED text
  BY Zenon DEF Stores
<1> HIDE DEF d, i, n, ok
<1>9. ASSUME NEW w \in MainWords, NEW k \in 1..2
      PROVE  content'[w][k] = stored'[w + k - 1]
  <2>1. w + k - 1 \in Kept /\ w \in Nat /\ w + 1 < MemSize
    <3>1. CASE k = 1
      BY <3>1, KeptBytes, Addresses
    <3>2. CASE k = 2
      BY <3>2, KeptBytes, Addresses
    <3>3. QED BY <3>1, <3>2
  <2>2. content[w][k] = stored[w + k - 1]
    BY DEF Shadow
  <2>3. (w + k - 1) - i + 1 = w + k - i
    BY <1>1, <2>1
  <2>4. CASE ok /\ d = "main"
    <3>1. content'[w][k] = IF w + k - i \in 1..n THEN data[w + k - i] ELSE content[w][k]
      BY <1>1, <1>8, <2>4, WordAfterStore DEF Shadow, n, d
    <3>2. stored'[w + k - 1] = IF w + k - i \in 1..n THEN data[w + k - i] ELSE stored[w + k - 1]
      BY <1>2, <2>1, <2>3, <2>4
    <3>3. QED BY <2>2, <3>1, <3>2
  <2>5. CASE ~(ok /\ d = "main")
    <3>1. ~Hit(w + k - 1)
      BY <1>1, <1>3, <1>4, <2>1, <2>5, Addresses
    <3>2. QED BY <1>2, <1>8, <2>1, <2>2, <2>5, <3>1
  <2>6. QED BY <2>4, <2>5
<1>10. ASSUME NEW b \in {TextWord, TextWord + 1}
       PROVE  text'[b] = stored'[b]
  <2>1. b \in Kept /\ b \in Nat /\ TextFirst <= b /\ b < TextEnd
    BY KeptBytes, Addresses
  <2>2. text[b] = stored[b] /\ b \in DOMAIN text
    BY DEF Shadow
  <2>3. CASE ok /\ d = "text"
    <3>1. text'[b] = IF b - i + 1 \in 1..n THEN data[b - i + 1] ELSE text[b]
      BY <1>1, <1>8, <2>2, <2>3 DEF Mem!TextStore
    <3>2. QED BY <1>2, <2>1, <2>2, <2>3, <3>1
  <2>4. CASE ~(ok /\ d = "text")
    <3>1. ~Hit(b)
      <4>1. CASE i < MemSize
        BY <1>1, <2>1, <4>1, Addresses
      <4>2. CASE ok /\ MainEnd <= i /\ i < TextFirst
        <5>1. n = 1 \/ (n = 2 /\ i + 1 < TextFirst)
          BY <1>1, <1>3, <1>6, <1>7, <4>2, Addresses, SMT DEF TextFirst
        <5>2. QED BY <1>1, <2>1, <4>2, <5>1, Addresses
      <4>3. CASE TextEnd <= i
        BY <1>1, <2>1, <4>3, Addresses
      <4>4. QED BY <1>3, <1>4, <2>4, <4>1, <4>2, <4>3
    <3>2. QED BY <1>2, <1>8, <2>1, <2>2, <2>4, <3>1
  <2>5. QED BY <2>3, <2>4
<1>11. DOMAIN stored' = Kept /\ DOMAIN text' = {TextWord, TextWord + 1}
  <2>1. DOMAIN text' = DOMAIN text
    BY <1>8 DEF Mem!TextStore
  <2>2. QED BY <1>2, <2>1 DEF Shadow
<1>12. QED BY <1>9, <1>10, <1>11 DEF Shadow

(* A load of bytes that are kept gives what is stored there.               *)
LEMMA LoadShadow ==
  ASSUME Shadow, NEW a \in Mem!Places, NEW n \in {1, 2}, NEW fc \in Mem!Codes,
         a % n = 0, Mem!Kept(a), a % Mem!Space \in Kept,
         Mem!Load(a, n, fc) # Mem!BusError
  PROVE  \A j \in DOMAIN Mem!Load(a, n, fc) :
           Mem!Load(a, n, fc)[j] = stored[(a % Mem!Space) + j - 1]
<1> DEFINE d == Mem!Device(a)
           i == a % Mem!Space
<1>1. a \in Nat /\ i \in Nat /\ (n = 2 => i % 2 = 0)
  BY PlacesAreNumbers, SMT DEF Mem!Space
<1>2. /\ d = "main" <=> i < MemSize
      /\ d = "text" <=> TextFirst <= i /\ i < TextEnd
  BY <1>1, DeviceAt, Zenon
<1>3. /\ d = "main" => Mem!Load(a, n, fc) = Mem!MainLoad(i, n)
      /\ d = "text" => Mem!Load(a, n, fc) = Mem!TextLoad(i, n, fc)
      /\ d = "main" => Mem!Even(i) \in MainWords
  BY DEF Mem!Load, Mem!Kept
<1> HIDE DEF d, i
<1>4. CASE \E w \in MainWords : i = w \/ i = w + 1
  <2>1. d = "main" /\ i < MemSize
    BY <1>2, <1>4, Addresses
  <2>2. Mem!Load(a, n, fc) = [j \in 1..n |-> content[Mem!Even(i + j - 1)][1 + ((i + j - 1) % 2)]]
    BY <1>1, <1>3, <2>1 DEF Mem!MainLoad
  <2>3. ASSUME NEW j \in 1..n
        PROVE  content[Mem!Even(i + j - 1)][1 + ((i + j - 1) % 2)] = stored[i + j - 1]
    <3>1. Mem!Even(i + j - 1) = Mem!Even(i)
      BY <1>1 DEF Mem!Even
    <3>2. Mem!Even(i) \in MainWords /\ Mem!Even(i) \in Nat
      BY <1>3, <2>1, Addresses
    <3>3. 1 + ((i + j - 1) % 2) \in 1..2
      BY <1>1
    <3>4. content[Mem!Even(i)][1 + ((i + j - 1) % 2)]
            = stored[Mem!Even(i) + (1 + ((i + j - 1) % 2)) - 1]
      BY <3>2, <3>3 DEF Shadow
    <3>5. Mem!Even(i) + (1 + ((i + j - 1) % 2)) - 1 = i + j - 1
      BY <1>1, <3>1 DEF Mem!Even
    <3>6. QED BY <3>1, <3>4, <3>5
  <2>4. QED BY <2>2, <2>3 DEF i
<1>5. CASE i = TextWord \/ i = TextWord + 1
  <2>1. d = "text"
    BY <1>1, <1>2, <1>5, Addresses
  <2>2. Mem!Load(a, n, fc) = [j \in 1..n |-> text[i + j - 1]]
    BY <1>3, <2>1 DEF Mem!TextLoad
  <2>3. ASSUME NEW j \in 1..n
        PROVE  text[i + j - 1] = stored[i + j - 1]
    <3>1. i + j - 1 \in {TextWord, TextWord + 1}
      BY <1>1, <1>5, Addresses
    <3>2. QED BY <3>1 DEF Shadow
  <2>4. QED BY <2>2, <2>3 DEF i
<1>6. QED BY <1>4, <1>5, KeptBytes DEF i

(* What a program loads, as bytes or as words, from main memory or the     *)
(* text VRAM, is what was last stored there, as bytes, words or long       *)
(* words: whatever the sizes and addresses, no byte is another's.          *)
THEOREM MemoryIsMemory == MachineSpec => []LoadsSeeStores
<1> DEFINE I == part = "memory" => Shadow /\ Mem!LoadsSeeStores
<1>1. MachineInit => I
  <2>1. ASSUME Mem!Init PROVE Mem!LoadsSeeStores
    BY <2>1 DEF Mem!Init, Mem!LoadsSeeStores
  <2>2. QED BY <2>1, InitShadow DEF MachineInit
<1>2. I /\ [MachineNext]_machineVars => I'
  <2>1. ASSUME Shadow, Mem!LoadsSeeStores, Mem!Next
        PROVE  (Shadow /\ Mem!LoadsSeeStores)'
    <3>1. MemTyped'
      BY <2>1, StepMemory DEF Shadow
    <3>2. CASE Mem!Store
      <4>1. PICK a \in Mem!Places :
              \E data \in Mem!Data(Mem!Device(a)), fc \in Mem!Codes : Stores(a, data, fc)
        BY <3>2, Zenon DEF Mem!Store, Stores
      <4>2. PICK data \in Mem!Data(Mem!Device(a)), fc \in Mem!Codes : Stores(a, data, fc)
        BY <4>1
      <4>3. Shadow'
        BY <2>1, <3>1, <4>2, StoreShadow
      <4>4. got' = <<>>
        BY <4>2, Zenon DEF Stores
      <4>5. QED BY <4>3, <4>4 DEF Mem!LoadsSeeStores
    <3>3. CASE Mem!Read
      <4>1. PICK a \in Mem!Places, n \in {1, 2}, fc \in Mem!Codes :
              /\ a % n = 0 /\ Mem!Kept(a) /\ got' = <<a, Mem!Load(a, n, fc)>>
              /\ UNCHANGED <<content, protected, text, color, stored>>
        BY <3>3 DEF Mem!Read
      <4>2. Shadow'
        BY <2>1, <4>1 DEF Shadow, MemTyped
      <4>3. got'[1] = a /\ got'[2] = Mem!Load(a, n, fc)
        BY <4>1
      <4>4. DOMAIN stored' = Kept /\ stored' = stored
        BY <2>1, <4>1 DEF Shadow
      <4>5. ASSUME Mem!Load(a, n, fc) # Mem!BusError, a % Mem!Space \in Kept
            PROVE  \A j \in DOMAIN Mem!Load(a, n, fc) :
                     Mem!Load(a, n, fc)[j] = stored[(a % Mem!Space) + j - 1]
        BY <2>1, <4>1, <4>5, LoadShadow
      <4>6. Mem!LoadsSeeStores'
        BY <4>3, <4>4, <4>5, Zenon DEF Mem!LoadsSeeStores
      <4>7. QED BY <4>2, <4>6
    <3>4. CASE Mem!GoOn
      BY <2>1, <3>1, <3>4 DEF Mem!GoOn, Shadow, Mem!LoadsSeeStores
    <3>5. QED BY <2>1, <3>2, <3>3, <3>4 DEF Mem!Next
  <2>2. ASSUME Shadow, Mem!LoadsSeeStores, UNCHANGED memv
        PROVE  (Shadow /\ Mem!LoadsSeeStores)'
    BY <2>2 DEF memv, Shadow, MemTyped, Mem!LoadsSeeStores
  <2>3. QED BY <2>1, <2>2, OthersLeaveAlone
<1>3. I => LoadsSeeStores
  BY DEF LoadsSeeStores
<1>4. QED BY <1>1, <1>2, <1>3, PTL DEF MachineSpec
-----------------------------------------------------------------------------
(* The text console.                                                       *)
Chars == {"blank", "narrow", "left", "right"}
Line == [0 .. Stride - 1 -> Chars]

Away(l) == IF Len(l) > Rows THEN Len(l) - Rows ELSE 0

(* The screen s, with the cursor in row y, shows the end of the paper l.   *)
Shows(s, l, y) ==
  /\ \A v \in 0 .. Rows - 1, x \in 0 .. Columns - 1 :
       s[v][x] = IF v + 1 + Away(l) <= Len(l) THEN l[v + 1 + Away(l)][x] ELSE "blank"
  /\ y = Len(l) - 1 - Away(l)

Paper(s, l, y) ==
  /\ s \in [0 .. Rows - 1 -> Line] /\ l \in Seq(Line) /\ Len(l) >= 1
  /\ y \in 0 .. Rows - 1

(* Only a character beyond the end of a line parts screen and paper.       *)
ConsoleInv ==
  /\ Paper(screen, lines, cury) /\ curx \in 0 .. Stride
  /\ lost \in BOOLEAN
  /\ ~lost => Shows(screen, lines, cury)

LEMMA ConsoleSizes ==
  /\ Columns \in Nat \ {0} /\ Rows \in Nat \ {0} /\ TabSize \in Nat \ {0}
  /\ Stride \in Nat \ {0} /\ Stride > Columns + 1
BY MachineAssumption DEF Con!ConsoleAssumption

LEMMA BlankLine ==
  /\ Con!Blank \in Line
  /\ \A x : x \in 0 .. Stride - 1 => Con!Blank[x] = "blank"
BY DEF Con!Blank, Line, Chars

(* A new line on the paper is one more row, or a scroll.                   *)
LEMMA NewLine ==
  ASSUME NEW s, NEW l, NEW y, Paper(s, l, y)
  PROVE  LET d == Con!Down(s, y)
             m == Append(l, Con!Blank)
         IN /\ Paper(d.screen, m, d.y)
            /\ Shows(s, l, y) => Shows(d.screen, m, d.y)
<1> DEFINE d == Con!Down(s, y)
           m == Append(l, Con!Blank)
<1>1. /\ s \in [0 .. Rows - 1 -> Line] /\ l \in Seq(Line) /\ Len(l) \in Nat /\ Len(l) >= 1
      /\ y \in 0 .. Rows - 1 /\ Rows \in Nat /\ Rows >= 1
      /\ Columns \in Nat /\ Stride \in Nat /\ Columns < Stride
  BY ConsoleSizes DEF Paper
<1>2. /\ m \in Seq(Line) /\ Len(m) = Len(l) + 1 /\ m[Len(l) + 1] = Con!Blank
      /\ \A i \in 1 .. Len(l) : m[i] = l[i]
  BY <1>1, BlankLine
<1>3. CASE y + 1 = Rows
  <2>1. d.y = y /\ d.screen = [v \in 0 .. Rows - 1 |-> IF v = Rows - 1 THEN Con!Blank ELSE s[v + 1]]
    BY <1>1, <1>3 DEF Con!Down, Con!Scroll
  <2>2. d.screen \in [0 .. Rows - 1 -> Line]
    BY <1>1, <2>1, BlankLine
  <2>3. ASSUME Shows(s, l, y) PROVE Shows(d.screen, m, d.y)
    <3>1. Len(l) >= Rows /\ Away(l) = Len(l) - Rows /\ Away(m) = Len(l) + 1 - Rows
      BY <1>1, <1>2, <1>3, <2>3 DEF Shows, Away
    <3>2. ASSUME NEW v \in 0 .. Rows - 1, NEW x \in 0 .. Columns - 1
          PROVE  d.screen[v][x]
                   = IF v + 1 + Away(m) <= Len(m) THEN m[v + 1 + Away(m)][x] ELSE "blank"
      <4>1. v + 1 + Away(m) <= Len(m)
        BY <1>1, <1>2, <3>1
      <4>2. CASE v = Rows - 1
        <5>1. v + 1 + Away(m) = Len(l) + 1
          BY <1>1, <3>1, <4>2
        <5>2. d.screen[v] = Con!Blank
          BY <2>1, <4>2
        <5>3. QED BY <1>2, <4>1, <5>1, <5>2
      <4>3. CASE v # Rows - 1
        <5>1. v + 1 \in 0 .. Rows - 1
          BY <1>1, <4>3
        <5>2. s[v + 1][x] = l[v + 2 + Away(l)][x]
          BY <1>1, <2>3, <3>1, <5>1 DEF Shows
        <5>3. v + 2 + Away(l) \in 1 .. Len(l) /\ v + 2 + Away(l) = v + 1 + Away(m)
          BY <1>1, <3>1, <5>1
        <5>4. d.screen[v] = s[v + 1]
          BY <2>1, <4>3
        <5>5. QED BY <1>2, <4>1, <5>2, <5>3, <5>4
      <4>4. QED BY <4>2, <4>3
    <3>3. d.y = Len(m) - 1 - Away(m)
      BY <1>1, <1>2, <1>3, <2>1, <3>1
    <3>4. QED BY <3>2, <3>3 DEF Shows
  <2>4. QED BY <1>1, <1>2, <2>1, <2>2, <2>3 DEF Paper
<1>4. CASE y + 1 # Rows
  <2>1. d.y = y + 1 /\ d.screen = s
    BY <1>4 DEF Con!Down
  <2>2. ASSUME Shows(s, l, y) PROVE Shows(d.screen, m, d.y)
    <3>1. Len(l) < Rows /\ Away(l) = 0 /\ Away(m) = 0
      BY <1>1, <1>2, <1>4, <2>2 DEF Shows, Away
    <3>2. ASSUME NEW v \in 0 .. Rows - 1, NEW x \in 0 .. Columns - 1
          PROVE  s[v][x] = IF v + 1 + Away(m) <= Len(m) THEN m[v + 1 + Away(m)][x] ELSE "blank"
      <4>1. s[v][x] = IF v + 1 <= Len(l) THEN l[v + 1][x] ELSE "blank"
        BY <2>2, <3>1 DEF Shows
      <4>2. x \in 0 .. Stride - 1
        BY <1>1
      <4>3. CASE v + 1 = Len(l) + 1
        BY <1>1, <1>2, <3>1, <4>1, <4>2, <4>3, BlankLine
      <4>4. CASE v + 1 # Len(l) + 1
        BY <1>1, <1>2, <3>1, <4>1, <4>4
      <4>5. QED BY <4>3, <4>4
    <3>3. y + 1 = Len(m) - 1 - Away(m)
      BY <1>1, <1>2, <2>2, <3>1 DEF Shows
    <3>4. Shows(s, m, y + 1)
      BY <3>2, <3>3 DEF Shows
    <3>5. QED BY <2>1, <3>4
  <2>3. QED BY <1>1, <1>2, <1>4, <2>1, <2>2 DEF Paper
<1>5. QED BY <1>3, <1>4

LEMMA DrawnLine ==
  ASSUME NEW row \in Line, NEW x \in 0 .. Stride - 2, NEW char
  PROVE  Con!Draw(row, x, char) \in Line
BY ConsoleSizes DEF Con!Draw, Line, Chars

(* A character is drawn at the end of the paper and in the cursor's row.   *)
LEMMA SameCharacter ==
  ASSUME NEW s, NEW l, NEW y, Paper(s, l, y), NEW x \in 0 .. Stride - 2, NEW char
  PROVE  LET t == [s EXCEPT ![y] = Con!Draw(@, x, char)]
             m == [l EXCEPT ![Len(l)] = Con!Draw(@, x, char)]
         IN Paper(t, m, y) /\ (Shows(s, l, y) => Shows(t, m, y))
<1> DEFINE t == [s EXCEPT ![y] = Con!Draw(@, x, char)]
           m == [l EXCEPT ![Len(l)] = Con!Draw(@, x, char)]
<1>1. /\ s \in [0 .. Rows - 1 -> Line] /\ l \in Seq(Line) /\ Len(l) \in Nat /\ Len(l) >= 1
      /\ y \in 0 .. Rows - 1 /\ Rows \in Nat /\ Rows >= 1
      /\ Columns \in Nat /\ Stride \in Nat /\ Columns < Stride
  BY ConsoleSizes DEF Paper
<1>2. Con!Draw(s[y], x, char) \in Line /\ Con!Draw(l[Len(l)], x, char) \in Line
  BY <1>1, DrawnLine
<1>3. t \in [0 .. Rows - 1 -> Line] /\ m \in Seq(Line) /\ Len(m) = Len(l)
  BY <1>1, <1>2
<1>4. ASSUME Shows(s, l, y) PROVE Shows(t, m, y)
  <2>1. Away(m) = Away(l)
    BY <1>3 DEF Away
  <2>2. y + 1 + Away(l) = Len(l) /\ Away(l) \in Nat
    BY <1>1, <1>4 DEF Shows, Away
  <2>3. ASSUME NEW v \in 0 .. Rows - 1, NEW u \in 0 .. Columns - 1
        PROVE  t[v][u] = IF v + 1 + Away(l) <= Len(l) THEN m[v + 1 + Away(l)][u] ELSE "blank"
    <3>1. s[v][u] = IF v + 1 + Away(l) <= Len(l) THEN l[v + 1 + Away(l)][u] ELSE "blank"
      BY <1>4 DEF Shows
    <3>2. CASE v = y
      <4>1. s[y][u] = l[Len(l)][u]
        BY <1>1, <2>2, <3>1, <3>2
      <4>2. t[v] = Con!Draw(s[y], x, char) /\ m[Len(l)] = Con!Draw(l[Len(l)], x, char)
        BY <1>1, <3>2
      <4>3. s[y] \in Line /\ l[Len(l)] \in Line /\ u \in 0 .. Stride - 1
        BY <1>1
      <4>4. Con!Draw(s[y], x, char)[u] = Con!Draw(l[Len(l)], x, char)[u]
        BY <4>1, <4>3, ConsoleSizes DEF Con!Draw, Line
      <4>5. QED BY <1>1, <2>2, <3>2, <4>2, <4>4
    <3>3. CASE v # y
      <4>1. t[v] = s[v]
        BY <1>1, <3>3
      <4>2. v + 1 + Away(l) # Len(l) /\ v + 1 + Away(l) \in Nat \ {0}
        BY <1>1, <2>2, <3>3
      <4>3. v + 1 + Away(l) <= Len(l) => m[v + 1 + Away(l)] = l[v + 1 + Away(l)]
        BY <1>1, <4>2
      <4>4. QED BY <3>1, <4>1, <4>3
    <3>4. QED BY <3>2, <3>3
  <2>4. QED BY <1>3, <1>4, <2>1, <2>3 DEF Shows
<1>5. QED BY <1>1, <1>3, <1>4 DEF Paper

LEMMA InitConsole == Con!Init => ConsoleInv
<1> SUFFICES ASSUME Con!Init PROVE ConsoleInv
  OBVIOUS
<1>1. /\ screen = [y \in 0 .. Rows - 1 |-> Con!Blank] /\ curx = 0 /\ cury = 0
      /\ lines = <<Con!Blank>> /\ lost = FALSE
  BY DEF Con!Init
<1>2. Paper(screen, lines, cury)
  BY <1>1, ConsoleSizes, BlankLine DEF Paper
<1>3. Len(lines) = 1 /\ lines[1] = Con!Blank /\ Away(lines) = 0
  BY <1>1, ConsoleSizes, BlankLine DEF Away
<1>4. ASSUME NEW v \in 0 .. Rows - 1, NEW x \in 0 .. Columns - 1
      PROVE  screen[v][x] = "blank" /\ (v + 1 <= 1 => lines[v + 1][x] = "blank")
  BY <1>1, <1>3, ConsoleSizes, BlankLine
<1>5. Shows(screen, lines, cury)
  BY <1>1, <1>3, <1>4 DEF Shows
<1>6. curx \in 0 .. Stride /\ lost \in BOOLEAN
  <2>1. curx = 0 /\ lost = FALSE
    BY <1>1
  <2>2. curx \in 0 .. Stride
    BY <2>1, ConsoleSizes
  <2>3. QED BY <2>1, <2>2
<1>7. QED BY <1>2, <1>5, <1>6 DEF ConsoleInv

LEMMA StepControl ==
  ASSUME ConsoleInv, NEW code, Con!Control(code)
  PROVE  ConsoleInv'
<1>1. Paper(screen, lines, cury) /\ lost' = lost /\ curx' \in 0 .. Stride
  <2>1. curx \in Nat /\ TabSize \in Nat /\ TabSize > 0 /\ curx' <= Stride /\ Stride \in Nat
    BY ConsoleSizes DEF ConsoleInv, Con!Control
  <2>2. ((curx + TabSize) \div TabSize) * TabSize \in Nat
    BY <2>1
  <2>3. curx' \in Nat
    BY <2>1, <2>2 DEF Con!Control
  <2>4. QED BY <2>1, <2>3 DEF ConsoleInv, Con!Control
<1>2. CASE code = "LF"
  <2>1. LET d == Con!Down(screen, cury)
        IN screen' = d.screen /\ cury' = d.y /\ lines' = Append(lines, Con!Blank)
    BY <1>2 DEF Con!Control
  <2>2. Paper(screen', lines', cury') /\ (Shows(screen, lines, cury) => Shows(screen', lines', cury'))
    BY <1>1, <2>1, NewLine
  <2>3. QED BY <1>1, <2>2 DEF ConsoleInv, Paper, Shows, Away
<1>3. CASE code # "LF"
  <2>1. UNCHANGED <<screen, cury, lines>>
    BY <1>3 DEF Con!Control
  <2>2. QED BY <1>1, <2>1 DEF ConsoleInv, Paper, Shows, Away
<1>4. QED BY <1>2, <1>3

LEMMA StepCharacter ==
  ASSUME ConsoleInv, ~lost, NEW code, Con!Character(code)
  PROVE  ConsoleInv'
<1> DEFINE char == Con!Combined(code)
           wrap == Con!Fitted(curx, char) = Columns
           full == curx >= Columns \/ (char \in Con!Words /\ curx + 1 = Columns)
           x == IF wrap THEN 0 ELSE curx
           p == IF full THEN 0 ELSE curx
           d == IF wrap THEN Con!Down(screen, cury) ELSE [screen |-> screen, y |-> cury]
           l == IF full THEN Append(lines, Con!Blank) ELSE lines
<1>1. /\ Paper(screen, lines, cury) /\ curx \in 0 .. Stride /\ Shows(screen, lines, cury)
      /\ Columns \in Nat \ {0} /\ Stride \in Nat \ {0} /\ Stride > Columns + 1
  BY ConsoleSizes DEF ConsoleInv
<1>2. /\ x + 2 <= Stride /\ cury' = d.y /\ lost' = (curx > Columns)
      /\ screen' = IF char # "lead" THEN [d.screen EXCEPT ![d.y] = Con!Draw(@, x, char)]
                   ELSE d.screen
      /\ curx' = IF char # "lead" THEN x + Con!Width(char) ELSE x
      /\ lines' = IF char # "lead" THEN [l EXCEPT ![Len(l)] = Con!Draw(@, p, char)] ELSE l
  BY Zenon DEF Con!Character, Con!OnPaper
<1>3. x \in 0 .. Stride - 2 /\ p \in 0 .. Stride - 2 /\ curx' \in 0 .. Stride
  BY <1>1, <1>2 DEF Con!Width
<1>4. wrap => full
  BY <1>1 DEF Con!Fitted
<1>5. full /\ ~wrap => curx > Columns
  BY <1>1 DEF Con!Fitted
<1>6. Paper(Con!Down(screen, cury).screen, Append(lines, Con!Blank), Con!Down(screen, cury).y)
  BY <1>1, NewLine
<1>7. Paper(d.screen, lines, d.y) /\ Paper(d.screen, l, d.y)
  BY <1>1, <1>4, <1>6 DEF Paper
<1>8. curx <= Columns => x = p /\ Shows(d.screen, l, d.y)
  <2>1. CASE wrap
    <3>1. Shows(Con!Down(screen, cury).screen, Append(lines, Con!Blank), Con!Down(screen, cury).y)
      BY <1>1, NewLine
    <3>2. QED BY <1>4, <2>1, <3>1
  <2>2. CASE ~wrap
    BY <1>1, <1>5, <2>2
  <2>3. QED BY <2>1, <2>2
<1>9. Paper(screen', lines', cury') /\ (curx <= Columns => Shows(screen', lines', cury'))
  <2> HIDE DEF d, l, x, p, wrap, full, char
  <2>1. CASE char = "lead"
    BY <1>2, <1>7, <1>8, <2>1
  <2>2. CASE char # "lead"
    <3>1. /\ screen' = [d.screen EXCEPT ![d.y] = Con!Draw(@, x, char)]
          /\ lines' = [l EXCEPT ![Len(l)] = Con!Draw(@, p, char)] /\ cury' = d.y
      BY <1>2, <2>2
    <3>2. curx <= Columns => Paper(screen', lines', cury') /\ Shows(screen', lines', cury')
      BY <1>3, <1>7, <1>8, <3>1, SameCharacter
    <3>3. Paper([d.screen EXCEPT ![d.y] = Con!Draw(@, x, char)],
                [l EXCEPT ![Len(l)] = Con!Draw(@, x, char)], d.y)
      BY <1>3, <1>7, SameCharacter
    <3>4. Paper([d.screen EXCEPT ![d.y] = Con!Draw(@, p, char)],
                [l EXCEPT ![Len(l)] = Con!Draw(@, p, char)], d.y)
      BY <1>3, <1>7, SameCharacter
    <3>5. QED BY <3>1, <3>2, <3>3, <3>4 DEF Paper
  <2>3. QED BY <2>1, <2>2
<1>10. lost' \in BOOLEAN /\ (~lost' => curx <= Columns)
  <2>1. lost' = (curx > Columns) /\ curx \in Nat /\ Columns \in Nat
    BY <1>1, <1>2
  <2>2. CASE curx > Columns
    BY <2>1, <2>2
  <2>3. CASE ~(curx > Columns)
    BY <2>1, <2>3
  <2>4. QED BY <2>2, <2>3
<1>11. QED BY <1>3, <1>9, <1>10 DEF ConsoleInv, Paper, Shows, Away

LEMMA KeepsConsole ==
  ASSUME ConsoleInv, Con!Next \/ UNCHANGED conv
  PROVE  ConsoleInv'
<1>1. CASE Con!Next
  <2>1. PICK code \in Con!Bytes \cup Con!Words : ~lost /\ Con!BPutc(code)
    BY <1>1 DEF Con!Next
  <2>2. QED BY <2>1, StepControl, StepCharacter DEF Con!BPutc
<1>2. CASE UNCHANGED conv
  BY <1>2 DEF conv, ConsoleInv, Paper, Shows, Away
<1>3. QED BY <1>1, <1>2

(* Whatever is printed, wrapped and scrolled, on a screen of any size, its *)
(* rows are the last lines of all that was written, until a character goes *)
(* beyond a line's end.                                                    *)
THEOREM ScreenIsThePaper == MachineSpec => []ScreenShowsLines
<1> DEFINE I == part = "console" => ConsoleInv
<1>1. MachineInit => I
  BY InitConsole DEF MachineInit
<1>2. I /\ [MachineNext]_machineVars => I'
  BY KeepsConsole, OthersLeaveAlone
<1>3. I => ScreenShowsLines
  BY DEF ScreenShowsLines, Con!ScreenShowsLines, Con!Gone, ConsoleInv, Shows, Away
<1>4. QED BY <1>1, <1>2, <1>3, PTL DEF MachineSpec
-----------------------------------------------------------------------------
(* Dates and times.                                                        *)

FullYears == 1980 .. 2107
TextYears == 0 .. 4095

(* Binary coded decimals have their digits, and turn back.                 *)
LEMMA Decimals ==
  ASSUME NEW n \in 0 .. 99
  PROVE  /\ Cal!ToBcd(n) \in 0 .. 255
         /\ Cal!Digits(Cal!ToBcd(n)) = n /\ Cal!ToBin(Cal!ToBcd(n)) = n
<1> DEFINE t == n \div 10
           b == Cal!ToBcd(n)
<1>1. /\ t \in 0 .. 9 /\ n - 10 * t \in 0 .. 9
  OBVIOUS
<1>2. b = 16 * t + (n - 10 * t)
  BY DEF Cal!ToBcd
<1>3. b \div 16 = t /\ b % 16 = n - 10 * t /\ b \in 0 .. 255
  <2> HIDE DEF t
  <2>1. b \in 0 .. 255 /\ b = 16 * t + (n - 10 * t)
    BY <1>1, <1>2
  <2> HIDE DEF b
  <2>2. QED BY <1>1, <2>1
<1>4. 10 * (b \div 16) + (b % 16) = n /\ b - (b \div 16) * 6 = n
  <2>1. b = 16 * t + (n - 10 * t)
    BY <1>2
  <2> HIDE DEF t, b
  <2>2. QED BY <1>1, <1>3, <2>1
<1>5. QED BY <1>3, <1>4, Zenon DEF Cal!Digits, Cal!ToBin

Octets == 0 .. 255

LEMMA TuplesIn ==
  ASSUME NEW S, NEW T
  PROVE  /\ \A b1, b2, b3, b4 \in S : <<b1, b2, b3, b4>> \in [1 .. 4 -> S]
         /\ \A v \in T, b2, b3 \in S : <<v, b2, b3>> \in T \X S \X S
  OBVIOUS

(* The word of a DOS date has its fields.                                  *)
DosWord(y, m, d) == y * 512 + m * 32 + d

DosFields(y, m, d, w) ==
  /\ w \div 512 = y /\ (w \div 32) % 16 = m /\ w % 32 = d
  /\ w \div 256 \in 0 .. 255 /\ w % 256 \in 0 .. 255
  /\ (w \div 256) * 256 + (w % 256) = w

LEMMA DateWord ==
  ASSUME NEW y \in 0 .. 127, NEW m \in 1 .. 12, NEW d \in 1 .. 31,
         NEW w, w = DosWord(y, m, d)
  PROVE  DosFields(y, m, d, w)
<1>0. w = y * 512 + m * 32 + d
  BY DEF DosWord
<1>1. w >= 0 /\ w <= 65535
  BY <1>0
<1>2. w \div 512 = y
  BY <1>0
<1>3. w \div 32 = 16 * y + m
  BY <1>0
<1>4. (16 * y + m) % 16 = m
  OBVIOUS
<1>5. w % 32 = d
  BY <1>0
<1>6. w \div 256 \in 0 .. 255 /\ w % 256 \in 0 .. 255 /\ (w \div 256) * 256 + (w % 256) = w
  BY <1>0, <1>1
<1>7. QED BY <1>1, <1>2, <1>3, <1>4, <1>5, <1>6 DEF DosFields

(* A year of a moment in two digits, and in the seven bits of a DOS date.  *)
LEMMA ShortYear ==
  ASSUME NEW y \in FullYears
  PROVE  /\ y \in Int /\ y % 100 \in 0 .. 99 /\ y - 1980 \in 0 .. 127
         /\ (y - 1980 + 80) % 100 = y % 100
  BY DEF FullYears

LEMMA MomentShape ==
  ASSUME NEW c \in Cal!Moment
  PROVE  \E y \in FullYears, n \in 1 .. 12, d \in 1 .. 31, w \in 0 .. 6,
            h \in 0 .. 23, m \in 0 .. 59, s \in 0 .. 59 :
           /\ c.year = y /\ c.month = n /\ c.day = d /\ c.weekday = w
           /\ c.hour = h /\ c.minute = m /\ c.second = s
<1>1. /\ c.year \in Years /\ c.month \in Months /\ c.day \in Days /\ c.weekday \in Weekdays
      /\ c.hour \in Hours /\ c.minute \in Minutes /\ c.second \in Minutes
  BY DEF Cal!Moment
<1>2. PICK y \in Years, n \in Months, d \in Days, w \in Weekdays, h \in Hours,
           m \in Minutes, s \in Minutes :
        /\ c.year = y /\ c.month = n /\ c.day = d /\ c.weekday = w
        /\ c.hour = h /\ c.minute = m /\ c.second = s
  BY <1>1, Zenon
<1>3. /\ y \in FullYears /\ n \in 1 .. 12 /\ d \in 1 .. 31 /\ w \in 0 .. 6
      /\ h \in 0 .. 23 /\ m \in 0 .. 59 /\ s \in 0 .. 59
  BY MachineAssumption DEF Cal!CalendarAssumption, FullYears
<1>4. QED BY <1>2, <1>3, Zenon

(* What D0 holds, whatever the clock has done since it was read.           *)
Holds(k, m) ==
  CASE k = "none" -> <<0, 0, 0, 0>>
    [] k = "date_bcd" ->
         <<m.weekday, Cal!ToBcd(m.year % 100), Cal!ToBcd(m.month), Cal!ToBcd(m.day)>>
    [] k = "date" -> <<m.weekday, m.year % 100, m.month, m.day>>
    [] k = "time_bcd" -> <<0, Cal!ToBcd(m.hour), Cal!ToBcd(m.minute), Cal!ToBcd(m.second)>>
    [] k \in {"time", "dos_time"} -> <<0, m.hour, m.minute, m.second>>
    [] k = "dos_date" ->
         LET word == (m.year - 1980) * 512 + m.month * 32 + m.day
         IN <<0, m.weekday, word \div 256, word % 256>>
    [] k = "time_text" -> <<m.hour, m.minute, m.second>>

ClockRead ==
  /\ clock \in Cal!Moment /\ read \in Cal!Moment
  /\ \/ /\ kind \in {"none", "date_bcd", "date", "time_bcd", "time", "dos_time", "dos_date",
                     "time_text"}
        /\ d0 = Holds(kind, read)
     \/ /\ kind \in {"long_text", "short_text"}
        /\ \E y \in TextYears : d0 = <<y, read.month, read.day>>

LEMMA StepTick ==
  ASSUME clock \in Cal!Moment, Cal!Tick
  PROVE  clock' \in Cal!Moment
<1>1. \A v \in Minutes : [clock EXCEPT !.second = v] \in Cal!Moment
  BY DEF Cal!Moment
<1>2. \A u \in Hours, v \in Minutes : [clock EXCEPT !.hour = u, !.minute = v] \in Cal!Moment
  BY DEF Cal!Moment
<1>3. \A u \in Days, v \in Weekdays : [clock EXCEPT !.day = u, !.weekday = v] \in Cal!Moment
  BY DEF Cal!Moment
<1>4. \A u \in Years, v \in Months : [clock EXCEPT !.year = u, !.month = v] \in Cal!Moment
  BY DEF Cal!Moment
<1>5. QED BY <1>1, <1>2, <1>3, <1>4, Zenon DEF Cal!Tick

(* The clock goes on, or a call reads or converts.                         *)
LEMMA StepClock ==
  ASSUME ClockRead, Cal!Next
  PROVE  ClockRead'
<1>1. /\ clock \in Cal!Moment /\ read \in Cal!Moment
      /\ kind \notin {"long_text", "short_text"} => d0 = Holds(kind, read)
  BY DEF ClockRead
<1>2. PICK y \in FullYears, n \in 1 .. 12, d \in 1 .. 31, w \in 0 .. 6,
           h \in 0 .. 23, m \in 0 .. 59, s \in 0 .. 59 :
        /\ read.year = y /\ read.month = n /\ read.day = d /\ read.weekday = w
        /\ read.hour = h /\ read.minute = m /\ read.second = s
  BY <1>1, MomentShape
<1>3. CASE Cal!Tick
  <2>1. clock' \in Cal!Moment
    BY <1>1, <1>3, StepTick
  <2>2. UNCHANGED <<read, kind, d0>>
    BY <1>3, Zenon DEF Cal!Tick
  <2>3. QED BY <2>1, <2>2 DEF ClockRead
<1>4. ASSUME NEW k \in {"date_bcd", "time_bcd", "dos_date", "dos_time"},
             Cal!Read(k, Holds(k, clock))
      PROVE  ClockRead'
  BY <1>1, <1>4 DEF Cal!Read, ClockRead
<1>5. CASE Cal!DateGet \/ Cal!TimeGet \/ Cal!GetDate \/ Cal!GetTim2
  <2>1. /\ Cal!DateGet => Cal!Read("date_bcd", Holds("date_bcd", clock))
        /\ Cal!TimeGet => Cal!Read("time_bcd", Holds("time_bcd", clock))
        /\ Cal!GetDate => Cal!Read("dos_date", Holds("dos_date", clock))
        /\ Cal!GetTim2 => Cal!Read("dos_time", Holds("dos_time", clock))
    BY DEF Holds, Cal!DateGet, Cal!TimeGet, Cal!GetDate, Cal!GetTim2
  <2>2. QED BY <1>4, <1>5, <2>1
<1>6. ASSUME NEW k \in {"date", "time", "time_text"}, d0' = Holds(k, read), kind' = k,
             UNCHANGED <<clock, read>>
      PROVE  ClockRead'
  BY <1>1, <1>6 DEF ClockRead
<1>7. CASE Cal!DateBin
  <2>1. /\ kind = "date_bcd" /\ kind' = "date" /\ UNCHANGED <<clock, read>>
        /\ d0' = <<d0[1], Cal!ToBin(d0[2]), Cal!ToBin(d0[3]), Cal!ToBin(d0[4])>>
    BY <1>7 DEF Cal!DateBin, Cal!Convert
  <2>2. d0 = <<w, Cal!ToBcd(y % 100), Cal!ToBcd(n), Cal!ToBcd(d)>>
    BY <1>1, <1>2, <2>1 DEF Holds
  <2>3. /\ Cal!ToBin(Cal!ToBcd(y % 100)) = y % 100 /\ Cal!ToBin(Cal!ToBcd(n)) = n
        /\ Cal!ToBin(Cal!ToBcd(d)) = d
    <3>1. y % 100 \in 0 .. 99 /\ n \in 0 .. 99 /\ d \in 0 .. 99
      BY ShortYear
    <3>2. QED BY <3>1, Decimals, Zenon
  <2>4. d0' = <<w, y % 100, n, d>>
    BY <2>1, <2>2, <2>3
  <2>5. d0' = Holds("date", read)
    BY <1>2, <2>4 DEF Holds
  <2>6. QED BY <1>6, <2>1, <2>5
<1>8. CASE Cal!TimeBin
  <2>1. /\ kind = "time_bcd" /\ kind' = "time" /\ UNCHANGED <<clock, read>>
        /\ d0' = <<0, Cal!ToBin(d0[2]), Cal!ToBin(d0[3]), Cal!ToBin(d0[4])>>
    BY <1>8 DEF Cal!TimeBin, Cal!Convert
  <2>2. d0 = <<0, Cal!ToBcd(h), Cal!ToBcd(m), Cal!ToBcd(s)>>
    BY <1>1, <1>2, <2>1 DEF Holds
  <2>3. /\ Cal!ToBin(Cal!ToBcd(h)) = h /\ Cal!ToBin(Cal!ToBcd(m)) = m
        /\ Cal!ToBin(Cal!ToBcd(s)) = s
    <3>1. h \in 0 .. 99 /\ m \in 0 .. 99 /\ s \in 0 .. 99
      OBVIOUS
    <3>2. QED BY <3>1, Decimals, Zenon
  <2>4. d0' = <<0, h, m, s>>
    BY <2>1, <2>2, <2>3
  <2>5. d0' = Holds("time", read)
    BY <1>2, <2>4 DEF Holds
  <2>6. QED BY <1>6, <2>1, <2>5
<1>9. CASE Cal!DateAsc
  <2>1. PICK format \in 0 .. 15 :
          LET year == (d0[1] % 16) * 256 + d0[2]
          IN Cal!Convert("date", IF format % 4 < 2 THEN "long_text" ELSE "short_text",
                         <<IF format % 4 < 2 THEN year ELSE year % 100, d0[3], d0[4]>>)
    BY <1>9 DEF Cal!DateAsc
  <2>2. kind = "date" /\ kind' \in {"long_text", "short_text"} /\ UNCHANGED <<clock, read>>
    BY <2>1 DEF Cal!Convert
  <2>3. d0 = <<w, y % 100, n, d>>
    BY <1>1, <1>2, <2>2 DEF Holds
  <2> DEFINE year == (w % 16) * 256 + (y % 100)
  <2>4. year \in TextYears
    <3>1. w % 16 \in 0 .. 6 /\ y % 100 \in 0 .. 99
      BY ShortYear
    <3>2. year >= 0 /\ year <= 4095 /\ year \in Int
      BY <3>1
    <3> HIDE DEF year
    <3>3. QED BY <3>2 DEF TextYears
  <2>5. d0' = <<IF format % 4 < 2 THEN year ELSE year % 100, n, d>>
    BY <2>1, <2>3 DEF Cal!Convert
  <2> HIDE DEF year
  <2>6. PICK v \in TextYears : d0' = <<v, n, d>>
    <3>1. year % 100 \in TextYears
      <4>1. year \in Int
        BY <2>4 DEF TextYears
      <4>2. year % 100 >= 0 /\ year % 100 <= 99 /\ year % 100 \in Int
        BY <4>1
      <4>3. QED BY <4>2 DEF TextYears
    <3>2. QED BY <2>4, <2>5, <3>1
  <2>7. \E v2 \in TextYears : d0' = <<v2, read'.month, read'.day>>
    BY <1>2, <2>2, <2>6
  <2>8. QED BY <1>1, <2>2, <2>7 DEF ClockRead
<1>10. CASE Cal!TimeAsc
  <2>1. /\ kind = "time" /\ kind' = "time_text" /\ UNCHANGED <<clock, read>>
        /\ d0' = <<d0[2], d0[3], d0[4]>>
    BY <1>10 DEF Cal!TimeAsc, Cal!Convert
  <2>2. d0 = <<0, h, m, s>>
    BY <1>1, <1>2, <2>1 DEF Holds
  <2>3. d0' = <<h, m, s>>
    BY <2>1, <2>2
  <2>4. d0' = Holds("time_text", read)
    BY <1>2, <2>3 DEF Holds
  <2>5. QED BY <1>6, <2>1, <2>4
<1>11. QED BY <1>3, <1>5, <1>7, <1>8, <1>9, <1>10 DEF Cal!Next

LEMMA ClockSays ==
  ASSUME ClockRead
  PROVE  Cal!DatesAgree /\ Cal!TypeOK
<1>1. /\ clock \in Cal!Moment /\ read \in Cal!Moment
      /\ \/ /\ kind \in {"none", "date_bcd", "date", "time_bcd", "time", "dos_time", "dos_date",
                         "time_text"}
            /\ d0 = Holds(kind, read)
         \/ /\ kind \in {"long_text", "short_text"}
            /\ \E v \in TextYears : d0 = <<v, read.month, read.day>>
  BY DEF ClockRead
<1>2. PICK y \in FullYears, n \in 1 .. 12, d \in 1 .. 31, w \in 0 .. 6,
           h \in 0 .. 23, m \in 0 .. 59, s \in 0 .. 59 :
        /\ read.year = y /\ read.month = n /\ read.day = d /\ read.weekday = w
        /\ read.hour = h /\ read.minute = m /\ read.second = s
  BY <1>1, MomentShape
<1> DEFINE date == <<y % 100, n, d, w>>
           time == <<h, m, s>>
<1>3. /\ kind \in {"date_bcd", "date", "dos_date"} /\ Cal!Says = date => Cal!DatesAgree
      /\ kind \in {"time_bcd", "time", "dos_time", "time_text"} /\ Cal!Says = time
           => Cal!DatesAgree
      /\ kind \in {"long_text", "short_text"} /\ Cal!Says[2] = n /\ Cal!Says[3] = d
           => Cal!DatesAgree
  BY <1>2 DEF Cal!DatesAgree
<1>4. /\ kind \in {"none", "date_bcd", "date", "time_bcd", "time", "dos_time", "dos_date"}
           /\ d0 \in [1 .. 4 -> Octets] => Cal!TypeOK
      /\ kind \in {"time_text", "long_text", "short_text"}
           /\ d0 \in TextYears \X Octets \X Octets => Cal!TypeOK
  <2>1. TextYears = 0 .. 4095 /\ Octets = 0 .. 255
    BY DEF TextYears, Octets
  <2>2. ASSUME kind \in {"none", "date_bcd", "date", "time_bcd", "time", "dos_time", "dos_date"},
               d0 \in [1 .. 4 -> Octets]
        PROVE  Cal!TypeOK
    <3>1. kind \notin {"long_text", "short_text", "time_text"}
      BY <2>2
    <3>2. clock \in Cal!Moment /\ read \in Cal!Moment /\ d0 \in [1 .. 4 -> 0 .. 255]
      BY <1>1, <2>1, <2>2
    <3>3. QED BY <3>1, <3>2 DEF Cal!TypeOK
  <2>3. ASSUME kind \in {"time_text", "long_text", "short_text"},
               d0 \in TextYears \X Octets \X Octets
        PROVE  Cal!TypeOK
    <3>1. kind \in {"long_text", "short_text", "time_text"}
      BY <2>3
    <3>2. d0 \in (0 .. 4095) \X (0 .. 255) \X (0 .. 255)
      <4>1. TextYears \X Octets \X Octets = (0 .. 4095) \X (0 .. 255) \X (0 .. 255)
        BY Zenon DEF TextYears, Octets
      <4>2. QED BY <2>3, <4>1
    <3>3. clock \in Cal!Moment /\ read \in Cal!Moment
      BY <1>1
    <3>4. QED BY <3>1, <3>2, <3>3 DEF Cal!TypeOK
  <2>4. QED BY <2>2, <2>3
<1>14. /\ y % 100 \in 0 .. 99 /\ n \in 0 .. 99 /\ d \in 0 .. 99
       /\ h \in 0 .. 99 /\ m \in 0 .. 99 /\ s \in 0 .. 99
  BY ShortYear
<1>15. /\ y % 100 \in Octets /\ n \in Octets /\ d \in Octets /\ w \in Octets /\ 0 \in Octets
       /\ h \in Octets /\ m \in Octets /\ s \in Octets /\ h \in TextYears
  BY <1>14 DEF Octets, TextYears
<1>16. /\ \A b1, b2, b3, b4 \in Octets : <<b1, b2, b3, b4>> \in [1 .. 4 -> Octets]
       /\ \A v \in TextYears, b2, b3 \in Octets : <<v, b2, b3>> \in TextYears \X Octets \X Octets
  OBVIOUS
<1> HIDE DEF date, time
<1>5. CASE kind = "none"
  <2>1. d0 = <<0, 0, 0, 0>>
    BY <1>1, <1>5 DEF Holds
  <2>2. d0 \in [1 .. 4 -> Octets]
    BY <2>1, <1>15, <1>16, Zenon
  <2>3. Cal!DatesAgree
    BY <1>5 DEF Cal!DatesAgree
  <2>4. QED BY <1>4, <1>5, <2>2, <2>3
<1>6. CASE kind = "date_bcd"
  <2>1. d0 = <<w, Cal!ToBcd(y % 100), Cal!ToBcd(n), Cal!ToBcd(d)>>
    BY <1>1, <1>2, <1>6 DEF Holds
  <2>2. /\ Cal!ToBcd(y % 100) \in Octets /\ Cal!ToBcd(n) \in Octets
        /\ Cal!ToBcd(d) \in Octets
        /\ Cal!Digits(Cal!ToBcd(y % 100)) = y % 100 /\ Cal!Digits(Cal!ToBcd(n)) = n
        /\ Cal!Digits(Cal!ToBcd(d)) = d
    BY <1>14, Decimals, Zenon DEF Octets
  <2>3. Cal!Says = date
    BY <1>6, <2>1, <2>2 DEF Cal!Says, date
  <2>4. d0 \in [1 .. 4 -> Octets]
    BY <2>1, <2>2, <1>15, <1>16, Zenon
  <2>5. QED BY <1>3, <1>4, <1>6, <2>3, <2>4
<1>7. CASE kind = "date"
  <2>1. d0 = <<w, y % 100, n, d>>
    BY <1>1, <1>2, <1>7 DEF Holds
  <2>2. Cal!Says = date
    BY <1>7, <2>1 DEF Cal!Says, date
  <2>3. d0 \in [1 .. 4 -> Octets]
    BY <2>1, <1>15, <1>16, Zenon
  <2>4. QED BY <1>3, <1>4, <1>7, <2>2, <2>3
<1>8. CASE kind = "dos_date"
  <2> DEFINE word == DosWord(y - 1980, n, d)
  <2>1. d0 = <<0, w, word \div 256, word % 256>>
    BY <1>1, <1>2, <1>8 DEF Holds, DosWord
  <2> HIDE DEF word
  <2>2. y - 1980 \in 0 .. 127 /\ word = DosWord(y - 1980, n, d)
    BY ShortYear DEF word
  <2>3. /\ word \div 512 = y - 1980 /\ (word \div 32) % 16 = n /\ word % 32 = d
        /\ word \div 256 \in Octets /\ word % 256 \in Octets
        /\ (word \div 256) * 256 + (word % 256) = word
    <3>1. PICK z \in 0 .. 127 : z = y - 1980
      BY <2>2
    <3>2. word = DosWord(z, n, d)
      BY <2>2, <3>1
    <3>3. DosFields(z, n, d, word)
      BY <3>2, DateWord
    <3>4. QED BY <3>1, <3>3 DEF DosFields, Octets
  <2>4. Cal!Word = word
    BY <2>1, <2>3 DEF Cal!Word
  <2>5. (y - 1980 + 80) % 100 = y % 100
    BY ShortYear
  <2>6. Cal!Says = date
    BY <1>8, <2>1, <2>3, <2>4, <2>5 DEF Cal!Says, date
  <2>7. d0 \in [1 .. 4 -> Octets]
    <3>1. PICK p \in Octets, q \in Octets : d0 = <<0, w, p, q>>
      BY <2>1, <2>3
    <3>2. QED BY <3>1, <1>15, <1>16, Zenon
  <2>8. QED BY <1>3, <1>4, <1>8, <2>6, <2>7
<1>9. CASE kind = "time_bcd"
  <2>1. d0 = <<0, Cal!ToBcd(h), Cal!ToBcd(m), Cal!ToBcd(s)>>
    BY <1>1, <1>2, <1>9 DEF Holds
  <2>2. /\ Cal!ToBcd(h) \in Octets /\ Cal!ToBcd(m) \in Octets /\ Cal!ToBcd(s) \in Octets
        /\ Cal!Digits(Cal!ToBcd(h)) = h /\ Cal!Digits(Cal!ToBcd(m)) = m
        /\ Cal!Digits(Cal!ToBcd(s)) = s
    BY <1>14, Decimals, Zenon DEF Octets
  <2>3. Cal!Says = time
    BY <1>9, <2>1, <2>2 DEF Cal!Says, time
  <2>4. d0 \in [1 .. 4 -> Octets]
    BY <2>1, <2>2, <1>15, <1>16, Zenon
  <2>5. QED BY <1>3, <1>4, <1>9, <2>3, <2>4
<1>10. CASE kind \in {"time", "dos_time"}
  <2>1. d0 = <<0, h, m, s>>
    BY <1>1, <1>2, <1>10 DEF Holds
  <2>2. Cal!Says = time
    BY <1>10, <2>1 DEF Cal!Says, time
  <2>3. d0 \in [1 .. 4 -> Octets]
    BY <2>1, <1>15, <1>16, Zenon
  <2>4. QED BY <1>3, <1>4, <1>10, <2>2, <2>3
<1>11. CASE kind = "time_text"
  <2>1. d0 = <<h, m, s>>
    BY <1>1, <1>2, <1>11 DEF Holds
  <2>2. Cal!Says = time
    BY <1>11, <2>1 DEF Cal!Says, time
  <2>3. d0 \in TextYears \X Octets \X Octets
    BY <2>1, <1>15, <1>16, Zenon
  <2>4. QED BY <1>3, <1>4, <1>11, <2>2, <2>3
<1>12. CASE kind \in {"long_text", "short_text"}
  <2>1. PICK v \in TextYears : d0 = <<v, n, d>>
    BY <1>1, <1>2, <1>12
  <2>2. Cal!Says[2] = n /\ Cal!Says[3] = d
    BY <1>12, <2>1 DEF Cal!Says
  <2>3. d0 \in TextYears \X Octets \X Octets
    BY <2>1, <1>15, <1>16, Zenon
  <2>4. QED BY <1>3, <1>4, <1>12, <2>2, <2>3
<1>13. QED BY <1>1, <1>5, <1>6, <1>7, <1>8, <1>9, <1>10, <1>11, <1>12

(* Whatever the clock has done since, what a program has of a date or a    *)
(* time, as read or converted, is what the clock showed then.              *)
THEOREM DatesAreOfOneMoment == MachineSpec => []DatesAgree
<1> DEFINE I == part = "calendar" => ClockRead
<1>1. MachineInit => I
  BY DEF MachineInit, Cal!Init, ClockRead, Holds
<1>2. I /\ [MachineNext]_machineVars => I'
  <2>1. ASSUME ClockRead, UNCHANGED calv PROVE ClockRead'
    BY <2>1 DEF calv, ClockRead
  <2>2. QED BY <2>1, StepClock, OthersLeaveAlone
<1>3. I => DatesAgree
  BY ClockSays DEF DatesAgree
<1>4. QED BY <1>1, <1>2, <1>3, PTL DEF MachineSpec
-----------------------------------------------------------------------------
(* Fonts.                                                                  *)

(* How many second bytes come before one: there is none at 0x7f.           *)
Before(t) == {u \in Fon!SjisTrails : u < t}

LEMMA SjisColumn ==
  ASSUME NEW t \in Fon!SjisTrails
  PROVE  Cardinality(Before(t)) = IF t >= \h80 THEN t - \h41 ELSE t - \h40
<1>1. t \in (\h40 .. \h7e) \cup (\h80 .. \hfc)
  BY DEF Fon!SjisTrails
<1>2. CASE t \in \h40 .. \h7e
  <2>1. Before(t) = \h40 .. t - 1
    BY <1>2 DEF Before, Fon!SjisTrails
  <2>2. Cardinality(\h40 .. t - 1) = t - \h40
    BY <1>2, FS_Interval
  <2>3. QED BY <1>2, <2>1, <2>2
<1>3. CASE t \in \h80 .. \hfc
  <2>1. Before(t) = (\h40 .. \h7e) \cup (\h80 .. t - 1)
    <3>1. \A u : u \in Before(t) <=> u \in \h40 .. \h7e \/ u \in \h80 .. t - 1
      BY <1>3 DEF Before, Fon!SjisTrails
    <3>2. \A u : u \in Before(t) <=> u \in (\h40 .. \h7e) \cup (\h80 .. t - 1)
      BY <3>1, Zenon
    <3>3. QED BY <3>2, Zenon
  <2>2. /\ IsFiniteSet(\h40 .. \h7e) /\ Cardinality(\h40 .. \h7e) = 63
        /\ IsFiniteSet(\h80 .. t - 1) /\ Cardinality(\h80 .. t - 1) = t - \h80
    <3>1. \h40 \in Int /\ \h7e \in Int /\ \h80 \in Int /\ t - 1 \in Int
      BY <1>3
    <3>2. /\ IsFiniteSet(\h40 .. \h7e)
          /\ Cardinality(\h40 .. \h7e) = IF \h40 > \h7e THEN 0 ELSE \h7e - \h40 + 1
      BY <3>1, FS_Interval, Zenon
    <3>3. /\ IsFiniteSet(\h80 .. t - 1)
          /\ Cardinality(\h80 .. t - 1) = IF \h80 > t - 1 THEN 0 ELSE t - 1 - \h80 + 1
      BY <3>1, FS_Interval, Zenon
    <3>4. QED BY <1>3, <3>2, <3>3
  <2>3. (\h40 .. \h7e) \cap (\h80 .. t - 1) = {}
    BY <1>3
  <2>4. Cardinality((\h40 .. \h7e) \cap (\h80 .. t - 1)) = 0
    BY <2>3, FS_EmptySet
  <2>5. Cardinality(Before(t)) = 63 + (t - \h80) - 0
    <3> DEFINE S == \h40 .. \h7e
               T == \h80 .. t - 1
    <3>1. /\ IsFiniteSet(S) /\ Cardinality(S) = 63
          /\ IsFiniteSet(T) /\ Cardinality(T) = t - \h80
          /\ Cardinality(S \cap T) = 0 /\ Before(t) = S \cup T
      BY <2>1, <2>2, <2>4
    <3> HIDE DEF S, T
    <3>2. IsFiniteSet(S) /\ IsFiniteSet(T)
      BY <3>1
    <3>3. Cardinality(S \cup T) = Cardinality(S) + Cardinality(T) - Cardinality(S \cap T)
      BY <3>2, FS_Union, Zenon
    <3>4. QED BY <3>1, <3>3, SMT
  <2>6. QED BY <1>3, <2>5
<1>4. QED BY <1>1, <1>2, <1>3

(* The reference's numbers of characters, as the code counts them.         *)
LEMMA NumberIs ==
  ASSUME NEW a \in Int, NEW t \in Fon!SjisTrails
  PROVE  Fon!Number(<<a, t>>)
           = 188 * (IF a < \ha0 THEN a - \h81 ELSE a - \hc1)
             + (IF t >= \h80 THEN t - \h41 ELSE t - \h40)
<1>1. Fon!Number(<<a, t>>)
        = 188 * (IF a < \ha0 THEN a - \h81 ELSE a - \hc1) + Cardinality(Before(t))
  BY DEF Fon!Number, Before, Fon!Cardinality, Cardinality
<1>2. QED BY <1>1, SjisColumn

(* Where the ROM has a wide glyph that was copied.                         *)
LEMMA WideGlyph ==
  ASSUME NEW a, NEW b \in \h21 .. \h7e, Fon!CopiedRow(a), connected
  PROVE  Fon!GlyphAt(Fon!Wide16(a, b)) = <<"wide", a, b>>
<1> DEFINE row == IF a >= \h30 THEN a - \h30 + 8 ELSE a - \h21
           o == Fon!Wide16(a, b)
           wideAt == {Fon!Wide16(c[1], c[2]) : c \in Fon!CopiedWide}
           narrowAt == {Fon!Narrow16(ch) : ch \in 0 .. 255}
<1>1. a \in (\h21 .. \h28) \cup (\h30 .. \h74)
  BY DEF Fon!CopiedRow
<1>2. row \in 0 .. 76 /\ (row < 8 <=> a < \h30)
      /\ (IF row < 8 THEN row + \h21 ELSE row - 8 + \h30) = a
  BY <1>1
<1>3. o = (row * 94 + (b - \h21)) * 32
  BY DEF Fon!Wide16, Fon!LinearJis
<1>4. /\ o \in Int /\ o >= 0 /\ o < \h3a800
      /\ o \div 32 = row * 94 + (b - \h21) /\ o \div (32 * 94) = row
  <2> HIDE DEF row
  <2>1. row \in 0 .. 76
    BY <1>2
  <2> HIDE DEF o
  <2>2. o \in Int /\ o >= 0 /\ o < \h3a800
    BY <1>3, <2>1, SMT
  <2>3. o \div 32 = row * 94 + (b - \h21)
    BY <1>3, <2>1, SMT
  <2>4. o \div 3008 = row /\ 32 * 94 = 3008
    BY <1>3, <2>1, SMT
  <2>5. QED BY <2>2, <2>3, <2>4, SMT
<1>5. (row * 94 + (b - \h21)) % 94 = b - \h21
  <2> HIDE DEF row
  <2>1. row \in 0 .. 76
    BY <1>2
  <2>2. QED BY <2>1
<1>6. o \in wideAt
  <2>1. <<a, b>> \in Fon!CopiedWide
    BY <1>1 DEF Fon!CopiedWide
  <2>2. QED BY <2>1
<1>7. o \notin narrowAt
  <2> HIDE DEF o
  <2>1. \A ch \in 0 .. 255 : Fon!Narrow16(ch) >= \h3a800
    BY SMT DEF Fon!Narrow16
  <2>2. QED BY <1>4, <2>1, SMT
<1>8. o \in DOMAIN Fon!Contents
  <2> HIDE DEF o
  <2>1. QED BY <1>6, SMT DEF Fon!Contents
<1>9. Fon!Contents[o]
        = <<"wide", IF o \div (32 * 94) < 8 THEN (o \div (32 * 94)) + \h21
                    ELSE (o \div (32 * 94)) - 8 + \h30,
            ((o \div 32) % 94) + \h21>>
  <2> HIDE DEF o
  <2>1. QED BY <1>6, <1>7, SMT DEF Fon!Contents
<1>10. Fon!Contents[o] = <<"wide", a, b>>
  <2> HIDE DEF o, row
  <2>1. QED BY <1>2, <1>4, <1>5, <1>9, SMT
<1>11. o % \h100000 = o /\ ~(o >= \hc0000)
  <2> HIDE DEF o
  <2>1. QED BY <1>4, SMT
<1> HIDE DEF o
<1>12. QED BY <1>8, <1>10, <1>11, SMT DEF Fon!GlyphAt, o

LEMMA NarrowGlyph ==
  ASSUME NEW ch \in 0 .. 255, connected
  PROVE  Fon!GlyphAt(Fon!Narrow16(ch)) = <<"narrow", ch>>
<1> DEFINE o == Fon!Narrow16(ch)
<1>1. /\ o \in Int /\ (o - \h3a800) \div 16 = ch
      /\ o % \h100000 = o /\ ~(o >= \hc0000)
  BY SMT DEF Fon!Narrow16
<1>2. o \in {Fon!Narrow16(n) : n \in 0 .. 255}
  BY SMT
<1>3. o \in DOMAIN Fon!Contents /\ Fon!Contents[o] = <<"narrow", (o - \h3a800) \div 16>>
  <2> HIDE DEF o
  <2>1. QED BY <1>2, SMT DEF Fon!Contents
<1> HIDE DEF o
<1>4. QED BY <1>1, <1>3, SMT DEF Fon!GlyphAt, o

(* What the text screen and the calls make of a character: one JIS code,   *)
(* of the glyph that the reference says.                                   *)
OneCode(c, j1, j2) ==
  /\ Fon!ToJis(c, FALSE) = <<j1, j2>> /\ Fon!ToJis(c, TRUE) = <<j1, j2>>
  /\ Fon!Glyph(c) = IF Fon!TwoBytes(j1) THEN <<"wide", j1, j2>> ELSE <<"narrow", j2>>
  /\ \A size \in {0, 8} : Fon!GlyphAt(Fon!Place(<<j1, j2>>, size)) = Fon!Glyph(c)

LEMMA PlaceIs ==
  ASSUME NEW j1, NEW j2, NEW size \in {0, 8}
  PROVE  Fon!Place(<<j1, j2>>, size)
           = IF Fon!TwoBytes(j1) THEN Fon!Wide16(j1, j2) ELSE Fon!Narrow16(j2)
<1>1. size # 12
  OBVIOUS
<1>2. QED BY <1>1, SMT DEF Fon!Place

(* The row and the column of a character's number.                         *)
LEMMA RowAndColumn ==
  ASSUME NEW r \in 0 .. 46, NEW col \in 0 .. 187
  PROVE  /\ (188 * r + col) \div 94 = IF col >= 94 THEN 2 * r + 1 ELSE 2 * r
         /\ (188 * r + col) % 94 = IF col >= 94 THEN col - 94 ELSE col
<1>1. CASE col >= 94
  <2>1. (188 * r + col) \div 94 = 2 * r + 1
    BY <1>1, SMT
  <2>2. (188 * r + col) % 94 = col - 94
    BY <1>1, SMT
  <2>3. QED BY <1>1, <2>1, <2>2, SMT
<1>2. CASE ~(col >= 94)
  <2>1. (188 * r + col) \div 94 = 2 * r
    BY <1>2, SMT
  <2>2. (188 * r + col) % 94 = col
    BY <1>2, SMT
  <2>3. QED BY <1>2, <2>1, <2>2, SMT
<1>3. QED BY <1>1, <1>2

LEMMA ShownGlyph ==
  ASSUME NEW a \in 0 .. 255, NEW t \in 0 .. 255, Fon!Shown(<<a, t>>), connected
  PROVE  \E j1, j2 \in Int : OneCode(<<a, t>>, j1, j2)
<1> DEFINE c == <<a, t>>
<1>0. c[1] = a /\ c[2] = t /\ a \in Int /\ t \in Int
  OBVIOUS
<1>1. CASE ~Fon!IsLead(a)
  <2>1. a = 0 /\ ~Fon!TwoBytes(a)
    BY <1>0, <1>1, SMT DEF Fon!Shown, Fon!TwoBytes
  <2>2. /\ Fon!ToJis(c, FALSE) = c /\ Fon!ToJis(c, TRUE) = c
        /\ Fon!Glyph(c) = <<"narrow", t>>
    BY <1>0, <1>1, Zenon DEF Fon!ToJis, Fon!Glyph
  <2>3. \A size \in {0, 8} : Fon!Place(<<a, t>>, size) = Fon!Narrow16(t)
    BY <2>1, PlaceIs, SMT
  <2>4. Fon!GlyphAt(Fon!Narrow16(t)) = <<"narrow", t>>
    BY NarrowGlyph
  <2>5. OneCode(c, a, t)
    BY <2>1, <2>2, <2>3, <2>4, Zenon DEF OneCode
  <2>6. QED BY <1>0, <2>5, Zenon
<1>2. CASE Fon!IsLead(a)
  <2> DEFINE r == IF a >= \he0 THEN a - \hc1 ELSE a - \h81
             col == IF t >= \h80 THEN t - \h41 ELSE t - \h40
             j1 == IF col >= 94 THEN 2 * r + 1 + \h21 ELSE 2 * r + \h21
             j2 == IF col >= 94 THEN col - 94 + \h21 ELSE col + \h21
  <2>1. t \in Fon!SjisTrails /\ Fon!CopiedRow(Fon!Glyph(c)[2])
    <3>1. a # 0
      BY <1>2, SMT DEF Fon!IsLead
    <3>2. QED BY <1>0, <3>1, Zenon DEF Fon!Shown
  <2>2. r \in 0 .. 46 /\ col \in 0 .. 187 /\ (a < \ha0 <=> ~(a >= \he0))
    BY <1>2, <2>1, SMT DEF Fon!IsLead, Fon!SjisTrails
  <2>3. Fon!ToJis(c, FALSE) = <<j1, j2>> /\ Fon!ToJis(c, TRUE) = <<j1, j2>>
    <3> HIDE DEF r, col, c
    <3>0. r = (IF c[1] >= \he0 THEN c[1] - \hc1 ELSE c[1] - \h81)
          /\ col = (IF c[2] >= \h80 THEN c[2] - \h41 ELSE c[2] - \h40)
      BY <1>0, Zenon DEF r, col
    <3>1. \A signed \in BOOLEAN :
            Fon!ToJis(c, signed)
              = LET row == 2 * r
                    second == col >= 94 \/ (~signed /\ col < 0)
                IN IF second THEN <<row + 1 + \h21, col - 94 + \h21>>
                   ELSE <<row + \h21, col + \h21>>
      BY <1>0, <1>2, <3>0 DEF Fon!ToJis
    <3>2. ~(col < 0)
      BY <2>2, SMT
    <3>3. CASE col >= 94
      <4>1. j1 = 2 * r + 1 + \h21 /\ j2 = col - 94 + \h21
        BY <3>3, Zenon
      <4>2. QED BY <3>1, <3>3, <4>1, Zenon
    <3>4. CASE ~(col >= 94)
      <4>1. j1 = 2 * r + \h21 /\ j2 = col + \h21
        BY <3>4, Zenon
      <4>2. QED BY <3>1, <3>2, <3>4, <4>1, Zenon
    <3>5. QED BY <3>3, <3>4
  <2>4. Fon!Number(c) = 188 * r + col
    BY <1>0, <2>1, <2>2, NumberIs, SMT
  <2>5. Fon!Number(c) \div 94 + \h21 = j1 /\ (Fon!Number(c) % 94) + \h21 = j2
        /\ j1 \in Int /\ j2 \in \h21 .. \h7e
    <3> HIDE DEF r, col
    <3>1. /\ (188 * r + col) \div 94 = IF col >= 94 THEN 2 * r + 1 ELSE 2 * r
          /\ (188 * r + col) % 94 = IF col >= 94 THEN col - 94 ELSE col
      BY <2>2, RowAndColumn
    <3>2. QED BY <2>2, <2>4, <3>1, SMT
  <2> HIDE DEF r, col, j1, j2
  <2>6. Fon!Glyph(c) = <<"wide", j1, j2>>
    BY <1>0, <1>2, <2>5, Zenon DEF Fon!Glyph
  <2>7. Fon!CopiedRow(j1)
    <3>1. Fon!Glyph(c)[2] = j1
      BY <2>6, SMT
    <3>2. QED BY <2>1, <3>1, Zenon
  <2>8. Fon!TwoBytes(j1)
    BY <2>7, SMT DEF Fon!CopiedRow, Fon!TwoBytes
  <2>9. \A size \in {0, 8} : Fon!Place(<<j1, j2>>, size) = Fon!Wide16(j1, j2)
    BY <2>8, PlaceIs, SMT
  <2>10. Fon!GlyphAt(Fon!Wide16(j1, j2)) = <<"wide", j1, j2>>
    BY <2>5, <2>7, WideGlyph, SMT
  <2>11. OneCode(c, j1, j2)
    BY <2>3, <2>6, <2>8, <2>9, <2>10, Zenon DEF OneCode
  <2>12. QED BY <2>5, <2>11, SMT
<1>3. QED BY <1>1, <1>2

FontInv ==
  /\ connected \in BOOLEAN
  /\ Fon!GlyphsAgree

LEMMA FirstOfThree ==
  ASSUME NEW x, NEW y, NEW z
  PROVE  (<<x>> \o <<y, z>>)[1] = x
  OBVIOUS

LEMMA StepFonts ==
  ASSUME FontInv, Fon!Next
  PROVE  FontInv'
<1>1. CASE Fon!CopyData \/ Fon!GoOn
  <2>1. wanted' = Fon!Nothing /\ connected' \in BOOLEAN
    BY <1>1, Zenon DEF Fon!CopyData, Fon!GoOn, FontInv
  <2>2. QED BY <2>1, Zenon DEF FontInv, Fon!GlyphsAgree
<1>2. ASSUME NEW c \in Leads \X Trails, NEW size \in {0, 6, 8, 12},
             Fon!DrawChar(c) \/ Fon!FntAdr(c, size) \/ Fon!FntGet(c, size)
      PROVE  FontInv'
  <2>1. connected' = connected /\ connected' \in BOOLEAN
    BY <1>2, Zenon DEF FontInv, Fon!DrawChar, Fon!FntAdr, Fon!FntGet
  <2>2. PICK n \in {size, 8} : wanted' = <<c, n>>
    <3>1. wanted' = <<c, size>> \/ wanted' = <<c, 8>>
      BY <1>2, Zenon DEF Fon!DrawChar, Fon!FntAdr, Fon!FntGet
    <3>2. QED BY <3>1, Zenon
  <2>3. wanted'[1] = c /\ wanted'[2] = n
    BY <2>2
  <2>4. PICK a \in 0 .. 255, t \in 0 .. 255 : c = <<a, t>>
    <3>1. Leads \subseteq 0 .. 255 /\ Trails \subseteq 0 .. 255
      BY MachineAssumption DEF Fon!FontAssumption
    <3>2. PICK a \in Leads, t \in Trails : c = <<a, t>>
      OBVIOUS
    <3>3. QED BY <3>1, <3>2, Zenon
  <2>5. SUFFICES ASSUME connected, n \in {0, 8}, Fon!Shown(c)
                 PROVE  /\ drawn' # Fon!Nothing => drawn' = Fon!Glyph(c)
                        /\ place' # Fon!Nothing => Fon!GlyphAt(place[1])' = Fon!Glyph(c)
    BY <2>1, <2>3, Zenon DEF FontInv, Fon!GlyphsAgree
  <2>6. PICK j1 \in Int, j2 \in Int : OneCode(c, j1, j2)
    BY <2>4, <2>5, ShownGlyph, Zenon
  <2> DEFINE j == <<j1, j2>>
  <2>7. /\ Fon!ToJis(c, FALSE) = j /\ Fon!ToJis(c, TRUE) = j
        /\ Fon!Glyph(c) = IF Fon!TwoBytes(j1) THEN <<"wide", j1, j2>> ELSE <<"narrow", j2>>
        /\ \A s \in {0, 8} : Fon!GlyphAt(Fon!Place(j, s)) = Fon!Glyph(c)
        /\ j[1] = j1 /\ j[2] = j2
    <3>1. j[1] = j1 /\ j[2] = j2
      OBVIOUS
    <3>2. QED BY <2>6, <3>1, Zenon DEF OneCode
  <2> HIDE DEF j
  <2>8. CASE Fon!DrawChar(c)
    <3>1. /\ drawn' = IF Fon!TwoBytes(j1) THEN <<"wide", j1, j2>> ELSE <<"narrow", j2>>
          /\ place' = Fon!Nothing
      BY <2>7, <2>8, Zenon DEF Fon!DrawChar
    <3>2. QED BY <2>7, <3>1, Zenon
  <2>9. CASE Fon!FntAdr(c, size)
    <3>1. size = n
      <4>1. wanted' = <<c, size>>
        BY <2>9, Zenon DEF Fon!FntAdr
      <4>2. QED BY <2>3, <4>1
    <3>2. drawn' = Fon!Nothing /\ place' = <<Fon!Place(j, size)>> \o Fon!Shape(j, size)
      BY <2>7, <2>9, Zenon DEF Fon!FntAdr
    <3>3. PICK x, y : Fon!Shape(j, size) = <<x, y>>
      <4>1. Fon!Shape(j, size) = <<Fon!Shape(j, size)[1], Fon!Shape(j, size)[2]>>
        BY DEF Fon!Shape
      <4>2. QED BY <4>1, Zenon
    <3>4. place'[1] = Fon!Place(j, size)
      <4>1. place' = <<Fon!Place(j, size)>> \o <<x, y>>
        BY <3>2, <3>3, Zenon
      <4>2. (<<Fon!Place(j, size)>> \o <<x, y>>)[1] = Fon!Place(j, size)
        BY FirstOfThree
      <4>3. QED BY <4>1, <4>2, Zenon
    <3>5. Fon!GlyphAt(place[1])' = Fon!GlyphAt(Fon!Place(j, size))
      BY <2>1, <3>4, SMT DEF Fon!GlyphAt
    <3>6. QED BY <2>5, <2>7, <3>1, <3>2, <3>5, Zenon
  <2>10. CASE Fon!FntGet(c, size)
    <3>1. size = n
      <4>1. wanted' = <<c, size>>
        BY <2>10, Zenon DEF Fon!FntGet
      <4>2. QED BY <2>3, <4>1
    <3>2. size # 6
      BY <2>5, <3>1
    <3>3. place' = Fon!Nothing /\ drawn' = Fon!GlyphAt(Fon!Place(j, size))
      BY <2>7, <2>10, <3>2, Zenon DEF Fon!FntGet
    <3>4. QED BY <2>5, <2>7, <3>1, <3>3, Zenon
  <2>11. QED BY <1>2, <2>8, <2>9, <2>10
<1>3. QED
  <2>1. \/ Fon!CopyData \/ Fon!GoOn
        \/ \E c \in Leads \X Trails :
             Fon!DrawChar(c) \/ \E size \in {0, 6, 8, 12} : Fon!FntAdr(c, size) \/ Fon!FntGet(c, size)
    BY Zenon DEF Fon!Next
  <2>2. 8 \in {0, 6, 8, 12}
    OBVIOUS
  <2>3. QED BY <1>1, <1>2, <2>1, <2>2, Zenon

(* The characters that both can show are the same glyph for b_putc, for    *)
(* _FNTGET and where _FNTADR says, for whatever bytes programs send.       *)
THEOREM OneGlyphPerCharacter == MachineSpec => []GlyphsAgree
<1> DEFINE I == part = "fonts" => FontInv
<1>1. MachineInit => I
  BY DEF MachineInit, Fon!Init, FontInv, Fon!GlyphsAgree
<1>2. I /\ [MachineNext]_machineVars => I'
  <2>1. ASSUME FontInv, UNCHANGED fonv PROVE FontInv'
    BY <2>1 DEF fonv, FontInv, Fon!GlyphsAgree, Fon!GlyphAt
  <2>2. QED BY <2>1, StepFonts, OthersLeaveAlone
<1>3. I => GlyphsAgree
  BY DEF GlyphsAgree, FontInv
<1>4. QED BY <1>1, <1>2, <1>3, PTL DEF MachineSpec
-----------------------------------------------------------------------------
(* Floppy disks.                                                           *)

Kilo == 1024
Counts == 0 .. (LongWord - 1)

FloppyRecord(c, h, r) == (c * 2 + h) * 8 + (r - 1)

(* A record's number, as the code computes it and as the medium has it.    *)
LEMMA PlaceIs16 ==
  ASSUME NEW a \in Nat, NEW b \in 0 .. 1, NEW d \in 0 .. 7
  PROVE  Flo!PlaceOf(16 * a + 8 * b + d) = [c |-> a, h |-> b, r |-> d + 1]
<1> DEFINE n == 16 * a + 8 * b + d
<1>1. n \div 16 = a
  BY SMT
<1>2. n \div 8 = 2 * a + b
  BY SMT
<1>3. (2 * a + b) % 2 = b
  BY SMT
<1>4. n % 8 = d
  BY SMT
<1>5. QED BY <1>1, <1>2, <1>3, <1>4 DEF Flo!PlaceOf

LEMMA FollowingIs ==
  ASSUME NEW a \in Nat, NEW b \in 0 .. 1, NEW e \in 1 .. 8
  PROVE  Flo!Following([c |-> a, h |-> b, r |-> e])
           = IF e < 8 THEN [c |-> a, h |-> b, r |-> e + 1]
             ELSE IF b = 0 THEN [c |-> a, h |-> 1, r |-> 1]
             ELSE [c |-> a + 1, h |-> 0, r |-> 1]
<1> DEFINE p == [c |-> a, h |-> b, r |-> e]
<1>1. p.c = a /\ p.h = b /\ p.r = e
  OBVIOUS
<1>2. /\ [p EXCEPT !.r = e + 1] = [c |-> a, h |-> b, r |-> e + 1]
      /\ [p EXCEPT !.r = 1, !.h = 1] = [c |-> a, h |-> 1, r |-> 1]
      /\ [p EXCEPT !.r = 1, !.h = 0, !.c = a + 1] = [c |-> a + 1, h |-> 0, r |-> 1]
  <2>1. [[p EXCEPT !.r = 1] EXCEPT !.h = 1] = [c |-> a, h |-> 1, r |-> 1]
    <3>1. [p EXCEPT !.r = 1] = [c |-> a, h |-> b, r |-> 1]
      OBVIOUS
    <3>2. [[c |-> a, h |-> b, r |-> 1] EXCEPT !.h = 1] = [c |-> a, h |-> 1, r |-> 1]
      OBVIOUS
    <3> HIDE DEF p
    <3>3. QED BY <3>1, <3>2, Zenon
  <2>2. [[[p EXCEPT !.r = 1] EXCEPT !.h = 0] EXCEPT !.c = a + 1]
          = [c |-> a + 1, h |-> 0, r |-> 1]
    <3>1. [p EXCEPT !.r = 1] = [c |-> a, h |-> b, r |-> 1]
      OBVIOUS
    <3>2. [[c |-> a, h |-> b, r |-> 1] EXCEPT !.h = 0] = [c |-> a, h |-> 0, r |-> 1]
      OBVIOUS
    <3>3. [[c |-> a, h |-> 0, r |-> 1] EXCEPT !.c = a + 1] = [c |-> a + 1, h |-> 0, r |-> 1]
      OBVIOUS
    <3> HIDE DEF p
    <3>4. QED BY <3>1, <3>2, <3>3, Zenon
  <2>3. [p EXCEPT !.r = e + 1] = [c |-> a, h |-> b, r |-> e + 1]
    OBVIOUS
  <2> HIDE DEF p
  <2>4. QED BY <2>1, <2>2, <2>3, Zenon
<1> HIDE DEF p
<1>3. CASE e < 8
  <2>1. Flo!Following(p) = [p EXCEPT !.r = e + 1]
    BY <1>1, <1>3, SMT DEF Flo!Following
  <2>2. QED BY <1>2, <1>3, <2>1, Zenon DEF p
<1>4. CASE ~(e < 8) /\ b = 0
  <2>1. Flo!Following(p) = [p EXCEPT !.r = 1, !.h = 1]
    BY <1>1, <1>4, SMT DEF Flo!Following
  <2>2. QED BY <1>2, <1>4, <2>1, Zenon DEF p
<1>5. CASE ~(e < 8) /\ b # 0
  <2>1. Flo!Following(p) = [p EXCEPT !.r = 1, !.h = 0, !.c = a + 1]
    BY <1>1, <1>5, SMT DEF Flo!Following
  <2>2. QED BY <1>2, <1>5, <2>1, Zenon DEF p
<1>6. QED BY <1>3, <1>4, <1>5

(* The record after a record is the next in the image.                     *)
LEMMA NextPlace ==
  ASSUME NEW n \in Nat
  PROVE  Flo!PlaceOf(n + 1) = Flo!Following(Flo!PlaceOf(n))
<1> DEFINE a == n \div 16
           b == (n \div 8) % 2
           d == n % 8
<1>1. a \in Nat /\ b \in 0 .. 1 /\ d \in 0 .. 7 /\ n = 16 * a + 8 * b + d
  BY SMT
<1> HIDE DEF a, b, d
<1>2. Flo!PlaceOf(n) = [c |-> a, h |-> b, r |-> d + 1]
  <2>1. Flo!PlaceOf(16 * a + 8 * b + d) = [c |-> a, h |-> b, r |-> d + 1]
    BY <1>1, PlaceIs16
  <2>2. QED BY <1>1, <2>1, Zenon
<1>3. CASE d < 7
  <2>1. PICK e \in 0 .. 7 : e = d + 1 /\ n + 1 = 16 * a + 8 * b + e /\ n + 1 \in Nat
    BY <1>1, <1>3
  <2>2. Flo!PlaceOf(n + 1) = [c |-> a, h |-> b, r |-> (d + 1) + 1]
    <3>1. Flo!PlaceOf(16 * a + 8 * b + e) = [c |-> a, h |-> b, r |-> e + 1]
      BY <1>1, <2>1, PlaceIs16
    <3>2. QED BY <2>1, <3>1, Zenon
  <2>3. d + 1 < 8 /\ d + 1 \in 1 .. 8
    BY <1>1, <1>3
  <2>4. QED BY <1>1, <1>2, <2>2, <2>3, FollowingIs, Zenon
<1>4. CASE d = 7 /\ b = 0
  <2>1. 1 \in 0 .. 1 /\ 0 \in 0 .. 7 /\ n + 1 = 16 * a + 8 * 1 + 0 /\ n + 1 \in Nat
    BY <1>1, <1>4
  <2>2. Flo!PlaceOf(n + 1) = [c |-> a, h |-> 1, r |-> 0 + 1]
    <3>1. Flo!PlaceOf(16 * a + 8 * 1 + 0) = [c |-> a, h |-> 1, r |-> 0 + 1]
      BY <1>1, <2>1, PlaceIs16, Zenon
    <3>2. QED BY <2>1, <3>1, Zenon
  <2>3. ~(d + 1 < 8) /\ d + 1 \in 1 .. 8 /\ 0 + 1 = 1
    BY <1>1, <1>4
  <2>4. QED BY <1>1, <1>2, <1>4, <2>2, <2>3, FollowingIs
<1>5. CASE d = 7 /\ b = 1
  <2>1. /\ a + 1 \in Nat /\ 0 \in 0 .. 1 /\ 0 \in 0 .. 7
        /\ n + 1 = 16 * (a + 1) + 8 * 0 + 0 /\ n + 1 \in Nat
    BY <1>1, <1>5
  <2>2. Flo!PlaceOf(n + 1) = [c |-> a + 1, h |-> 0, r |-> 0 + 1]
    <3>1. Flo!PlaceOf(16 * (a + 1) + 8 * 0 + 0) = [c |-> a + 1, h |-> 0, r |-> 0 + 1]
      BY <2>1, PlaceIs16, Zenon
    <3>2. QED BY <2>1, <3>1, Zenon
  <2>3. ~(d + 1 < 8) /\ d + 1 \in 1 .. 8 /\ 0 + 1 = 1 /\ b # 0
    BY <1>1, <1>5
  <2>4. QED BY <1>1, <1>2, <2>2, <2>3, FollowingIs
<1>6. QED BY <1>1, <1>3, <1>4, <1>5

LEMMA FirstRecord ==
  ASSUME NEW c \in 0 .. 255, NEW h \in 0 .. 1, NEW r \in 1 .. 8
  PROVE  /\ FloppyRecord(c, h, r) \in Nat
         /\ (FloppyRecord(c, h, r) * Kilo) \div Kilo = FloppyRecord(c, h, r)
         /\ Flo!PlaceOf(FloppyRecord(c, h, r)) = [c |-> c, h |-> h, r |-> r]
<1> DEFINE n == FloppyRecord(c, h, r)
<1>1. n \in Nat /\ n = 16 * c + 8 * h + (r - 1)
  BY DEF FloppyRecord
<1> HIDE DEF n
<1>2. (n * Kilo) \div Kilo = n
  BY <1>1, SMT DEF Kilo
<1>3. c \in Nat /\ r - 1 \in 0 .. 7 /\ (r - 1) + 1 = r
  OBVIOUS
<1>4. Flo!PlaceOf(n) = [c |-> c, h |-> h, r |-> (r - 1) + 1]
  <2>1. Flo!PlaceOf(16 * c + 8 * h + (r - 1)) = [c |-> c, h |-> h, r |-> (r - 1) + 1]
    BY <1>3, PlaceIs16, Zenon
  <2>2. QED BY <1>1, <2>1, Zenon
<1>5. QED BY <1>1, <1>2, <1>3, <1>4 DEF n

(* How many records a count of bytes needs.                                *)
Needed(len) == ((len + 1023) % LongWord) \div 1024

LEMMA NeededIs ==
  ASSUME NEW len \in Counts
  PROVE  /\ Needed(len) \in Nat
         /\ len <= LongWord - 1024 => 1024 * Needed(len) \in len .. (len + 1023)
<1>1. LongWord \in Nat /\ LongWord > 1024 /\ len \in Int /\ len >= 0 /\ len < LongWord
  BY MachineAssumption, SMT DEF Flo!FloppyAssumption, Counts
<1> DEFINE m == (len + 1023) % LongWord
<1>2. m \in Nat /\ (len <= LongWord - 1024 => m = len + 1023)
  <2>1. m \in Nat
    BY <1>1, SMT
  <2>2. ASSUME len <= LongWord - 1024 PROVE m = len + 1023
    <3>1. len + 1023 < LongWord /\ len + 1023 >= 0
      BY <1>1, <2>2, SMT
    <3>2. QED BY <1>1, <3>1, SMT
  <2>3. QED BY <2>1, <2>2
<1> HIDE DEF m
<1>3. m \div 1024 \in Nat /\ 1024 * (m \div 1024) <= m /\ m <= 1024 * (m \div 1024) + 1023
  BY <1>2, SMT
<1>4. QED BY <1>1, <1>2, <1>3, SMT DEF Needed, m
-----------------------------------------------------------------------------
(* What a read has brought: records of the unit's image in their order,    *)
(* from the position's on, none behind the image's end.                    *)
Brought(u, n, done, b, end) ==
  /\ b = [i \in 1 .. done |-> <<u, n + i - 1>>]
  /\ done = 0 \/ n + done <= end

ReadIs(d, b, p, res) ==
  \/ b = <<>> /\ ~ (res = Flo!Ok /\ p.k = 9)
  \/ \E u \in 0 .. 1, c \in 0 .. 255, h \in 0 .. 1, r \in 1 .. 8, len \in Counts, done \in Nat :
       /\ p.u = u /\ p.c = c /\ p.h = h /\ p.r = r /\ p.len = len
       /\ Brought(u, FloppyRecord(c, h, r), done, b, d[u])
       /\ res = Flo!Ok => done = Needed(len)

FloppyInv ==
  /\ disks \in [0 .. 1 -> Images \cup {-1}]
  /\ ReadIs(disks, buffer, asked, result)

LEMMA StepRead ==
  ASSUME NEW k \in {8, 9}, NEW u \in Nat, NEW n \in 0 .. 255, NEW c \in 0 .. 255,
         NEW h \in 0 .. 255, NEW r \in 0 .. 255, NEW len \in Counts, FloppyInv,
         Flo!ReadDisk([k |-> k, u |-> u, n |-> n, c |-> c, h |-> h, r |-> r, len |-> len])
  PROVE  FloppyInv'
<1> DEFINE p == [k |-> k, u |-> u, n |-> n, c |-> c, h |-> h, r |-> r, len |-> len]
<1>1. /\ p.k = k /\ p.u = u /\ p.n = n /\ p.c = c /\ p.h = h /\ p.r = r /\ p.len = len
      /\ Flo!ReadDisk(p)
  OBVIOUS
<1> HIDE DEF p
<1>2. asked' = p /\ UNCHANGED disks /\ disks \in [0 .. 1 -> Images \cup {-1}]
  BY <1>1 DEF Flo!ReadDisk, FloppyInv
<1>3. CASE buffer' = <<>> /\ result' # Flo!Ok
  BY <1>2, <1>3, Zenon DEF FloppyInv, ReadIs
<1>4. CASE ~(buffer' = <<>> /\ result' # Flo!Ok)
  <2>1. Flo!NFDS = 2 /\ Flo!NULL = -1
    BY DEF Flo!NFDS, Flo!NULL
  <2>2. Flo!Crash # Flo!Ok /\ Flo!RangeError # Flo!Ok /\ Flo!NoRecord(u) # Flo!Ok
    BY SMT DEF Flo!Crash, Flo!RangeError, Flo!NoRecord, Flo!Ok
  <2>3. /\ ~(p.u >= Flo!NFDS) /\ disks[p.u] # Flo!NULL /\ Flo!OnDisk(p)
        /\ Flo!ImageRead(p, disks[p.u])
    BY <1>1, <1>4, <2>2, Zenon DEF Flo!ReadDisk
  <2>4. u \in 0 .. 1 /\ h \in 0 .. 1 /\ r \in 1 .. 8
    <3>1. u \in 0 .. 1
      BY <1>1, <2>1, <2>3
    <3>2. p.h <= 1 /\ p.r \in 1 .. 8
      BY <2>3 DEF Flo!OnDisk
    <3>3. QED BY <1>1, <3>1, <3>2
  <2>5. disks[u] \in Nat
    <3>1. Images \subseteq Nat
      BY MachineAssumption DEF Flo!FloppyAssumption
    <3>2. disks[u] # -1 /\ disks[u] \in Images \cup {-1}
      BY <1>1, <1>2, <2>1, <2>3, <2>4
    <3>3. QED BY <3>1, <3>2, Zenon
  <2> DEFINE first == FloppyRecord(c, h, r)
             todo == Needed(len)
             left == IF disks[u] > first THEN disks[u] - first ELSE 0
  <2>6. first \in Nat /\ Flo!RecordOffset(p) \div 1024 = first
    <3>1. /\ FloppyRecord(c, h, r) \in Nat
          /\ (FloppyRecord(c, h, r) * Kilo) \div Kilo = FloppyRecord(c, h, r)
      BY <2>4, FirstRecord, Zenon
    <3>2. Flo!RecordOffset(p) = FloppyRecord(c, h, r) * Kilo /\ Kilo = 1024
      BY <1>1 DEF Flo!RecordOffset, FloppyRecord, Kilo
    <3> HIDE DEF first
    <3>3. QED BY <3>1, <3>2 DEF first
  <2>7. todo \in Nat /\ left \in Nat
    BY <2>5, <2>6, NeededIs
  <2>8. PICK done \in 0 .. (IF todo < left THEN todo ELSE left) :
          /\ buffer' = [i \in 1 .. done |-> <<u, first + i - 1>>]
          /\ \/ done = todo /\ result' = Flo!Ok
             \/ done < todo /\ done = left /\ result' = Flo!Short
             \/ done < todo /\ result' = Flo!HostError
    BY <1>1, <2>3, <2>6 DEF Flo!ImageRead, Needed
  <2>9. done \in Nat /\ (done = 0 \/ first + done <= disks[u])
    BY <2>5, <2>6, <2>7, <2>8
  <2>10. result' = Flo!Ok => done = Needed(len)
    BY <2>8, SMT DEF Flo!Ok, Flo!Short, Flo!HostError
  <2>11. Brought(u, FloppyRecord(c, h, r), done, buffer', disks[u])
    BY <2>8, <2>9 DEF Brought
  <2>12. /\ asked'.u = u /\ asked'.c = c /\ asked'.h = h /\ asked'.r = r /\ asked'.len = len
         /\ Brought(u, FloppyRecord(c, h, r), done, buffer', disks'[u])
    BY <1>1, <1>2, <2>11, Zenon
  <2>13. ReadIs(disks', buffer', asked', result')
    BY <2>4, <2>9, <2>10, <2>12, Zenon DEF ReadIs
  <2>14. QED BY <1>2, <2>13, Zenon DEF FloppyInv
<1>5. QED BY <1>3, <1>4

LEMMA StepFloppy ==
  ASSUME FloppyInv, Flo!Next
  PROVE  FloppyInv'
<1>1. ASSUME NEW d0x, Flo!Answer(d0x) PROVE FloppyInv'
  <2>1. asked' = Flo!Nothing /\ buffer' = <<>> /\ UNCHANGED disks
    BY <1>1 DEF Flo!Answer
  <2>2. Flo!Nothing.k # 9
    BY DEF Flo!Nothing
  <2>3. QED BY <2>1, <2>2, Zenon DEF FloppyInv, ReadIs
<1>2. CASE Flo!GoOn
  <2>1. asked' = Flo!Nothing /\ buffer' = <<>> /\ UNCHANGED disks
    BY <1>2 DEF Flo!GoOn
  <2>2. Flo!Nothing.k # 9
    BY DEF Flo!Nothing
  <2>3. QED BY <2>1, <2>2, Zenon DEF FloppyInv, ReadIs
<1>3. CASE Flo!BRead
  <2>1. PICK k \in {8, 9}, u \in 0 .. Flo!NFDS, n \in Sizes, c \in Cylinders, h \in Heads,
             r \in Records, len \in ByteCounts :
          Flo!ReadDisk([k |-> k, u |-> u, n |-> n, c |-> c, h |-> h, r |-> r, len |-> len])
    BY <1>3, Zenon DEF Flo!BRead
  <2>2. u \in Nat
    BY DEF Flo!NFDS
  <2>3. n \in 0 .. 255 /\ c \in 0 .. 255 /\ h \in 0 .. 255 /\ r \in 0 .. 255
    <3>1. \A s \in {Cylinders, Heads, Records, Sizes} : s \subseteq 0 .. 255
      BY MachineAssumption DEF Flo!FloppyAssumption
    <3>2. /\ Cylinders \subseteq 0 .. 255 /\ Heads \subseteq 0 .. 255
          /\ Records \subseteq 0 .. 255 /\ Sizes \subseteq 0 .. 255
      BY <3>1, Zenon
    <3>3. QED BY <3>2, Zenon
  <2>4. len \in Counts
    BY MachineAssumption, SMT DEF Flo!FloppyAssumption, Counts
  <2>5. QED BY <2>1, <2>2, <2>3, <2>4, StepRead, Zenon
<1>4. CASE Flo!Boot
  <2>1. Flo!ReadDisk([k |-> 9, u |-> 0, n |-> 3, c |-> 0, h |-> 0, r |-> 1, len |-> Kilo])
    BY <1>4, SMT DEF Flo!Boot, Kilo
  <2>2. Kilo \in Counts
    BY MachineAssumption, SMT DEF Flo!FloppyAssumption, Counts, Kilo
  <2>3. 9 \in {8, 9} /\ 0 \in Nat /\ 3 \in 0 .. 255 /\ 0 \in 0 .. 255 /\ 1 \in 0 .. 255
    OBVIOUS
  <2>4. QED BY <2>1, <2>2, <2>3, StepRead
<1>5. CASE Flo!BDrvchk \/ Flo!BEject \/ Flo!BReady \/ Flo!BWrite
  BY <1>1, <1>5, Zenon DEF Flo!BDrvchk, Flo!BEject, Flo!BReady, Flo!BWrite
<1>6. QED BY <1>2, <1>3, <1>4, <1>5 DEF Flo!Next

LEMMA FloppyReads ==
  ASSUME FloppyInv
  PROVE  Flo!ReadsRecords
<1>1. CASE buffer = <<>> /\ ~ (result = Flo!Ok /\ asked.k = 9)
  BY <1>1 DEF Flo!ReadsRecords
<1>2. ASSUME NEW u \in 0 .. 1, NEW c \in 0 .. 255, NEW h \in 0 .. 1, NEW r \in 1 .. 8,
             NEW len \in Counts, NEW done \in Nat,
             asked.u = u, asked.c = c, asked.h = h, asked.r = r, asked.len = len,
             Brought(u, FloppyRecord(c, h, r), done, buffer, disks[u]),
             result = Flo!Ok => done = Needed(len)
      PROVE  Flo!ReadsRecords
  <2> DEFINE n == FloppyRecord(c, h, r)
  <2>1. n \in Nat /\ Flo!PlaceOf(n) = [c |-> c, h |-> h, r |-> r]
    BY FirstRecord, Zenon
  <2> HIDE DEF n
  <2>2. buffer = [i \in 1 .. done |-> <<u, n + i - 1>>] /\ (done = 0 \/ n + done <= disks[u])
    BY <1>2 DEF Brought, n
  <2>3. Len(buffer) = done
    BY <2>2
  <2>4. \A i \in 1 .. done : buffer[i][1] = u /\ buffer[i][2] = n + i - 1
    BY <2>2
  <2>5. ASSUME NEW i \in 1 .. Len(buffer)
        PROVE  /\ buffer[i][1] = asked.u
               /\ Flo!PlaceOf(buffer[i][2])
                    = IF i = 1 THEN [c |-> asked.c, h |-> asked.h, r |-> asked.r]
                      ELSE Flo!Following(Flo!PlaceOf(buffer[i - 1][2]))
               /\ buffer[i][2] < disks[buffer[i][1]]
    <3>1. i \in 1 .. done /\ buffer[i][1] = u /\ buffer[i][2] = n + i - 1
      BY <2>3, <2>4, <2>5
    <3>2. buffer[i][2] < disks[buffer[i][1]]
      <4>1. disks[u] \in Int
        <5>1. Images \subseteq Nat
          BY MachineAssumption DEF Flo!FloppyAssumption
        <5>2. disks[u] \in Images \cup {-1}
          BY DEF FloppyInv
        <5>3. disks[u] \in Nat \/ disks[u] = -1
          BY <5>1, <5>2, Zenon
        <5>4. QED BY <5>3
      <4>2. QED BY <2>1, <2>2, <3>1, <4>1
    <3>3. CASE i = 1
      <4>1. buffer[i][2] = n
        BY <2>1, <3>1, <3>3
      <4>2. QED BY <1>2, <2>1, <3>1, <3>2, <3>3, <4>1, Zenon
    <3>4. CASE i # 1
      <4>1. i - 1 \in 1 .. done /\ n + i - 2 \in Nat /\ n + (i - 1) - 1 = n + i - 2
            /\ (n + i - 2) + 1 = n + i - 1
        BY <2>1, <3>1, <3>4
      <4>2. buffer[i - 1][2] = n + i - 2
        BY <2>4, <4>1
      <4>3. Flo!PlaceOf((n + i - 2) + 1) = Flo!Following(Flo!PlaceOf(n + i - 2))
        BY <4>1, NextPlace, Zenon
      <4>4. QED BY <1>2, <3>1, <3>2, <3>4, <4>1, <4>2, <4>3, Zenon
    <3>5. QED BY <3>3, <3>4
  <2>6. ASSUME result = Flo!Ok, asked.len <= LongWord - 1024
        PROVE  1024 * Len(buffer) \in asked.len .. (asked.len + 1023)
    BY <1>2, <2>3, <2>6, NeededIs, SMT
  <2>7. \A i \in 1 .. Len(buffer) :
          /\ buffer[i][1] = asked.u
          /\ Flo!PlaceOf(buffer[i][2])
               = IF i = 1 THEN [c |-> asked.c, h |-> asked.h, r |-> asked.r]
                 ELSE Flo!Following(Flo!PlaceOf(buffer[i - 1][2]))
    BY <2>5, Zenon
  <2>8. \A i \in 1 .. Len(buffer) : buffer[i][2] < disks[buffer[i][1]]
    BY <2>5, Zenon
  <2>9. QED BY <2>6, <2>7, <2>8, SMT DEF Flo!ReadsRecords
<1>3. QED BY <1>1, <1>2, Zenon DEF FloppyInv, ReadIs

LEMMA InitFloppy == Flo!Init => FloppyInv
<1>1. Flo!Init => asked.k # 9
  BY DEF Flo!Init, Flo!Fresh, Flo!Nothing
<1>2. Flo!NFDS - 1 = 1 /\ Flo!NULL = -1
  BY DEF Flo!NFDS, Flo!NULL
<1>3. Flo!Init => buffer = <<>> /\ disks \in [0 .. 1 -> Images \cup {-1}]
  BY <1>2 DEF Flo!Init
<1>4. QED BY <1>1, <1>3, Zenon DEF FloppyInv, ReadIs

LEMMA KeepsFloppy ==
  ASSUME FloppyInv, Flo!Next \/ UNCHANGED flov
  PROVE  FloppyInv'
<1>1. CASE UNCHANGED flov
  <2>1. disks' = disks /\ buffer' = buffer /\ asked' = asked /\ result' = result
    BY <1>1 DEF flov
  <2>2. QED BY <2>1, Zenon DEF FloppyInv
<1>2. QED BY <1>1, StepFloppy

(* A disk call's records are those that follow each other on the medium,   *)
(* whatever images, positions and counts of bytes there are.               *)
THEOREM ReadsAreContiguous == MachineSpec => []ReadsRecords
<1> DEFINE I == part = "floppy" => FloppyInv
<1>1. MachineInit => I
  BY InitFloppy DEF MachineInit
<1>2. I /\ [MachineNext]_machineVars => I'
  BY KeepsFloppy, OthersLeaveAlone
<1>3. I => ReadsRecords
  BY FloppyReads DEF ReadsRecords
<1>4. QED BY <1>1, <1>2, <1>3, PTL DEF MachineSpec
-----------------------------------------------------------------------------
(* Calls and their returns.                                                *)

(* Whatever the state is, a processor's registers hold both stack pointers. *)
SuperSp(r) == IF r.sup THEN r.a7 ELSE r.ssp
UserSp(r) == IF r.sup THEN r.usp ELSE r.a7

Lowest(n) == Top - 7 * n
Highest == Top + SuperTop

Junk == <<"junk", 0>>
Codes == Sup!Program \X {0, 2}
Cell == Codes \cup ({"sr"} \X {0, 1}) \cup {Junk, Sup!RomVector, Sup!Sentinel}

Places == (Sup!Program \cup {"vector", "call", "sentinel", "junk", "sr"}) \X Int
Registers == [sup : BOOLEAN, a7 : Int, usp : Int, ssp : Int, pc : Places, d0 : Int]
Call == [kind : {"trap", "iocs", "super", "jsr"}, regs : Registers]

(* Both stack pointers are where n open calls can have taken them.         *)
Within(r, n) ==
  /\ r \in Registers
  /\ SuperSp(r) >= Lowest(n) /\ SuperSp(r) <= Highest
  /\ UserSp(r) >= Lowest(n) /\ UserSp(r) <= Highest

(* No action is taken at such a place.                                     *)
Stuck(pc) == pc[1] \notin Sup!Program \cup {"vector", "call", "sentinel"}

(* Nothing is stored so high that the return that reads it would leave the *)
(* stacks.                                                                 *)
Cells(m) ==
  /\ m \in [0 .. Highest + 3 -> Cell]
  /\ \A a \in 0 .. Highest + 3 : m[a] # Junk => a <= Highest - 2

IsCall(c, n) ==
  /\ c \in Call /\ Within(c.regs, n) /\ c.regs.pc \in Codes
  /\ c.kind = "super" => c.regs.sup = FALSE /\ c.regs.d0 = SuperSp(c.regs)

LastKind(cs) == IF cs = <<>> THEN "none" ELSE cs[Len(cs)].kind

Where(pc, top) ==
  \/ pc \in Codes
  \/ pc = Sup!RomVector /\ top \in {"trap", "iocs", "jsr"}
  \/ pc = Sup!RomCall(0) /\ top = "iocs"
  \/ pc = Sup!Sentinel /\ top = "jsr"

(* The supervisor's stack pointer when the call has been made.             *)
Inner(c) ==
  IF c.kind = "super" THEN UserSp(c.regs)
  ELSE SuperSp(c.regs) - (IF c.kind = "iocs" THEN 5 ELSE 3)

(* What the call has pushed; an IOCS handler's RTS takes two words of it.  *)
Framed(m, c) ==
  c.kind # "super" =>
    m[SuperSp(c.regs) - 3] = Sup!Sr(c.regs) /\ m[SuperSp(c.regs) - 2] = c.regs.pc
ReturnsToRom(m, c) == c.kind = "iocs" => m[SuperSp(c.regs) - 5] = Sup!RomVector

(* The registers r have been the call's, and n words were popped since.    *)
Linked(c, r, n) ==
  r.sup = TRUE /\ UserSp(r) = UserSp(c.regs) /\ SuperSp(r) = Inner(c) + n

Popped(pc, c) == c.kind = "iocs" /\ pc = Sup!RomVector

(* No _SUPER_JSR has been called since: they do not return.                *)
Solid(cs, i) == \A k \in i .. Len(cs) : cs[k].kind # "jsr"

AtTop(m, r, c) ==
  /\ Linked(c, r, IF Popped(r.pc, c) THEN 2 ELSE 0)
  /\ Popped(r.pc, c) \/ ReturnsToRom(m, c)

Below(m, cs, i) ==
  /\ i < Len(cs) => Linked(cs[i], cs[i + 1].regs, 0) /\ ReturnsToRom(m, cs[i])
  /\ Framed(m, cs[i])
  /\ \A k \in i + 1 .. Len(cs) : SuperSp(cs[k].regs) <= Inner(cs[i])

Balanced(m, r, cs) ==
  /\ Cells(m)
  /\ cs \in Seq(Call) /\ Len(cs) <= MaxCalls
  /\ Within(r, Len(cs)) /\ Where(r.pc, LastKind(cs))
  /\ \A i \in 1 .. Len(cs) : IsCall(cs[i], i - 1)
  /\ \A i \in 1 .. Len(cs) : Solid(cs, i) => Below(m, cs, i)
  /\ cs # <<>> /\ Solid(cs, Len(cs)) => AtTop(m, r, cs[Len(cs)])
-----------------------------------------------------------------------------
LEMMA SupervisorSizes ==
  /\ Top \in Nat /\ SuperTop \in Nat /\ MaxCalls \in Nat
  /\ Top > 7 * (MaxCalls + 1)
BY MachineAssumption DEF Sup!SupervisorAssumption

LEMMA AppendIs ==
  ASSUME NEW cs \in Seq(Call), NEW c \in Call
  PROVE  /\ Append(cs, c) \in Seq(Call) /\ Len(Append(cs, c)) = Len(cs) + 1
         /\ Len(cs) \in Nat /\ Append(cs, c) # <<>>
         /\ Append(cs, c)[Len(cs) + 1] = c
         /\ \A i \in 1 .. Len(cs) : Append(cs, c)[i] = cs[i]
OBVIOUS

LEMMA FrontIs ==
  ASSUME NEW cs \in Seq(Call), cs # <<>>
  PROVE  /\ Len(cs) \in Nat /\ Len(cs) >= 1 /\ Len(cs) \in 1 .. Len(cs)
         /\ SubSeq(cs, 1, Len(cs) - 1) \in Seq(Call)
         /\ Len(SubSeq(cs, 1, Len(cs) - 1)) = Len(cs) - 1
         /\ \A i \in 1 .. Len(cs) - 1 : SubSeq(cs, 1, Len(cs) - 1)[i] = cs[i]
<1>1. Len(cs) \in Nat /\ Len(cs) >= 1 /\ Len(cs) \in 1 .. Len(cs)
  OBVIOUS
<1> DEFINE n == Len(cs) - 1
<1>2. n \in Nat /\ n <= Len(cs)
  BY <1>1
<1>3. /\ SubSeq(cs, 1, n) \in Seq(Call) /\ Len(SubSeq(cs, 1, n)) = n
      /\ \A i \in 1 .. n : SubSeq(cs, 1, n)[i] = cs[i]
  <2> HIDE DEF n
  <2>1. QED BY <1>1, <1>2
<1>4. QED BY <1>1, <1>3

LEMMA PointersAreInt ==
  ASSUME NEW r \in Registers
  PROVE  SuperSp(r) \in Int /\ UserSp(r) \in Int /\ r.sup \in BOOLEAN
BY DEF Registers, SuperSp, UserSp

(* set_supervisor_state keeps both stack pointers, wherever they are.      *)
LEMMA SetStateIs ==
  ASSUME NEW r \in Registers, NEW s \in BOOLEAN
  PROVE  /\ Sup!SetState(r, s) \in Registers
         /\ Sup!SetState(r, s).sup = s
         /\ Sup!SetState(r, s).pc = r.pc /\ Sup!SetState(r, s).d0 = r.d0
         /\ SuperSp(Sup!SetState(r, s)) = SuperSp(r)
         /\ UserSp(Sup!SetState(r, s)) = UserSp(r)
<1>1. CASE s = r.sup
  BY <1>1 DEF Sup!SetState
<1>2. CASE s # r.sup /\ s
  BY <1>2 DEF Sup!SetState, Registers, SuperSp, UserSp
<1>3. CASE s # r.sup /\ ~s
  BY <1>3 DEF Sup!SetState, Registers, SuperSp, UserSp
<1>4. QED BY <1>1, <1>2, <1>3

(* Two registers that a program cannot tell apart.                         *)
LEMMA SeenIs ==
  ASSUME NEW r \in Registers, NEW c \in Registers, r.sup = c.sup, r.pc = c.pc,
         SuperSp(r) = SuperSp(c), UserSp(r) = UserSp(c)
  PROVE  Sup!Seen(r) = Sup!Seen(c)
<1>1. r.sup \in BOOLEAN
  BY DEF Registers
<1>2. CASE r.sup
  BY <1>2 DEF SuperSp, UserSp, Sup!Seen
<1>3. CASE ~r.sup
  BY <1>3 DEF SuperSp, UserSp, Sup!Seen
<1>4. QED BY <1>1, <1>2, <1>3

LEMMA InnerIs ==
  ASSUME NEW c \in Call
  PROVE  /\ Inner(c) \in Int /\ c.regs \in Registers /\ SuperSp(c.regs) \in Int
         /\ UserSp(c.regs) \in Int
         /\ c.kind = "super" => Inner(c) = UserSp(c.regs)
         /\ c.kind = "iocs" => Inner(c) = SuperSp(c.regs) - 5
         /\ c.kind \in {"trap", "jsr"} => Inner(c) = SuperSp(c.regs) - 3
<1>1. c.regs \in Registers
  BY DEF Call
<1>2. SuperSp(c.regs) \in Int /\ UserSp(c.regs) \in Int
  BY <1>1, PointersAreInt
<1>3. QED BY <1>1, <1>2 DEF Inner

(* In the middle of calls the supervisor's stack goes down only.           *)
LEMMA StackIsBelow ==
  ASSUME NEW m, NEW r, NEW cs, Balanced(m, r, cs),
         NEW i \in 1 .. Len(cs), Solid(cs, i)
  PROVE  /\ r.sup = TRUE /\ Solid(cs, Len(cs)) /\ cs # <<>> /\ cs[Len(cs)].kind # "jsr"
         /\ Linked(cs[Len(cs)], r, IF Popped(r.pc, cs[Len(cs)]) THEN 2 ELSE 0)
         /\ Inner(cs[Len(cs)]) <= Inner(cs[i])
         /\ i < Len(cs) => cs[Len(cs)].kind # "super"
<1> DEFINE n == Len(cs)
<1>1. n \in Nat /\ n >= 1 /\ i \in 1 .. n /\ cs \in Seq(Call) /\ cs # <<>>
  BY DEF Balanced
<1>2. Solid(cs, n) /\ cs[n].kind # "jsr"
  BY <1>1 DEF Solid
<1>3. Linked(cs[n], r, IF Popped(r.pc, cs[n]) THEN 2 ELSE 0) /\ r.sup = TRUE
  BY <1>1, <1>2 DEF Balanced, AtTop, Linked
<1>4. ASSUME i < n PROVE cs[n].kind # "super" /\ Inner(cs[n]) <= Inner(cs[i])
  <2>1. n - 1 \in 1 .. n /\ Solid(cs, n - 1) /\ n - 1 < n /\ (n - 1) + 1 = n
    BY <1>1, <1>4 DEF Solid
  <2>2. Linked(cs[n - 1], cs[n].regs, 0)
    BY <2>1 DEF Balanced, Below
  <2>3. cs[n].kind # "super"
    BY <2>2, <1>1 DEF Linked, Balanced, IsCall
  <2>4. n \in i + 1 .. n
    BY <1>1, <1>4
  <2>5. SuperSp(cs[n].regs) <= Inner(cs[i])
    BY <2>4 DEF Balanced, Below
  <2>6. cs[n].regs \in Registers /\ cs[i] \in Call
    BY <1>1 DEF Balanced, IsCall, Within
  <2>7. SuperSp(cs[n].regs) \in Int /\ Inner(cs[i]) \in Int
    BY <2>6, PointersAreInt DEF Inner, Call
  <2>8. Inner(cs[n]) <= SuperSp(cs[n].regs)
    BY <2>3, <2>7 DEF Inner
  <2>9. cs[n] \in Call /\ Inner(cs[n]) \in Int
    BY <1>1, InnerIs
  <2>10. QED BY <2>3, <2>5, <2>7, <2>8, <2>9
<1>5. Inner(cs[n]) \in Int
  <2>1. cs[n] \in Call
    BY <1>1
  <2>2. QED BY <2>1, InnerIs
<1>6. CASE i = n
  <2>1. Inner(cs[n]) <= Inner(cs[i])
    BY <1>5, <1>6
  <2>2. QED BY <1>1, <1>2, <1>3, <1>6, <2>1
<1>7. i < n \/ (i = n /\ ~(i < n))
  BY <1>1
<1>8. QED BY <1>1, <1>2, <1>3, <1>4, <1>6, <1>7, Zenon

LEMMA CodesAreNot ==
  /\ Sup!RomVector \notin Codes /\ Sup!Sentinel \notin Codes
  /\ \A n : Sup!RomCall(n) \notin Codes /\ Sup!RomCall(n) # Sup!RomVector /\ Sup!RomCall(n) # Sup!Sentinel
  /\ Sup!RomVector # Sup!Sentinel
BY DEF Codes, Sup!RomVector, Sup!Sentinel, Sup!RomCall, Sup!Program, Sup!Vectors

(* While the program runs, the call on top has all of its frame.           *)
LEMMA RunningIs ==
  ASSUME NEW m, NEW r, NEW cs, Balanced(m, r, cs), r.pc[1] \in Sup!Program
  PROVE  r.pc \in Codes /\ ~ \E c : Popped(r.pc, c)
<1>1. r.pc \in Codes
  BY DEF Balanced, Where, Sup!RomVector, Sup!Sentinel, Sup!RomCall, Sup!Program, Sup!Vectors
<1>2. QED BY <1>1, CodesAreNot DEF Popped

(* A step that changes neither the state nor the stacks.                   *)
LEMMA QuietKeeps ==
  ASSUME NEW m, NEW r, NEW cs, Balanced(m, r, cs), r.pc \in Codes,
         NEW r2 \in Registers, r2.sup = r.sup, SuperSp(r2) = SuperSp(r), UserSp(r2) = UserSp(r),
         Where(r2.pc, LastKind(cs)), r2.pc # Sup!RomVector
  PROVE  Balanced(m, r2, cs)
<1>1. Within(r2, Len(cs))
  BY DEF Balanced, Within
<1>2. ASSUME cs # <<>>, Solid(cs, Len(cs)) PROVE AtTop(m, r2, cs[Len(cs)])
  <2>1. AtTop(m, r, cs[Len(cs)])
    BY <1>2 DEF Balanced
  <2>2. ~Popped(r.pc, cs[Len(cs)]) /\ ~Popped(r2.pc, cs[Len(cs)])
    BY CodesAreNot DEF Popped
  <2>3. QED BY <2>1, <2>2 DEF AtTop, Linked
<1>3. QED BY <1>1, <1>2 DEF Balanced

(* A call has been opened.                                                 *)
LEMMA OpenKeeps ==
  ASSUME NEW m, NEW r, NEW cs, Balanced(m, r, cs), r.pc \in Codes, Len(cs) < MaxCalls,
         NEW m2, Cells(m2), \A a \in 0 .. Highest + 3 : a >= SuperSp(r) => m2[a] = m[a],
         NEW c, IsCall(c, Len(cs)), c.regs.sup = r.sup,
         SuperSp(c.regs) = SuperSp(r), UserSp(c.regs) = UserSp(r),
         NEW r2, Within(r2, Len(cs) + 1), Where(r2.pc, c.kind),
         c.kind # "jsr" => Framed(m2, c) /\ AtTop(m2, r2, c)
  PROVE  Balanced(m2, r2, Append(cs, c))
<1> DEFINE n == Len(cs)
           ds == Append(cs, c)
<1>1. /\ n \in Nat /\ cs \in Seq(Call) /\ c \in Call
      /\ ds \in Seq(Call) /\ Len(ds) = n + 1 /\ ds # <<>> /\ ds[n + 1] = c
      /\ \A i \in 1 .. n : ds[i] = cs[i]
  <2>1. cs \in Seq(Call) /\ c \in Call
    BY DEF Balanced, IsCall
  <2>2. QED BY <2>1, AppendIs
<1>2. MaxCalls \in Nat /\ Highest \in Nat
  BY SupervisorSizes DEF Highest
<1> HIDE DEF ds
<1>3. LastKind(ds) = c.kind
  BY <1>1 DEF LastKind
<1>4. \A i \in 1 .. n + 1 : IsCall(ds[i], i - 1)
  <2>1. \A i \in 1 .. n : IsCall(ds[i], i - 1)
    BY <1>1 DEF Balanced
  <2>2. IsCall(ds[n + 1], (n + 1) - 1)
    BY <1>1
  <2>3. QED BY <2>1, <2>2, <1>1
<1>5. \A i \in 1 .. n + 1 : Solid(ds, i) =>
        c.kind # "jsr" /\ (i # n + 1 => i \in 1 .. n /\ Solid(cs, i))
  <2>1. TAKE i \in 1 .. n + 1
  <2>2. HAVE Solid(ds, i)
  <2>3. n + 1 \in i .. n + 1
    BY <1>1
  <2>4. c.kind # "jsr"
    BY <1>1, <2>2, <2>3 DEF Solid
  <2>5. ASSUME i # n + 1 PROVE i \in 1 .. n /\ Solid(cs, i)
    <3>1. i \in 1 .. n
      BY <1>1, <2>5
    <3>2. \A k \in i .. n : k \in i .. n + 1 /\ ds[k] = cs[k]
      BY <1>1, <3>1
    <3>3. QED BY <1>1, <2>2, <3>1, <3>2 DEF Solid
  <2>6. QED BY <2>4, <2>5
<1>6. ASSUME NEW i \in 1 .. n, Solid(cs, i), c.kind # "jsr" PROVE Below(m2, ds, i)
  <2>1. /\ r.sup = TRUE /\ Solid(cs, n) /\ cs # <<>>
        /\ Linked(cs[n], r, IF Popped(r.pc, cs[n]) THEN 2 ELSE 0)
        /\ Inner(cs[n]) <= Inner(cs[i])
    BY <1>6, StackIsBelow
  <2>2. ~Popped(r.pc, cs[n])
    BY CodesAreNot DEF Popped
  <2>3. cs[n] \in Call /\ cs[i] \in Call /\ ds[i] = cs[i]
    BY <1>1, <1>6
  <2>4. Linked(cs[n], r, 0) /\ SuperSp(r) = Inner(cs[n])
    <3>1. Linked(cs[n], r, 0)
      BY <2>1, <2>2
    <3>2. Inner(cs[n]) \in Int
      BY <2>3, InnerIs
    <3>3. QED BY <3>1, <3>2 DEF Linked
  <2>5. SuperSp(r) <= Inner(cs[i])
    BY <2>1, <2>4
  <2>6. Below(m, cs, i) /\ IsCall(cs[i], i - 1)
    BY <1>6 DEF Balanced
  <2>7. ReturnsToRom(m, cs[i])
    <3>1. CASE i < n
      BY <2>6, <3>1 DEF Below
    <3>2. CASE i = n
      BY <2>1, <2>2, <3>2 DEF Balanced, AtTop
    <3>3. QED BY <3>1, <3>2, <1>1
  <2>8. Framed(m2, cs[i]) /\ ReturnsToRom(m2, cs[i])
    <3>1. SuperSp(cs[i].regs) \in Int /\ SuperSp(cs[i].regs) <= Highest /\ SuperSp(r) >= 0 /\ SuperSp(r) \in Int
      <4>1. SuperSp(cs[i].regs) <= Highest /\ Within(r, n) /\ r \in Registers
        BY <2>6 DEF IsCall, Within, Balanced
      <4>2. SuperSp(r) >= Lowest(n) /\ n < MaxCalls
        BY <4>1 DEF Within
      <4>3. Lowest(n) >= 0
        BY <4>2, SupervisorSizes, <1>1 DEF Lowest
      <4>4. SuperSp(cs[i].regs) \in Int /\ SuperSp(r) \in Int /\ Lowest(n) \in Int
        <5>1. SuperSp(cs[i].regs) \in Int /\ SuperSp(r) \in Int
          BY <4>1, <2>3, InnerIs, PointersAreInt, Zenon
        <5>2. Lowest(n) \in Int
          BY SupervisorSizes, <1>1 DEF Lowest
        <5>3. QED BY <5>1, <5>2
      <4>5. QED BY <4>1, <4>2, <4>3, <4>4
    <3>2. CASE cs[i].kind = "super"
      BY <3>2 DEF Framed, ReturnsToRom
    <3>3. CASE cs[i].kind # "super"
      <4>1. Inner(cs[i]) = SuperSp(cs[i].regs) - (IF cs[i].kind = "iocs" THEN 5 ELSE 3)
        BY <3>3 DEF Inner
      <4>2. /\ SuperSp(cs[i].regs) - 3 \in 0 .. Highest + 3 /\ SuperSp(cs[i].regs) - 3 >= SuperSp(r)
            /\ SuperSp(cs[i].regs) - 2 \in 0 .. Highest + 3 /\ SuperSp(cs[i].regs) - 2 >= SuperSp(r)
            /\ cs[i].kind = "iocs" => SuperSp(cs[i].regs) - 5 \in 0 .. Highest + 3
                                       /\ SuperSp(cs[i].regs) - 5 >= SuperSp(r)
        BY <4>1, <3>1, <2>5, <1>2
      <4>3. m2[SuperSp(cs[i].regs) - 3] = m[SuperSp(cs[i].regs) - 3]
        BY <4>2
      <4>4. m2[SuperSp(cs[i].regs) - 2] = m[SuperSp(cs[i].regs) - 2]
        BY <4>2
      <4>5. cs[i].kind = "iocs" => m2[SuperSp(cs[i].regs) - 5] = m[SuperSp(cs[i].regs) - 5]
        BY <4>2
      <4>6. Framed(m, cs[i])
        BY <2>6 DEF Below
      <4>7. QED BY <4>3, <4>4, <4>5, <4>6, <2>7 DEF Framed, ReturnsToRom
    <3>4. QED BY <3>2, <3>3
  <2>9. Linked(ds[i], ds[i + 1].regs, 0)
    <3>1. CASE i < n
      <4>1. ds[i + 1] = cs[i + 1] /\ Linked(cs[i], cs[i + 1].regs, 0)
        BY <3>1, <1>1, <2>6 DEF Below
      <4>2. QED BY <4>1, <2>3
    <3>2. CASE i = n
      <4>1. ds[i + 1] = c
        BY <3>2, <1>1
      <4>2. Linked(cs[i], c.regs, 0)
        BY <2>4, <3>2 DEF Linked
      <4>3. QED BY <4>1, <4>2, <2>3
    <3>3. QED BY <3>1, <3>2, <1>1
  <2>10. ASSUME NEW k \in i + 1 .. n + 1 PROVE SuperSp(ds[k].regs) <= Inner(ds[i])
    <3>1. CASE k \in i + 1 .. n
      <4>1. ds[k] = cs[k] /\ SuperSp(cs[k].regs) <= Inner(cs[i])
        BY <3>1, <1>1, <2>6 DEF Below
      <4>2. QED BY <4>1, <2>3
    <3>2. CASE k = n + 1
      BY <3>2, <1>1, <2>3, <2>5
    <3>3. QED BY <3>1, <3>2, <1>1
  <2>11. QED BY <1>1, <2>3, <2>8, <2>9, <2>10 DEF Below
<1>7. c.kind # "jsr" => Below(m2, ds, n + 1) /\ AtTop(m2, r2, ds[n + 1])
  BY <1>1 DEF Below
<1>8. \A i \in 1 .. n + 1 : Solid(ds, i) => Below(m2, ds, i)
  BY <1>5, <1>6, <1>7
<1>9. Solid(ds, n + 1) => AtTop(m2, r2, ds[n + 1])
  <2>1. n + 1 \in 1 .. n + 1
    BY <1>1
  <2>2. QED BY <1>5, <1>7, <2>1
<1>10. n + 1 <= MaxCalls
  BY <1>1, <1>2
<1>11. Balanced(m2, r2, ds)
  <2>1. Len(ds) <= MaxCalls /\ Within(r2, Len(ds)) /\ Where(r2.pc, LastKind(ds))
    BY <1>1, <1>3, <1>10
  <2>2. /\ \A i \in 1 .. Len(ds) : IsCall(ds[i], i - 1)
        /\ \A i \in 1 .. Len(ds) : Solid(ds, i) => Below(m2, ds, i)
        /\ ds # <<>> /\ Solid(ds, Len(ds)) => AtTop(m2, r2, ds[Len(ds)])
    BY <1>1, <1>4, <1>8, <1>9
  <2>3. QED BY <1>1, <2>1, <2>2 DEF Balanced
<1>12. QED BY <1>11 DEF ds

(* The frames of the calls further out are above the innermost call's.     *)
LEMMA OuterIsAbove ==
  ASSUME NEW m, NEW r, NEW cs, Balanced(m, r, cs), NEW i \in 1 .. Len(cs) - 1, Solid(cs, i),
         NEW m2, \A a \in 0 .. Highest + 3 : a >= SuperSp(cs[Len(cs)].regs) => m2[a] = m[a]
  PROVE  /\ Framed(m2, cs[i]) /\ ReturnsToRom(m2, cs[i])
         /\ Linked(cs[i], cs[i + 1].regs, 0)
         /\ \A k \in i + 1 .. Len(cs) : SuperSp(cs[k].regs) <= Inner(cs[i])
<1> DEFINE n == Len(cs)
<1>1. /\ n \in Nat /\ i \in 1 .. n /\ i < n /\ n \in i + 1 .. n /\ n \in 1 .. n
      /\ cs \in Seq(Call) /\ cs[i] \in Call /\ cs[n] \in Call
  BY DEF Balanced
<1>2. /\ Linked(cs[i], cs[i + 1].regs, 0) /\ ReturnsToRom(m, cs[i]) /\ Framed(m, cs[i])
      /\ \A k \in i + 1 .. n : SuperSp(cs[k].regs) <= Inner(cs[i])
  BY <1>1 DEF Balanced, Below
<1>3. SuperSp(cs[n].regs) <= Inner(cs[i])
  BY <1>1, <1>2
<1>4. IsCall(cs[n], n - 1) /\ IsCall(cs[i], i - 1) /\ n <= MaxCalls
  BY <1>1 DEF Balanced
<1>5. /\ SuperSp(cs[i].regs) \in Int /\ SuperSp(cs[i].regs) <= Highest
      /\ SuperSp(cs[n].regs) \in Int /\ SuperSp(cs[n].regs) >= 0 /\ Highest \in Nat
  <2>1. SuperSp(cs[i].regs) <= Highest /\ SuperSp(cs[n].regs) >= Lowest(n - 1)
    BY <1>4 DEF IsCall, Within
  <2>2. SuperSp(cs[i].regs) \in Int /\ SuperSp(cs[n].regs) \in Int
    BY <1>1, InnerIs, Zenon
  <2>3. Lowest(n - 1) >= 0 /\ Lowest(n - 1) \in Int /\ Highest \in Nat
    BY <1>1, <1>4, SupervisorSizes DEF Lowest, Highest
  <2>4. QED BY <2>1, <2>2, <2>3
<1>6. CASE cs[i].kind = "super"
  BY <1>2, <1>6 DEF Framed, ReturnsToRom
<1>7. CASE cs[i].kind # "super"
  <2>1. Inner(cs[i]) = SuperSp(cs[i].regs) - (IF cs[i].kind = "iocs" THEN 5 ELSE 3)
    BY <1>7 DEF Inner
  <2>2. /\ SuperSp(cs[i].regs) - 3 \in 0 .. Highest + 3 /\ SuperSp(cs[i].regs) - 3 >= SuperSp(cs[n].regs)
        /\ SuperSp(cs[i].regs) - 2 \in 0 .. Highest + 3 /\ SuperSp(cs[i].regs) - 2 >= SuperSp(cs[n].regs)
        /\ cs[i].kind = "iocs" => SuperSp(cs[i].regs) - 5 \in 0 .. Highest + 3
                                   /\ SuperSp(cs[i].regs) - 5 >= SuperSp(cs[n].regs)
    BY <2>1, <1>3, <1>5
  <2>3. m2[SuperSp(cs[i].regs) - 3] = m[SuperSp(cs[i].regs) - 3]
    BY <2>2
  <2>4. m2[SuperSp(cs[i].regs) - 2] = m[SuperSp(cs[i].regs) - 2]
    BY <2>2
  <2>5. cs[i].kind = "iocs" => m2[SuperSp(cs[i].regs) - 5] = m[SuperSp(cs[i].regs) - 5]
    BY <2>2
  <2>6. QED BY <1>2, <2>3, <2>4, <2>5 DEF Framed, ReturnsToRom
<1>8. QED BY <1>2, <1>6, <1>7

(* The innermost call has returned.                                        *)
LEMMA CloseKeeps ==
  ASSUME NEW m, NEW r, NEW cs, Balanced(m, r, cs), cs # <<>>, cs[Len(cs)].kind # "jsr",
         NEW m2, Cells(m2),
         \A a \in 0 .. Highest + 3 : a >= SuperSp(cs[Len(cs)].regs) => m2[a] = m[a],
         NEW r2 \in Registers, r2.sup = cs[Len(cs)].regs.sup, r2.pc \in Codes,
         SuperSp(r2) = SuperSp(cs[Len(cs)].regs), UserSp(r2) = UserSp(cs[Len(cs)].regs)
  PROVE  Balanced(m2, r2, SubSeq(cs, 1, Len(cs) - 1))
<1> DEFINE n == Len(cs)
           ds == SubSeq(cs, 1, n - 1)
<1>1. /\ n \in Nat /\ n >= 1 /\ n \in 1 .. n /\ cs \in Seq(Call)
      /\ ds \in Seq(Call) /\ Len(ds) = n - 1
      /\ \A i \in 1 .. n - 1 : ds[i] = cs[i]
  <2>1. cs \in Seq(Call)
    BY DEF Balanced
  <2>2. QED BY <2>1, FrontIs, Zenon
<1> HIDE DEF ds
<1>2. IsCall(cs[n], n - 1) /\ n <= MaxCalls /\ MaxCalls \in Nat
  BY <1>1, SupervisorSizes DEF Balanced
<1>3. Within(r2, n - 1)
  BY <1>2 DEF IsCall, Within
<1>4. \A i \in 1 .. n - 1 : IsCall(ds[i], i - 1)
  BY <1>1 DEF Balanced
<1>5. ASSUME NEW i \in 1 .. n - 1, Solid(ds, i)
      PROVE  /\ Framed(m2, ds[i]) /\ ReturnsToRom(m2, ds[i])
             /\ Linked(ds[i], cs[i + 1].regs, 0)
             /\ \A k \in i + 1 .. n - 1 : SuperSp(ds[k].regs) <= Inner(ds[i])
  <2>1. \A k \in i .. n : k = n \/ (k \in i .. n - 1 /\ ds[k] = cs[k])
    BY <1>1
  <2>2. Solid(cs, i)
    BY <1>1, <1>5, <2>1 DEF Solid
  <2>3. /\ Framed(m2, cs[i]) /\ ReturnsToRom(m2, cs[i])
        /\ Linked(cs[i], cs[i + 1].regs, 0)
        /\ \A k \in i + 1 .. n : SuperSp(cs[k].regs) <= Inner(cs[i])
    BY <2>2, OuterIsAbove, Zenon
  <2>4. ds[i] = cs[i] /\ \A k \in i + 1 .. n - 1 : k \in i + 1 .. n /\ ds[k] = cs[k]
    BY <1>1
  <2>5. QED BY <2>3, <2>4
<1>6. \A i \in 1 .. n - 1 : Solid(ds, i) => Below(m2, ds, i)
  <2>1. TAKE i \in 1 .. n - 1
  <2>2. HAVE Solid(ds, i)
  <2>3. i < n - 1 => ds[i + 1] = cs[i + 1]
    BY <1>1
  <2>4. QED BY <1>1, <1>5, <2>2, <2>3 DEF Below
<1>7. ASSUME ds # <<>>, Solid(ds, Len(ds)) PROVE AtTop(m2, r2, ds[Len(ds)])
  <2>1. n - 1 \in 1 .. n - 1 /\ (n - 1) + 1 = n
    BY <1>1, <1>7
  <2>2. ReturnsToRom(m2, ds[n - 1]) /\ Linked(ds[n - 1], cs[n].regs, 0)
    BY <2>1, <1>1, <1>5, <1>7
  <2>3. Linked(ds[n - 1], r2, 0)
    BY <2>2 DEF Linked
  <2>4. ~Popped(r2.pc, ds[n - 1])
    BY CodesAreNot DEF Popped
  <2>5. QED BY <1>1, <2>2, <2>3, <2>4 DEF AtTop
<1>8. Where(r2.pc, LastKind(ds))
  BY DEF Where
<1>9. Balanced(m2, r2, ds)
  <2>1. Len(ds) <= MaxCalls /\ Within(r2, Len(ds))
    BY <1>1, <1>2, <1>3
  <2>2. /\ \A i \in 1 .. Len(ds) : IsCall(ds[i], i - 1)
        /\ \A i \in 1 .. Len(ds) : Solid(ds, i) => Below(m2, ds, i)
    BY <1>1, <1>4, <1>6
  <2>3. QED BY <1>1, <1>7, <1>8, <2>1, <2>2 DEF Balanced
<1>10. QED BY <1>9 DEF ds

(* An IOCS handler, or the ROM behind it, returns to the RTE in the ROM.   *)
LEMMA PopKeeps ==
  ASSUME NEW m, NEW r, NEW cs, Balanced(m, r, cs), cs # <<>>, cs[Len(cs)].kind = "iocs",
         ~Popped(r.pc, cs[Len(cs)]),
         NEW m2, Cells(m2),
         \A a \in 0 .. Highest + 3 : a >= SuperSp(r) + 2 => m2[a] = m[a],
         NEW r2 \in Registers, r2.sup = r.sup, r2.pc = Sup!RomVector,
         SuperSp(r2) = SuperSp(r) + 2, UserSp(r2) = UserSp(r)
  PROVE  Balanced(m2, r2, cs)
<1> DEFINE n == Len(cs)
<1>1. /\ n \in Nat /\ n >= 1 /\ n \in 1 .. n /\ cs \in Seq(Call) /\ cs[n] \in Call /\ IsCall(cs[n], n - 1)
  BY DEF Balanced
<1>2. Solid(cs, n)
  BY <1>1 DEF Solid
<1>3. r.sup = TRUE /\ Linked(cs[n], r, 0)
  BY <1>1, <1>2 DEF Balanced, AtTop, Linked
<1>4. /\ SuperSp(cs[n].regs) \in Int /\ Inner(cs[n]) = SuperSp(cs[n].regs) - 5
      /\ SuperSp(cs[n].regs) <= Highest /\ Highest \in Nat
  BY <1>1, InnerIs, SupervisorSizes DEF IsCall, Within, Highest
<1>5. SuperSp(r) = SuperSp(cs[n].regs) - 5 /\ UserSp(r) = UserSp(cs[n].regs)
  <2>1. SuperSp(r) = Inner(cs[n]) + 0
    BY <1>3 DEF Linked
  <2>2. QED BY <1>3, <1>4, <2>1 DEF Linked
<1>6. Within(r, n) /\ SuperSp(r) \in Int /\ UserSp(r) \in Int /\ Lowest(n) \in Int /\ Lowest(n) >= 0
  <2>1. Within(r, n) /\ r \in Registers /\ n <= MaxCalls
    BY DEF Balanced, Within
  <2>2. Lowest(n) \in Int /\ Lowest(n) >= 0
    BY <1>1, <2>1, SupervisorSizes DEF Lowest
  <2>3. QED BY <2>1, <2>2, PointersAreInt
<1>7. Within(r2, n)
  <2>1. SuperSp(r2) >= Lowest(n) /\ SuperSp(r2) <= Highest
    BY <1>4, <1>5, <1>6 DEF Within
  <2>2. UserSp(r2) >= Lowest(n) /\ UserSp(r2) <= Highest
    BY <1>6 DEF Within
  <2>3. QED BY <2>1, <2>2 DEF Within
<1>8. \A a \in 0 .. Highest + 3 : a >= SuperSp(cs[n].regs) => m2[a] = m[a]
  BY <1>4, <1>5
<1>9. Framed(m2, cs[n])
  <2>1. Framed(m, cs[n])
    BY <1>1, <1>2 DEF Balanced, Below
  <2>2. /\ SuperSp(cs[n].regs) - 3 \in 0 .. Highest + 3 /\ SuperSp(cs[n].regs) - 3 >= SuperSp(r) + 2
        /\ SuperSp(cs[n].regs) - 2 \in 0 .. Highest + 3 /\ SuperSp(cs[n].regs) - 2 >= SuperSp(r) + 2
    BY <1>4, <1>5, <1>6 DEF Within
  <2>3. m2[SuperSp(cs[n].regs) - 3] = m[SuperSp(cs[n].regs) - 3]
    BY <2>2
  <2>4. m2[SuperSp(cs[n].regs) - 2] = m[SuperSp(cs[n].regs) - 2]
    BY <2>2
  <2>5. QED BY <2>1, <2>3, <2>4 DEF Framed
<1>10. AtTop(m2, r2, cs[n])
  <2>1. Linked(cs[n], r2, 2)
    BY <1>3, <1>4, <1>5 DEF Linked
  <2>2. Popped(r2.pc, cs[n])
    BY DEF Popped
  <2>3. QED BY <2>1, <2>2 DEF AtTop
<1>11. \A i \in 1 .. n : Solid(cs, i) => Below(m2, cs, i)
  <2>1. TAKE i \in 1 .. n
  <2>2. HAVE Solid(cs, i)
  <2>3. CASE i = n
    BY <1>1, <1>9, <2>3 DEF Below
  <2>4. CASE i \in 1 .. n - 1
    <3>1. /\ Framed(m2, cs[i]) /\ ReturnsToRom(m2, cs[i])
          /\ Linked(cs[i], cs[i + 1].regs, 0)
          /\ \A k \in i + 1 .. n : SuperSp(cs[k].regs) <= Inner(cs[i])
      BY <1>8, <2>2, <2>4, OuterIsAbove, Zenon
    <3>2. QED BY <3>1 DEF Below
  <2>5. QED BY <1>1, <2>3, <2>4
<1>12. Where(r2.pc, LastKind(cs))
  BY DEF Where, LastKind
<1>13. QED BY <1>7, <1>10, <1>11, <1>12 DEF Balanced

(* What happens above a _SUPER_JSR, or with no call open.                  *)
LEMMA LooseKeeps ==
  ASSUME NEW m, NEW r, NEW cs, Balanced(m, r, cs), cs = <<>> \/ cs[Len(cs)].kind = "jsr",
         NEW m2, Cells(m2), NEW r2, Within(r2, Len(cs)), Where(r2.pc, LastKind(cs))
  PROVE  Balanced(m2, r2, cs)
<1>1. \A i \in 1 .. Len(cs) : ~Solid(cs, i)
  <2>1. TAKE i \in 1 .. Len(cs)
  <2>2. Len(cs) \in Nat /\ Len(cs) \in i .. Len(cs) /\ cs # <<>>
    BY DEF Balanced
  <2>3. QED BY <2>2 DEF Solid
<1>2. cs # <<>> => ~Solid(cs, Len(cs))
  <2>1. cs # <<>> => Len(cs) \in 1 .. Len(cs)
    BY DEF Balanced
  <2>2. QED BY <1>1, <2>1
<1>3. QED BY <1>1, <1>2 DEF Balanced

(* Other contents of PC and D0 leave the stacks and the state alone.       *)
LEMMA OtherPc ==
  ASSUME NEW r \in Registers, NEW pc \in Places, NEW d \in Int
  PROVE  /\ [r EXCEPT !.pc = pc, !.d0 = d] \in Registers
         /\ [r EXCEPT !.pc = pc, !.d0 = d].sup = r.sup
         /\ [r EXCEPT !.pc = pc, !.d0 = d].pc = pc
         /\ SuperSp([r EXCEPT !.pc = pc, !.d0 = d]) = SuperSp(r)
         /\ UserSp([r EXCEPT !.pc = pc, !.d0 = d]) = UserSp(r)
<1>1. [r EXCEPT !.pc = pc] \in Registers
  BY DEF Registers
<1> DEFINE q == [r EXCEPT !.pc = pc]
<1>2. q \in Registers /\ q.sup = r.sup /\ q.pc = pc /\ q.a7 = r.a7 /\ q.usp = r.usp /\ q.ssp = r.ssp
  BY DEF Registers
<1> HIDE DEF q
<1>3. [q EXCEPT !.d0 = d] = [r EXCEPT !.pc = pc, !.d0 = d]
  BY DEF q
<1> DEFINE s == [q EXCEPT !.d0 = d]
<1>4. s \in Registers /\ s.sup = r.sup /\ s.pc = pc /\ s.a7 = r.a7 /\ s.usp = r.usp /\ s.ssp = r.ssp
  BY <1>2 DEF Registers
<1> HIDE DEF s
<1>5. SuperSp(s) = SuperSp(r) /\ UserSp(s) = UserSp(r)
  BY <1>4 DEF SuperSp, UserSp
<1>6. QED BY <1>3, <1>4, <1>5 DEF s

LEMMA OtherPcOnly ==
  ASSUME NEW r \in Registers, NEW pc \in Places
  PROVE  /\ [r EXCEPT !.pc = pc] \in Registers
         /\ [r EXCEPT !.pc = pc].sup = r.sup
         /\ [r EXCEPT !.pc = pc].pc = pc /\ [r EXCEPT !.pc = pc].d0 = r.d0
         /\ SuperSp([r EXCEPT !.pc = pc]) = SuperSp(r)
         /\ UserSp([r EXCEPT !.pc = pc]) = UserSp(r)
<1> DEFINE q == [r EXCEPT !.pc = pc]
<1>1. /\ q \in Registers /\ q.sup = r.sup /\ q.pc = pc /\ q.a7 = r.a7 /\ q.usp = r.usp
      /\ q.ssp = r.ssp /\ q.d0 = r.d0
  BY DEF Registers
<1> HIDE DEF q
<1>2. SuperSp(q) = SuperSp(r) /\ UserSp(q) = UserSp(r)
  BY <1>1 DEF SuperSp, UserSp
<1>3. QED BY <1>1, <1>2 DEF q

LEMMA OtherD0Only ==
  ASSUME NEW r \in Registers, NEW d \in Int
  PROVE  /\ [r EXCEPT !.d0 = d] \in Registers
         /\ [r EXCEPT !.d0 = d].sup = r.sup
         /\ [r EXCEPT !.d0 = d].pc = r.pc /\ [r EXCEPT !.d0 = d].d0 = d
         /\ SuperSp([r EXCEPT !.d0 = d]) = SuperSp(r)
         /\ UserSp([r EXCEPT !.d0 = d]) = UserSp(r)
<1> DEFINE q == [r EXCEPT !.d0 = d]
<1>1. /\ q \in Registers /\ q.sup = r.sup /\ q.pc = r.pc /\ q.a7 = r.a7 /\ q.usp = r.usp
      /\ q.ssp = r.ssp /\ q.d0 = d
  BY DEF Registers
<1> HIDE DEF q
<1>2. SuperSp(q) = SuperSp(r) /\ UserSp(q) = UserSp(r)
  BY <1>1 DEF SuperSp, UserSp
<1>3. QED BY <1>1, <1>2 DEF q

LEMMA PlacesOfCodes ==
  /\ \A pc \in Codes : pc \in Places /\ Sup!Behind(pc) \in Codes
  /\ \A pc \in Cell : pc \in Places
  /\ Sup!RomVector \in Places /\ Sup!RomCall(0) \in Places
<1>1. \A pc \in Codes : pc \in Places /\ Sup!Behind(pc) \in Codes
  BY DEF Codes, Sup!Behind, Places
<1>2. \A pc \in {"sr"} \X {0, 1} : pc \in Places
  BY DEF Places
<1>3. /\ Junk \in Places /\ Sup!RomVector \in Places /\ Sup!Sentinel \in Places
      /\ Sup!RomCall(0) \in Places
  BY DEF Places, Junk, Sup!RomVector, Sup!Sentinel, Sup!RomCall
<1>4. QED BY <1>1, <1>2, <1>3, Zenon DEF Cell

LEMMA FrameIs ==
  ASSUME Balanced(mem, regs, calls), NEW frame, NEW size \in {2, 3, 5}, NEW entry \in Places,
         \A d \in DOMAIN frame : d \in 0 .. size - 2 /\ frame[d] \in Cell,
         Len(calls) < MaxCalls, Sup!PushFrame(frame, size, entry)
  PROVE  /\ regs' \in Registers /\ regs.pc' = entry /\ regs.sup' = TRUE
         /\ SuperSp(regs') = SuperSp(regs) - size /\ UserSp(regs') = UserSp(regs)
         /\ Within(regs', Len(calls) + 1)
         /\ Cells(mem') /\ \A a \in 0 .. Highest + 3 : a >= SuperSp(regs) => mem'[a] = mem[a]
         /\ \A d \in DOMAIN frame : mem'[SuperSp(regs) - (size - d)] = frame[d]
<1> DEFINE n == Len(calls)
<1>1. /\ n \in Nat /\ regs \in Registers /\ Within(regs, n) /\ Cells(mem)
      /\ MaxCalls \in Nat /\ Highest \in Nat
  BY SupervisorSizes DEF Balanced, Within, Highest
<1>2. SuperSp(regs) \in Int /\ UserSp(regs) \in Int
  BY <1>1, PointersAreInt
<1> DEFINE s == Sup!SetState(regs, TRUE)
<1>3. s \in Registers /\ s.sup = TRUE /\ SuperSp(s) = SuperSp(regs) /\ UserSp(s) = UserSp(regs)
  BY <1>1, SetStateIs
<1> DEFINE r == [s EXCEPT !.a7 = @ - size, !.pc = entry]
<1>4. regs' = r /\ mem' = [a \in DOMAIN mem |-> IF a - r.a7 \in DOMAIN frame THEN frame[a - r.a7] ELSE mem[a]]
  BY DEF Sup!PushFrame
<1>5. r \in Registers /\ r.pc = entry /\ r.sup = TRUE /\ r.a7 = s.a7 - size /\ r.usp = s.usp
  <2> HIDE DEF s
  <2> DEFINE q == [s EXCEPT !.a7 = @ - size]
  <2>1. q \in Registers /\ q.sup = TRUE /\ q.a7 = s.a7 - size /\ q.usp = s.usp
    BY <1>3 DEF Registers
  <2> HIDE DEF q
  <2>2. [q EXCEPT !.pc = entry] = r
    BY DEF q
  <2> HIDE DEF r
  <2>3. QED BY <2>1, <2>2 DEF Registers
<1> HIDE DEF r, s
<1>6. r.a7 = SuperSp(regs) - size /\ SuperSp(r) = SuperSp(regs) - size /\ UserSp(r) = UserSp(regs)
  BY <1>3, <1>5 DEF SuperSp, UserSp
<1>7. Lowest(n + 1) = Lowest(n) - 7 /\ Lowest(n) \in Int /\ Lowest(n + 1) >= 0
  BY <1>1, SupervisorSizes DEF Lowest
<1>8. Within(r, n + 1)
  <2>1. SuperSp(r) >= Lowest(n + 1) /\ SuperSp(r) <= Highest
    BY <1>1, <1>2, <1>6, <1>7 DEF Within
  <2>2. UserSp(r) >= Lowest(n + 1) /\ UserSp(r) <= Highest
    BY <1>1, <1>2, <1>6, <1>7 DEF Within
  <2>3. QED BY <1>5, <2>1, <2>2 DEF Within
<1>9. DOMAIN mem = 0 .. Highest + 3 /\ mem \in [0 .. Highest + 3 -> Cell]
  BY <1>1 DEF Cells
<1>10. \A a \in 0 .. Highest + 3 :
         mem'[a] = IF a - r.a7 \in DOMAIN frame THEN frame[a - r.a7] ELSE mem[a]
  BY <1>4, <1>9
<1>11. mem' \in [0 .. Highest + 3 -> Cell]
  <2>1. \A a \in 0 .. Highest + 3 :
          (IF a - r.a7 \in DOMAIN frame THEN frame[a - r.a7] ELSE mem[a]) \in Cell
    BY <1>9
  <2>2. QED BY <1>4, <1>9, <2>1
<1>12. r.a7 \in Int /\ r.a7 >= 0 /\ r.a7 + size <= Highest
  BY <1>1, <1>2, <1>6, <1>7, <1>8 DEF Within
<1>13. \A a \in 0 .. Highest + 3 : mem'[a] # Junk => a <= Highest - 2
  <2>1. TAKE a \in 0 .. Highest + 3
  <2>2. CASE a - r.a7 \in DOMAIN frame
    <3>1. a - r.a7 \in 0 .. size - 2
      BY <2>2
    <3>2. QED BY <3>1, <1>1, <1>12
  <2>3. CASE a - r.a7 \notin DOMAIN frame
    BY <1>1, <1>10, <2>3 DEF Cells
  <2>4. QED BY <2>2, <2>3
<1>14. \A a \in 0 .. Highest + 3 : a >= SuperSp(regs) => mem'[a] = mem[a]
  <2>1. TAKE a \in 0 .. Highest + 3
  <2>2. HAVE a >= SuperSp(regs)
  <2>3. a - r.a7 \notin DOMAIN frame
    <3>1. SUFFICES ASSUME a - r.a7 \in DOMAIN frame PROVE FALSE
      OBVIOUS
    <3>2. a - r.a7 \in 0 .. size - 2
      BY <3>1
    <3>3. QED BY <2>2, <3>2, <1>2, <1>6
  <2>4. QED BY <1>10, <2>3
<1>15. ASSUME NEW d \in DOMAIN frame PROVE mem'[SuperSp(regs) - (size - d)] = frame[d]
  <2>1. d \in 0 .. size - 2
    OBVIOUS
  <2> DEFINE a == SuperSp(regs) - (size - d)
  <2>2. a \in 0 .. Highest + 3 /\ a - r.a7 = d
    <3>1. d \in Int /\ size \in Int /\ d >= 0 /\ d <= size
      BY <2>1
    <3>2. a = r.a7 + d
      BY <3>1, <1>2, <1>6
    <3>3. QED BY <3>1, <3>2, <1>1, <1>12
  <2> HIDE DEF a
  <2>3. mem'[a] = frame[d]
    BY <1>10, <2>2
  <2>4. QED BY <2>3 DEF a
<1>16. Cells(mem')
  BY <1>11, <1>13 DEF Cells
<1>17. QED BY <1>4, <1>5, <1>6, <1>8, <1>14, <1>15, <1>16
SupSafe == Stuck(regs.pc) \/ Balanced(mem, regs, calls)

(* What CallsBalance says of a step.                                       *)
LeadsBack ==
  Len(calls') < Len(calls) =>
    Sup!Seen([regs' EXCEPT !.pc = IF Sup!TopKind = "super" THEN calls[Len(calls)].regs.pc ELSE @])
      = Sup!Seen(calls[Len(calls)].regs)

LEMMA OpenLeadsBack ==
  ASSUME Balanced(mem, regs, calls), NEW c \in Call, calls' = Append(calls, c)
  PROVE  LeadsBack
<1>1. Len(calls') = Len(calls) + 1 /\ Len(calls) \in Nat
  BY AppendIs DEF Balanced
<1>2. QED BY <1>1 DEF LeadsBack

LEMMA SameLeadsBack ==
  ASSUME Balanced(mem, regs, calls), calls' = calls
  PROVE  LeadsBack
<1>1. Len(calls') = Len(calls) /\ Len(calls) \in Nat
  BY DEF Balanced
<1>2. QED BY <1>1 DEF LeadsBack

LEMMA SrIsCell ==
  \A r : Sup!Sr(r) \in Cell
BY DEF Sup!Sr, Cell

LEMMA CallerIs ==
  ASSUME NEW r \in Registers, NEW pc \in Codes
  PROVE  /\ [r EXCEPT !.pc = pc, !.d0 = -1] \in Registers
         /\ [r EXCEPT !.pc = pc, !.d0 = -1].sup = r.sup
         /\ [r EXCEPT !.pc = pc, !.d0 = -1].pc = pc
         /\ SuperSp([r EXCEPT !.pc = pc, !.d0 = -1]) = SuperSp(r)
         /\ UserSp([r EXCEPT !.pc = pc, !.d0 = -1]) = UserSp(r)
<1>1. pc \in Places /\ -1 \in Int
  BY PlacesOfCodes
<1>2. QED BY <1>1, OtherPc, Zenon

(* Traps that a handler answers, the program's or the ROM's.               *)
LEMMA TrapOpens ==
  ASSUME Balanced(mem, regs, calls), regs.pc \in Codes, Len(calls) < MaxCalls,
         NEW pc \in Codes, NEW entry, entry \in Codes \cup {Sup!RomVector},
         Sup!PushFrame(Sup!TrapFrame(pc), 3, entry),
         calls' = Append(calls, [kind |-> "trap", regs |-> [regs EXCEPT !.pc = pc, !.d0 = -1]])
  PROVE  SupSafe' /\ LeadsBack
<1> DEFINE q == [regs EXCEPT !.pc = pc, !.d0 = -1]
           c == [kind |-> "trap", regs |-> q]
           frame == Sup!TrapFrame(pc)
<1>1. regs \in Registers /\ Within(regs, Len(calls)) /\ SuperSp(regs) \in Int
  BY PointersAreInt DEF Balanced, Within
<1>2. /\ q \in Registers /\ q.sup = regs.sup /\ q.pc = pc
      /\ SuperSp(q) = SuperSp(regs) /\ UserSp(q) = UserSp(regs)
  BY <1>1, CallerIs, Zenon
<1>3. DOMAIN frame = 0 .. 1 /\ frame[0] = Sup!Sr(regs) /\ frame[1] = pc
  BY DEF Sup!TrapFrame
<1> HIDE DEF q, frame
<1>4. c \in Call /\ c.kind = "trap" /\ c.regs = q
  BY <1>2 DEF Call
<1> HIDE DEF c
<1>5. /\ regs' \in Registers /\ regs.pc' = entry /\ regs.sup' = TRUE
      /\ SuperSp(regs') = SuperSp(regs) - 3 /\ UserSp(regs') = UserSp(regs)
      /\ Within(regs', Len(calls) + 1)
      /\ Cells(mem') /\ \A a \in 0 .. Highest + 3 : a >= SuperSp(regs) => mem'[a] = mem[a]
      /\ \A d \in DOMAIN frame : mem'[SuperSp(regs) - (3 - d)] = frame[d]
  <2>1. \A d \in DOMAIN frame : d \in 0 .. 3 - 2 /\ frame[d] \in Cell
    BY <1>3, SrIsCell DEF Cell
  <2>2. entry \in Places /\ 3 \in {2, 3, 5} /\ Sup!PushFrame(frame, 3, entry)
    BY PlacesOfCodes DEF frame
  <2>3. QED BY <2>1, <2>2, FrameIs, Zenon
<1>6. mem'[SuperSp(regs) - 3] = Sup!Sr(regs) /\ mem'[SuperSp(regs) - 2] = pc
  <2>1. mem'[SuperSp(regs) - (3 - 0)] = frame[0] /\ mem'[SuperSp(regs) - (3 - 1)] = frame[1]
    BY <1>3, <1>5
  <2>2. QED BY <1>1, <1>3, <2>1
<1>7. Sup!Sr(q) = Sup!Sr(regs)
  BY <1>2 DEF Sup!Sr
<1>8. Framed(mem', c)
  BY <1>2, <1>4, <1>6, <1>7 DEF Framed
<1>9. AtTop(mem', regs', c)
  <2>1. Inner(c) = SuperSp(regs) - 3 /\ Inner(c) \in Int
    BY <1>2, <1>4, InnerIs
  <2>2. ~Popped(regs'.pc, c) /\ ReturnsToRom(mem', c)
    BY <1>4 DEF Popped, ReturnsToRom
  <2>3. Linked(c, regs', 0)
    BY <1>2, <1>4, <1>5, <2>1 DEF Linked
  <2>4. QED BY <2>2, <2>3 DEF AtTop
<1>10. IsCall(c, Len(calls))
  BY <1>1, <1>2, <1>4 DEF IsCall, Within
<1>11. Where(regs'.pc, c.kind)
  BY <1>4, <1>5 DEF Where
<1>12. Balanced(mem', regs', Append(calls, c))
  <2>1. c.regs.sup = regs.sup /\ SuperSp(c.regs) = SuperSp(regs) /\ UserSp(c.regs) = UserSp(regs)
    BY <1>2, <1>4
  <2>2. /\ Cells(mem') /\ \A a \in 0 .. Highest + 3 : a >= SuperSp(regs) => mem'[a] = mem[a]
        /\ Within(regs', Len(calls) + 1)
    BY <1>5
  <2>3. c.kind # "jsr" => Framed(mem', c) /\ AtTop(mem', regs', c)
    BY <1>8, <1>9
  <2>4. QED BY <1>10, <1>11, <2>1, <2>2, <2>3, OpenKeeps, Zenon
<1>13. calls' = Append(calls, c)
  BY DEF c, q
<1>14. LeadsBack
  BY <1>4, <1>13, OpenLeadsBack, Zenon
<1>15. QED BY <1>12, <1>13, <1>14 DEF SupSafe

IocsFrame(pc) ==
  [i \in {0, 2, 3} |-> IF i = 0 THEN Sup!RomVector ELSE IF i = 2 THEN Sup!Sr(regs) ELSE pc]

(* An IOCS call that the program's own handler answers.                    *)
LEMMA IocsOpens ==
  ASSUME Balanced(mem, regs, calls), regs.pc \in Codes, Len(calls) < MaxCalls,
         NEW pc \in Codes,
         Sup!PushFrame(IocsFrame(pc), 5, <<"iocs", 0>>),
         calls' = Append(calls, [kind |-> "iocs", regs |-> [regs EXCEPT !.pc = pc, !.d0 = -1]])
  PROVE  SupSafe' /\ LeadsBack
<1> DEFINE q == [regs EXCEPT !.pc = pc, !.d0 = -1]
           c == [kind |-> "iocs", regs |-> q]
           frame == IocsFrame(pc)
<1>1. regs \in Registers /\ Within(regs, Len(calls)) /\ SuperSp(regs) \in Int
  BY PointersAreInt DEF Balanced, Within
<1>2. /\ DOMAIN frame = {0, 2, 3}
      /\ frame[0] = Sup!RomVector /\ frame[2] = Sup!Sr(regs) /\ frame[3] = pc
  BY DEF IocsFrame
<1> HIDE DEF frame
<1>3. /\ q \in Registers /\ q.sup = regs.sup /\ q.pc = pc
      /\ SuperSp(q) = SuperSp(regs) /\ UserSp(q) = UserSp(regs)
  BY <1>1, CallerIs, Zenon
<1> HIDE DEF q
<1>4. c \in Call /\ c.kind = "iocs" /\ c.regs = q
  BY <1>3 DEF Call
<1> HIDE DEF c
<1>5. /\ regs' \in Registers /\ regs.pc' = <<"iocs", 0>> /\ regs.sup' = TRUE
      /\ SuperSp(regs') = SuperSp(regs) - 5 /\ UserSp(regs') = UserSp(regs)
      /\ Within(regs', Len(calls) + 1)
      /\ Cells(mem') /\ \A a \in 0 .. Highest + 3 : a >= SuperSp(regs) => mem'[a] = mem[a]
      /\ \A d \in DOMAIN frame : mem'[SuperSp(regs) - (5 - d)] = frame[d]
  <2>1. \A d \in DOMAIN frame : d \in 0 .. 5 - 2 /\ frame[d] \in Cell
    BY <1>2, SrIsCell DEF Cell
  <2>2. <<"iocs", 0>> \in Places /\ 5 \in {2, 3, 5} /\ Sup!PushFrame(frame, 5, <<"iocs", 0>>)
    BY DEF Places, frame, Sup!Program, Sup!Vectors
  <2>3. QED BY <2>1, <2>2, FrameIs, Zenon
<1>6. /\ mem'[SuperSp(regs) - 5] = Sup!RomVector
      /\ mem'[SuperSp(regs) - 3] = Sup!Sr(regs) /\ mem'[SuperSp(regs) - 2] = pc
  <2>1. /\ mem'[SuperSp(regs) - (5 - 0)] = frame[0] /\ mem'[SuperSp(regs) - (5 - 2)] = frame[2]
        /\ mem'[SuperSp(regs) - (5 - 3)] = frame[3]
    BY <1>2, <1>5
  <2>2. QED BY <1>1, <1>2, <2>1
<1>7. Sup!Sr(q) = Sup!Sr(regs)
  BY <1>3 DEF Sup!Sr
<1>8. Framed(mem', c)
  BY <1>3, <1>4, <1>6, <1>7 DEF Framed
<1>9. AtTop(mem', regs', c)
  <2>1. Inner(c) = SuperSp(regs) - 5 /\ Inner(c) \in Int
    BY <1>3, <1>4, InnerIs
  <2>2. ~Popped(regs'.pc, c) /\ ReturnsToRom(mem', c)
    BY <1>3, <1>4, <1>5, <1>6 DEF Popped, ReturnsToRom, Sup!RomVector
  <2>3. Linked(c, regs', 0)
    BY <1>3, <1>4, <1>5, <2>1 DEF Linked
  <2>4. QED BY <2>2, <2>3 DEF AtTop
<1>10. IsCall(c, Len(calls))
  BY <1>1, <1>3, <1>4 DEF IsCall, Within
<1>11. Where(regs'.pc, c.kind)
  BY <1>4, <1>5 DEF Where, Codes, Sup!Program, Sup!Vectors
<1>12. Balanced(mem', regs', Append(calls, c))
  <2>1. c.regs.sup = regs.sup /\ SuperSp(c.regs) = SuperSp(regs) /\ UserSp(c.regs) = UserSp(regs)
    BY <1>3, <1>4
  <2>2. /\ Cells(mem') /\ \A a \in 0 .. Highest + 3 : a >= SuperSp(regs) => mem'[a] = mem[a]
        /\ Within(regs', Len(calls) + 1)
    BY <1>5
  <2>3. c.kind # "jsr" => Framed(mem', c) /\ AtTop(mem', regs', c)
    BY <1>8, <1>9
  <2>4. QED BY <1>10, <1>11, <2>1, <2>2, <2>3, OpenKeeps, Zenon
<1>13. calls' = Append(calls, c)
  BY DEF c, q
<1>14. LeadsBack
  BY <1>4, <1>13, OpenLeadsBack, Zenon
<1>15. QED BY <1>12, <1>13, <1>14 DEF SupSafe

(* The routine of a _SUPER_JSR.                                            *)
LEMMA JsrOpens ==
  ASSUME Balanced(mem, regs, calls), regs.pc \in Codes, Len(calls) < MaxCalls,
         NEW pc \in Codes,
         Sup!PushFrame([i \in {0} |-> Sup!Sentinel], 2, <<"jsr", 0>>),
         calls' = Append(calls, [kind |-> "jsr", regs |-> [regs EXCEPT !.pc = pc]])
  PROVE  SupSafe' /\ LeadsBack
<1> DEFINE q == [regs EXCEPT !.pc = pc]
           c == [kind |-> "jsr", regs |-> q]
           frame == [i \in {0} |-> Sup!Sentinel]
<1>1. regs \in Registers /\ Within(regs, Len(calls))
  BY DEF Balanced, Within
<1>2. /\ q \in Registers /\ q.sup = regs.sup /\ q.pc = pc
      /\ SuperSp(q) = SuperSp(regs) /\ UserSp(q) = UserSp(regs)
  <2>1. pc \in Places
    BY PlacesOfCodes
  <2>2. QED BY <1>1, <2>1, OtherPcOnly, Zenon
<1>3. \A d \in DOMAIN frame : d \in 0 .. 2 - 2 /\ frame[d] \in Cell
  BY DEF Cell
<1> HIDE DEF q, frame
<1>4. c \in Call /\ c.kind = "jsr" /\ c.regs = q
  BY <1>2 DEF Call
<1> HIDE DEF c
<1>5. /\ regs' \in Registers /\ regs.pc' = <<"jsr", 0>>
      /\ Within(regs', Len(calls) + 1)
      /\ Cells(mem') /\ \A a \in 0 .. Highest + 3 : a >= SuperSp(regs) => mem'[a] = mem[a]
  <2>1. <<"jsr", 0>> \in Places /\ 2 \in {2, 3, 5} /\ Sup!PushFrame(frame, 2, <<"jsr", 0>>)
    BY DEF Places, frame, Sup!Program
  <2>2. QED BY <1>3, <2>1, FrameIs, Zenon
<1>6. IsCall(c, Len(calls))
  BY <1>1, <1>2, <1>4 DEF IsCall, Within
<1>7. Where(regs'.pc, c.kind)
  BY <1>4, <1>5 DEF Where, Codes, Sup!Program
<1>8. Balanced(mem', regs', Append(calls, c))
  <2>1. c.regs.sup = regs.sup /\ SuperSp(c.regs) = SuperSp(regs) /\ UserSp(c.regs) = UserSp(regs)
    BY <1>2, <1>4
  <2>2. QED BY <1>4, <1>5, <1>6, <1>7, <2>1, OpenKeeps, Zenon
<1>9. calls' = Append(calls, c)
  BY DEF c, q
<1>10. LeadsBack
  BY <1>4, <1>9, OpenLeadsBack, Zenon
<1>11. QED BY <1>8, <1>9, <1>10 DEF SupSafe

(* _SUPER and _B_SUPER: to supervisor state, on the stack that is in use.  *)
Entered(r) == LET t == Sup!SetState(r, TRUE) IN [t EXCEPT !.d0 = t.a7, !.a7 = t.usp]

LEMMA SuperEnters ==
  ASSUME NEW r \in Registers, r.sup = FALSE, NEW q, q = Entered(r)
  PROVE  /\ q \in Registers /\ q.sup = TRUE /\ q.pc = r.pc /\ q.d0 = SuperSp(r)
         /\ SuperSp(q) = UserSp(r) /\ UserSp(q) = UserSp(r)
<1>0. PICK t : t = Sup!SetState(r, TRUE)
  OBVIOUS
<1>1. t \in Registers /\ t.sup = TRUE /\ t.pc = r.pc /\ SuperSp(t) = SuperSp(r) /\ UserSp(t) = UserSp(r)
  BY <1>0, SetStateIs
<1>2. t.a7 = SuperSp(r) /\ t.usp = UserSp(r)
  BY <1>1 DEF SuperSp, UserSp
<1>3. PICK v : v = [t EXCEPT !.d0 = t.a7]
  OBVIOUS
<1>4. v \in Registers /\ v.sup = TRUE /\ v.pc = t.pc /\ v.a7 = t.a7 /\ v.usp = t.usp /\ v.d0 = t.a7
  BY <1>1, <1>3 DEF Registers
<1>5. q = [v EXCEPT !.a7 = t.usp]
  BY <1>0, <1>3 DEF Entered
<1>6. q \in Registers /\ q.sup = TRUE /\ q.pc = v.pc /\ q.a7 = t.usp /\ q.usp = v.usp /\ q.d0 = v.d0
  BY <1>1, <1>4, <1>5 DEF Registers
<1>7. SuperSp(q) = q.a7 /\ UserSp(q) = q.usp
  BY <1>6 DEF SuperSp, UserSp
<1>8. QED BY <1>1, <1>2, <1>4, <1>6, <1>7

(* Back to user state, given the stack that the one before has returned.   *)
Left(r, s) == Sup!SetState([r EXCEPT !.usp = r.a7, !.a7 = s], FALSE)

HasLeft(q, r, s) ==
  /\ q \in Registers /\ q.sup = FALSE /\ q.pc = r.pc
  /\ SuperSp(q) = s /\ UserSp(q) = SuperSp(r)

LEMMA SuperLeaves ==
  ASSUME NEW r \in Registers, r.sup = TRUE, NEW s \in Int
  PROVE  HasLeft(Left(r, s), r, s)
<1>0. PICK q : q = Left(r, s)
  OBVIOUS
<1>1. PICK v : v = [r EXCEPT !.usp = r.a7]
  OBVIOUS
<1>2. v \in Registers /\ v.sup = TRUE /\ v.pc = r.pc /\ v.usp = r.a7
  BY <1>1 DEF Registers
<1>3. PICK w : w = [v EXCEPT !.a7 = s]
  OBVIOUS
<1>4. w \in Registers /\ w.sup = TRUE /\ w.pc = r.pc /\ w.usp = r.a7 /\ w.a7 = s
  BY <1>2, <1>3 DEF Registers
<1>5. q = Sup!SetState(w, FALSE)
  BY <1>0, <1>1, <1>3 DEF Left
<1>6. q \in Registers /\ q.sup = FALSE /\ q.pc = w.pc /\ SuperSp(q) = SuperSp(w) /\ UserSp(q) = UserSp(w)
  BY <1>4, <1>5, SetStateIs
<1>7. SuperSp(w) = s /\ UserSp(w) = r.a7 /\ SuperSp(r) = r.a7
  BY <1>4 DEF SuperSp, UserSp
<1>8. HasLeft(q, r, s)
  BY <1>4, <1>6, <1>7 DEF HasLeft
<1>9. QED BY <1>0, <1>8

LEMMA SuperOpens ==
  ASSUME Balanced(mem, regs, calls), regs.pc \in Codes, Len(calls) < MaxCalls, regs.sup = FALSE,
         regs' \in Registers, regs'.sup = TRUE, regs'.pc \in Codes, regs'.d0 = SuperSp(regs),
         SuperSp(regs') = UserSp(regs), UserSp(regs') = UserSp(regs), mem' = mem,
         calls' = Append(calls, [kind |-> "super", regs |-> [regs EXCEPT !.d0 = regs'.d0]])
  PROVE  SupSafe' /\ LeadsBack
<1> DEFINE q == [regs EXCEPT !.d0 = regs'.d0]
           c == [kind |-> "super", regs |-> q]
           n == Len(calls)
<1>1. regs \in Registers /\ Within(regs, n) /\ SuperSp(regs) \in Int /\ UserSp(regs) \in Int /\ n \in Nat
  BY PointersAreInt DEF Balanced, Within
<1>2. /\ q \in Registers /\ q.sup = FALSE /\ q.pc = regs.pc /\ q.d0 = SuperSp(regs)
      /\ SuperSp(q) = SuperSp(regs) /\ UserSp(q) = UserSp(regs)
  BY <1>1, OtherD0Only
<1> HIDE DEF q
<1>3. c \in Call /\ c.kind = "super" /\ c.regs = q
  BY <1>2 DEF Call
<1> HIDE DEF c
<1>4. IsCall(c, n)
  BY <1>1, <1>2, <1>3 DEF IsCall, Within
<1>5. Within(regs', n + 1)
  <2>1. Lowest(n + 1) = Lowest(n) - 7 /\ Lowest(n) \in Int /\ Highest \in Int
    BY <1>1, SupervisorSizes DEF Lowest, Highest
  <2>2. UserSp(regs) >= Lowest(n) - 7 /\ UserSp(regs) <= Highest
    BY <1>1, <2>1 DEF Within
  <2>3. QED BY <2>1, <2>2 DEF Within
<1>6. Framed(mem', c) /\ AtTop(mem', regs', c)
  <2>1. Inner(c) = UserSp(regs) /\ Inner(c) \in Int
    BY <1>2, <1>3, InnerIs
  <2>2. ~Popped(regs'.pc, c) /\ ReturnsToRom(mem', c) /\ Framed(mem', c)
    BY <1>3 DEF Popped, ReturnsToRom, Framed
  <2>3. Linked(c, regs', 0)
    BY <1>2, <1>3, <2>1 DEF Linked
  <2>4. QED BY <2>2, <2>3 DEF AtTop
<1>7. Balanced(mem', regs', Append(calls, c))
  <2>1. c.regs.sup = regs.sup /\ SuperSp(c.regs) = SuperSp(regs) /\ UserSp(c.regs) = UserSp(regs)
    BY <1>2, <1>3
  <2>2. Cells(mem') /\ \A a \in 0 .. Highest + 3 : a >= SuperSp(regs) => mem'[a] = mem[a]
    BY DEF Balanced
  <2>3. Where(regs'.pc, c.kind)
    BY DEF Where
  <2>4. QED BY <1>4, <1>5, <1>6, <2>1, <2>2, <2>3, OpenKeeps, Zenon
<1>8. calls' = Append(calls, c)
  BY DEF c, q
<1>9. LeadsBack
  BY <1>3, <1>8, OpenLeadsBack, Zenon
<1>10. QED BY <1>7, <1>8, <1>9 DEF SupSafe

(* A call closes: what the program has is what the call was made with.     *)
LEMMA Closes ==
  ASSUME Balanced(mem, regs, calls), calls # <<>>, calls[Len(calls)].kind # "jsr",
         Cells(mem'),
         \A a \in 0 .. Highest + 3 : a >= SuperSp(calls[Len(calls)].regs) => mem'[a] = mem[a],
         regs' \in Registers, regs'.sup = calls[Len(calls)].regs.sup, regs'.pc \in Codes,
         calls[Len(calls)].kind # "super" => regs'.pc = calls[Len(calls)].regs.pc,
         SuperSp(regs') = SuperSp(calls[Len(calls)].regs),
         UserSp(regs') = UserSp(calls[Len(calls)].regs),
         calls' = SubSeq(calls, 1, Len(calls) - 1)
  PROVE  SupSafe' /\ LeadsBack
<1>1. Balanced(mem', regs', SubSeq(calls, 1, Len(calls) - 1))
  BY CloseKeeps, Zenon
<1>2. SupSafe'
  BY <1>1 DEF SupSafe
<1> DEFINE c == calls[Len(calls)]
           pc == IF Sup!TopKind = "super" THEN c.regs.pc ELSE regs'.pc
<1>3. Sup!TopKind = c.kind
  BY DEF Sup!TopKind
<1>4. pc = c.regs.pc
  BY <1>3
<1>5. c.regs \in Registers /\ c.regs.pc \in Places
  <2>1. c \in Call
    BY DEF Balanced
  <2>2. QED BY <2>1 DEF Call, Registers
<1>6. Sup!Seen([regs' EXCEPT !.pc = c.regs.pc]) = Sup!Seen(c.regs)
  <2> DEFINE q == [regs' EXCEPT !.pc = c.regs.pc]
  <2>1. /\ q \in Registers /\ q.sup = regs'.sup /\ q.pc = c.regs.pc
        /\ SuperSp(q) = SuperSp(regs') /\ UserSp(q) = UserSp(regs')
    BY <1>5, OtherPcOnly, Zenon
  <2> HIDE DEF q
  <2>2. Sup!Seen(q) = Sup!Seen(c.regs)
    BY <1>5, <2>1, SeenIs
  <2>3. QED BY <2>2 DEF q
<1>7. Sup!Seen([regs' EXCEPT !.pc = IF Sup!TopKind = "super" THEN c.regs.pc ELSE @]) = Sup!Seen(c.regs)
  BY <1>4, <1>6
<1>8. QED BY <1>2, <1>7 DEF LeadsBack

LEMMA SuperCloses ==
  ASSUME Balanced(mem, regs, calls), regs.pc \in Codes, regs.sup = TRUE, Sup!TopKind = "super",
         regs' \in Registers, regs'.sup = FALSE, regs'.pc \in Codes,
         SuperSp(regs') = calls[Len(calls)].regs.d0, UserSp(regs') = SuperSp(regs), mem' = mem,
         calls' = SubSeq(calls, 1, Len(calls) - 1)
  PROVE  SupSafe' /\ LeadsBack
<1> DEFINE n == Len(calls)
           c == calls[n]
<1>1. calls # <<>> /\ c.kind = "super" /\ n \in 1 .. n
  BY DEF Sup!TopKind, Balanced
<1>2. Solid(calls, n) /\ c \in Call /\ IsCall(c, n - 1)
  BY <1>1 DEF Solid, Balanced
<1>3. Linked(c, regs, 0)
  BY <1>1, <1>2 DEF Balanced, AtTop, Popped
<1>4. Inner(c) = UserSp(c.regs) /\ Inner(c) \in Int
  BY <1>1, <1>2, InnerIs
<1>5. SuperSp(regs) = UserSp(c.regs)
  BY <1>3, <1>4 DEF Linked
<1>6. c.regs.sup = FALSE /\ c.regs.d0 = SuperSp(c.regs)
  BY <1>1, <1>2 DEF IsCall
<1>7. Cells(mem') /\ \A a \in 0 .. Highest + 3 : a >= SuperSp(c.regs) => mem'[a] = mem[a]
  BY DEF Balanced
<1>8. SuperSp(regs') = SuperSp(c.regs) /\ UserSp(regs') = UserSp(c.regs) /\ regs'.sup = c.regs.sup
  BY <1>5, <1>6
<1>9. QED
  <2>1. c.kind # "jsr" /\ (c.kind # "super" => regs'.pc = c.regs.pc)
    BY <1>1
  <2>2. QED BY <1>1, <1>7, <1>8, <2>1, Closes, Zenon

LEMMA PopIs ==
  ASSUME Balanced(mem, regs, calls), NEW r, NEW size \in {2, 3}, Sup!PopFrame(r, size)
  PROVE  /\ regs' = r /\ regs \in Registers /\ regs.a7 \in Int
         /\ Cells(mem') /\ \A a \in 0 .. Highest + 3 : a >= regs.a7 + size => mem'[a] = mem[a]
<1>1. /\ regs \in Registers /\ regs.a7 \in Int /\ mem \in [0 .. Highest + 3 -> Cell]
      /\ \A a \in 0 .. Highest + 3 : mem[a] # Junk => a <= Highest - 2
  BY DEF Balanced, Within, Registers, Cells
<1>2. \A a \in 0 .. Highest + 3 :
        mem'[a] = IF a - regs.a7 \in 0 .. size - 1 THEN Junk ELSE mem[a]
  BY <1>1 DEF Sup!PopFrame, Junk
<1>3. mem' \in [0 .. Highest + 3 -> Cell]
  <2>1. mem' = [a \in 0 .. Highest + 3 |-> IF a - regs.a7 \in 0 .. size - 1 THEN Junk ELSE mem[a]]
    BY <1>1 DEF Sup!PopFrame, Junk
  <2>2. Junk \in Cell
    BY DEF Cell
  <2>3. QED BY <1>1, <2>1, <2>2
<1>4. Cells(mem')
  <2>1. \A a \in 0 .. Highest + 3 : mem'[a] # Junk => a <= Highest - 2
    BY <1>1, <1>2
  <2>2. QED BY <1>3, <2>1 DEF Cells
<1>5. \A a \in 0 .. Highest + 3 : a >= regs.a7 + size => mem'[a] = mem[a]
  BY <1>1, <1>2
<1>6. QED BY <1>1, <1>4, <1>5 DEF Sup!PopFrame

(* PC from the stack, whose pointer goes up.                               *)
PopTo(r, pc, size) == [r EXCEPT !.pc = pc, !.a7 = @ + size]

HasPopped(q, r, pc, size) ==
  /\ q \in Registers /\ q.sup = r.sup /\ q.pc = pc
  /\ r.sup = TRUE => SuperSp(q) = SuperSp(r) + size /\ UserSp(q) = UserSp(r)
  /\ r.sup = FALSE => SuperSp(q) = SuperSp(r) /\ UserSp(q) = UserSp(r) + size

LEMMA PopsPc ==
  ASSUME NEW r \in Registers, NEW pc \in Places, NEW size \in Int
  PROVE  HasPopped(PopTo(r, pc, size), r, pc, size)
<1> DEFINE v == [r EXCEPT !.pc = pc]
           q == [v EXCEPT !.a7 = @ + size]
<1>1. v \in Registers /\ v.sup = r.sup /\ v.pc = pc /\ v.a7 = r.a7 /\ v.usp = r.usp /\ v.ssp = r.ssp
  BY DEF Registers
<1> HIDE DEF v
<1>2. q \in Registers /\ q.sup = r.sup /\ q.pc = pc /\ q.a7 = r.a7 + size /\ q.usp = r.usp /\ q.ssp = r.ssp
  BY <1>1 DEF Registers
<1>3. q = PopTo(r, pc, size)
  BY DEF PopTo, v
<1> HIDE DEF q
<1>4. /\ r.sup = TRUE => SuperSp(q) = SuperSp(r) + size /\ UserSp(q) = UserSp(r)
      /\ r.sup = FALSE => SuperSp(q) = SuperSp(r) /\ UserSp(q) = UserSp(r) + size
  BY <1>2 DEF SuperSp, UserSp
<1>5. QED BY <1>2, <1>3, <1>4 DEF HasPopped

(* The stack's pointer is at the frame when its return is executed.        *)
LEMMA FrameAtTop ==
  ASSUME Balanced(mem, regs, calls), calls # <<>>, calls[Len(calls)].kind \in {"trap", "iocs"},
         calls[Len(calls)].kind = "iocs" => regs.pc = Sup!RomVector
  PROVE  /\ regs.sup = TRUE /\ regs.a7 = SuperSp(calls[Len(calls)].regs) - 3
         /\ SuperSp(regs) = regs.a7 /\ UserSp(regs) = UserSp(calls[Len(calls)].regs)
         /\ SuperSp(calls[Len(calls)].regs) \in Int
         /\ mem[regs.a7] = Sup!Sr(calls[Len(calls)].regs)
         /\ mem[regs.a7 + 1] = calls[Len(calls)].regs.pc
         /\ IsCall(calls[Len(calls)], Len(calls) - 1)
<1> DEFINE n == Len(calls)
           c == calls[n]
<1>1. n \in 1 .. n /\ n \in Nat
  BY DEF Balanced
<1>2. Solid(calls, n) /\ c \in Call /\ IsCall(c, n - 1)
  BY <1>1 DEF Solid, Balanced
<1>3. Linked(c, regs, IF Popped(regs.pc, c) THEN 2 ELSE 0) /\ Framed(mem, c)
  BY <1>1, <1>2 DEF Balanced, AtTop, Below
<1>4. SuperSp(c.regs) \in Int
  BY <1>2, InnerIs
<1>5. CASE c.kind = "trap"
  <2>1. ~Popped(regs.pc, c) /\ Inner(c) = SuperSp(c.regs) - 3
    BY <1>5 DEF Popped, Inner
  <2>2. SuperSp(regs) = SuperSp(c.regs) - 3 + 0
    BY <1>3, <2>1 DEF Linked
  <2>3. SuperSp(regs) = SuperSp(c.regs) - 3
    BY <1>4, <2>2
  <2>4. regs.sup = TRUE /\ UserSp(regs) = UserSp(c.regs) /\ SuperSp(regs) = regs.a7
    BY <1>3 DEF Linked, SuperSp
  <2>5. (SuperSp(c.regs) - 3) + 1 = SuperSp(c.regs) - 2
    BY <1>4
  <2>6. QED BY <1>2, <1>3, <1>4, <1>5, <2>3, <2>4, <2>5 DEF Framed
<1>6. CASE c.kind = "iocs"
  <2>1. Popped(regs.pc, c) /\ Inner(c) = SuperSp(c.regs) - 5
    BY <1>6 DEF Popped, Inner
  <2>2. SuperSp(regs) = SuperSp(c.regs) - 5 + 2
    BY <1>3, <2>1 DEF Linked
  <2>3. SuperSp(regs) = SuperSp(c.regs) - 3
    BY <1>4, <2>2
  <2>4. regs.sup = TRUE /\ UserSp(regs) = UserSp(c.regs) /\ SuperSp(regs) = regs.a7
    BY <1>3 DEF Linked, SuperSp
  <2>5. (SuperSp(c.regs) - 3) + 1 = SuperSp(c.regs) - 2
    BY <1>4
  <2>6. QED BY <1>2, <1>3, <1>4, <1>6, <2>3, <2>4, <2>5 DEF Framed
<1>7. QED BY <1>5, <1>6

(* A return from the ROM, or to state s.                                   *)
Returned == [Sup!Rte EXCEPT !.d0 = -1]
ReturnedTo(q, s) == [Sup!SetState(q, s) EXCEPT !.d0 = -1]

LEMMA RteCloses ==
  ASSUME Balanced(mem, regs, calls), calls # <<>>, calls[Len(calls)].kind \in {"trap", "iocs"},
         calls[Len(calls)].kind = "iocs" => regs.pc = Sup!RomVector,
         Sup!PopFrame(Returned, 3),
         calls' = SubSeq(calls, 1, Len(calls) - 1)
  PROVE  SupSafe' /\ LeadsBack
<1> DEFINE c == calls[Len(calls)]
<1>1. /\ regs.sup = TRUE /\ regs.a7 = SuperSp(c.regs) - 3
      /\ SuperSp(regs) = regs.a7 /\ UserSp(regs) = UserSp(c.regs)
      /\ SuperSp(c.regs) \in Int
      /\ mem[regs.a7] = Sup!Sr(c.regs) /\ mem[regs.a7 + 1] = c.regs.pc
      /\ IsCall(c, Len(calls) - 1)
  BY FrameAtTop, Zenon
<1>2. /\ regs' = Returned /\ regs \in Registers /\ regs.a7 \in Int
      /\ Cells(mem') /\ \A a \in 0 .. Highest + 3 : a >= regs.a7 + 3 => mem'[a] = mem[a]
  BY PopIs
<1>3. c.regs \in Registers /\ c.regs.pc \in Codes /\ c.regs.pc \in Places /\ c.regs.sup \in BOOLEAN
  BY <1>1, PlacesOfCodes, PointersAreInt DEF IsCall, Within
<1>4. (mem[regs.a7] = <<"sr", 1>>) = c.regs.sup
  BY <1>1, <1>3 DEF Sup!Sr
<1>5. PICK q : q = PopTo(regs, c.regs.pc, 3)
  OBVIOUS
<1>6. /\ q \in Registers /\ q.sup = TRUE /\ q.pc = c.regs.pc
      /\ SuperSp(q) = SuperSp(regs) + 3 /\ UserSp(q) = UserSp(regs)
  <2>1. 3 \in Int
    OBVIOUS
  <2>2. /\ q \in Registers /\ q.sup = regs.sup /\ q.pc = c.regs.pc
        /\ regs.sup = TRUE => SuperSp(q) = SuperSp(regs) + 3 /\ UserSp(q) = UserSp(regs)
    <3>1. HasPopped(PopTo(regs, c.regs.pc, 3), regs, c.regs.pc, 3)
      BY <1>2, <1>3, <2>1, PopsPc, Zenon
    <3>2. QED BY <1>5, <3>1 DEF HasPopped
  <2>3. QED BY <1>1, <2>2
<1>7. PICK s : s = Sup!SetState(q, c.regs.sup)
  OBVIOUS
<1>8. /\ s \in Registers /\ s.sup = c.regs.sup /\ s.pc = q.pc
      /\ SuperSp(s) = SuperSp(q) /\ UserSp(s) = UserSp(q)
  BY <1>3, <1>6, <1>7, SetStateIs
<1>9. Sup!Rte = s
  BY <1>1, <1>4, <1>5, <1>7 DEF Sup!Rte, PopTo
<1>10. /\ regs' \in Registers /\ regs'.sup = c.regs.sup /\ regs'.pc = c.regs.pc
       /\ SuperSp(regs') = SuperSp(s) /\ UserSp(regs') = UserSp(s)
  <2>1. -1 \in Int /\ regs' = [s EXCEPT !.d0 = -1]
    BY <1>2, <1>9 DEF Returned
  <2>2. QED BY <1>6, <1>8, <2>1, OtherD0Only
<1>11. SuperSp(regs') = SuperSp(c.regs) /\ UserSp(regs') = UserSp(c.regs)
  BY <1>1, <1>6, <1>8, <1>10
<1>12. \A a \in 0 .. Highest + 3 : a >= SuperSp(c.regs) => mem'[a] = mem[a]
  BY <1>1, <1>2
<1>13. QED
  <2>1. /\ c.kind # "jsr" /\ (c.kind # "super" => regs'.pc = c.regs.pc) /\ regs'.pc \in Codes
        /\ regs' \in Registers /\ regs'.sup = c.regs.sup
    BY <1>3, <1>10
  <2>2. Cells(mem')
    BY <1>2
  <2>3. QED BY <1>11, <1>12, <2>1, <2>2, Closes, Zenon

(* With a _SUPER_JSR's routine above whatever it has found on the stack.   *)
LEMMA JsrGoesOn ==
  ASSUME Balanced(mem, regs, calls), calls # <<>>, calls[Len(calls)].kind = "jsr",
         NEW size \in {2, 3}, NEW pc, NEW at0 \in {0, 1}, at0 + 2 = size, pc = mem[regs.a7 + at0],
         NEW s \in BOOLEAN, NEW q, q = PopTo(regs, pc, size),
         NEW t, t = q \/ t = ReturnedTo(q, s),
         Sup!PopFrame(t, size), calls' = calls
  PROVE  SupSafe' /\ LeadsBack
<1> DEFINE n == Len(calls)
<1>1. /\ regs' = t /\ regs \in Registers /\ regs.a7 \in Int /\ Cells(mem')
      /\ Within(regs, n) /\ Cells(mem) /\ Where(regs.pc, LastKind(calls)) /\ n \in Nat /\ n <= MaxCalls
  BY PopIs DEF Balanced
<1>2. LeadsBack
  BY SameLeadsBack
<1>3. Lowest(n) \in Nat /\ Highest \in Nat
  BY <1>1, SupervisorSizes DEF Lowest, Highest
<1>4. regs.a7 >= Lowest(n) /\ regs.a7 <= Highest
  BY <1>1 DEF Within, SuperSp, UserSp, Registers
<1>5. pc \in Cell /\ (pc # Junk => regs.a7 + size <= Highest) /\ pc \in Places
  <2>1. regs.a7 + at0 \in 0 .. Highest + 3
    BY <1>1, <1>3, <1>4
  <2>2. pc \in Cell /\ (pc # Junk => regs.a7 + at0 <= Highest - 2)
    BY <1>1, <2>1 DEF Cells
  <2>3. pc \in Places
    BY <2>2, PlacesOfCodes
  <2>4. QED BY <1>1, <1>3, <2>2, <2>3
<1>6. /\ q \in Registers /\ q.sup = regs.sup /\ q.pc = pc
      /\ regs.sup = TRUE => SuperSp(q) = SuperSp(regs) + size /\ UserSp(q) = UserSp(regs)
      /\ regs.sup = FALSE => SuperSp(q) = SuperSp(regs) /\ UserSp(q) = UserSp(regs) + size
  <2>1. size \in Int /\ regs \in Registers /\ pc \in Places
    BY <1>1, <1>5
  <2>2. HasPopped(PopTo(regs, pc, size), regs, pc, size)
    BY <2>1, PopsPc, Zenon
  <2>3. QED BY <2>2 DEF HasPopped
<1>7. t \in Registers /\ t.pc = pc /\ SuperSp(t) = SuperSp(q) /\ UserSp(t) = UserSp(q)
  <2>1. CASE t = q
    BY <1>6, <2>1
  <2>2. CASE t = ReturnedTo(q, s)
    <3>1. PICK u : u = Sup!SetState(q, s)
      OBVIOUS
    <3>2. u \in Registers /\ u.pc = pc /\ SuperSp(u) = SuperSp(q) /\ UserSp(u) = UserSp(q)
      BY <1>6, <3>1, SetStateIs
    <3>3. -1 \in Int /\ t = [u EXCEPT !.d0 = -1]
      BY <2>2, <3>1 DEF ReturnedTo
    <3>4. QED BY <3>2, <3>3, OtherD0Only
  <2>3. QED BY <2>1, <2>2
<1>8. CASE pc = Junk \/ pc \in {"sr"} \X {0, 1}
  <2>1. Stuck(pc)
    BY <1>8 DEF Stuck, Junk, Sup!Program, Sup!Vectors
  <2>2. QED BY <1>1, <1>2, <1>7, <2>1 DEF SupSafe
<1>9. CASE pc \in Codes \cup {Sup!RomVector, Sup!Sentinel} /\ pc # Junk
  <2>1. regs.sup \in BOOLEAN /\ SuperSp(regs) \in Int /\ UserSp(regs) \in Int
    BY <1>1, PointersAreInt
  <2>2. regs.a7 + size <= Highest
    BY <1>5, <1>9
  <2>3. Within(t, n)
    <3>1. CASE regs.sup
      <4>1. SuperSp(t) = regs.a7 + size /\ UserSp(t) = UserSp(regs)
        BY <1>6, <1>7, <3>1 DEF SuperSp
      <4>2. SuperSp(t) >= Lowest(n) /\ SuperSp(t) <= Highest
        BY <1>1, <1>3, <1>4, <2>2, <4>1
      <4>3. QED BY <1>1, <1>7, <4>1, <4>2 DEF Within
    <3>2. CASE ~regs.sup
      <4>1. UserSp(t) = regs.a7 + size /\ SuperSp(t) = SuperSp(regs)
        BY <1>6, <1>7, <3>2 DEF UserSp
      <4>2. UserSp(t) >= Lowest(n) /\ UserSp(t) <= Highest
        BY <1>1, <1>3, <1>4, <2>2, <4>1
      <4>3. QED BY <1>1, <1>7, <4>1, <4>2 DEF Within
    <3>3. QED BY <2>1, <3>1, <3>2
  <2>4. Where(t.pc, LastKind(calls))
    BY <1>7, <1>9 DEF Where, LastKind
  <2>5. Balanced(mem', regs', calls)
    BY <1>1, <2>3, <2>4, LooseKeeps
  <2>6. QED BY <1>2, <2>5 DEF SupSafe
<1>10. QED BY <1>5, <1>8, <1>9 DEF Cell

(* The innermost call is an IOCS call, whose handler has not yet returned.  *)
LEMMA IocsPops ==
  ASSUME Balanced(mem, regs, calls), Sup!TopKind = "iocs", regs.pc # Sup!RomVector,
         NEW q, q = regs \/ q = [regs EXCEPT !.d0 = -1],
         Sup!PopFrame(PopTo(q, mem[regs.a7], 2), 2), calls' = calls
  PROVE  SupSafe' /\ LeadsBack
<1> DEFINE n == Len(calls)
           c == calls[n]
           t == PopTo(q, mem[regs.a7], 2)
<1>1. calls # <<>> /\ c.kind = "iocs" /\ n \in 1 .. n
  BY DEF Sup!TopKind, Balanced
<1>2. Solid(calls, n) /\ c \in Call /\ ~Popped(regs.pc, c)
  BY <1>1 DEF Solid, Balanced, Popped
<1>3. Linked(c, regs, 0) /\ ReturnsToRom(mem, c)
  BY <1>1, <1>2 DEF Balanced, AtTop
<1>4. SuperSp(c.regs) \in Int /\ Inner(c) = SuperSp(c.regs) - 5
  BY <1>1, <1>2, InnerIs
<1>5. regs.sup = TRUE /\ regs.a7 = SuperSp(c.regs) - 5 /\ SuperSp(regs) = regs.a7
  <2>1. regs.sup = TRUE /\ SuperSp(regs) = Inner(c) + 0
    BY <1>3 DEF Linked
  <2>2. QED BY <1>4, <2>1 DEF SuperSp
<1>6. mem[regs.a7] = Sup!RomVector
  BY <1>1, <1>3, <1>5 DEF ReturnsToRom
<1>7. /\ regs' = t /\ regs \in Registers
      /\ Cells(mem') /\ \A a \in 0 .. Highest + 3 : a >= regs.a7 + 2 => mem'[a] = mem[a]
  <2>1. 2 \in {2, 3}
    OBVIOUS
  <2>2. QED BY <2>1, PopIs, Zenon
<1>8. q \in Registers /\ q.sup = TRUE /\ SuperSp(q) = SuperSp(regs) /\ UserSp(q) = UserSp(regs)
  <2>1. CASE q = regs
    BY <1>5, <1>7, <2>1
  <2>2. CASE q = [regs EXCEPT !.d0 = -1]
    <3>1. -1 \in Int
      OBVIOUS
    <3>2. QED BY <1>5, <1>7, <2>2, <3>1, OtherD0Only
  <2>3. QED BY <2>1, <2>2
<1>9. /\ regs' \in Registers /\ regs'.sup = regs.sup /\ regs'.pc = Sup!RomVector
      /\ SuperSp(regs') = SuperSp(regs) + 2 /\ UserSp(regs') = UserSp(regs)
  <2>1. Sup!RomVector \in Places /\ 2 \in Int
    BY PlacesOfCodes
  <2>2. HasPopped(PopTo(q, Sup!RomVector, 2), q, Sup!RomVector, 2)
    BY <1>8, <2>1, PopsPc, Zenon
  <2>3. regs' = PopTo(q, Sup!RomVector, 2)
    BY <1>6, <1>7
  <2>4. QED BY <1>5, <1>8, <2>2, <2>3 DEF HasPopped
<1>10. \A a \in 0 .. Highest + 3 : a >= SuperSp(regs) + 2 => mem'[a] = mem[a]
  BY <1>5, <1>7
<1>11. Balanced(mem', regs', calls)
  <2>1. Cells(mem')
    BY <1>7
  <2>2. QED BY <1>1, <1>2, <1>9, <1>10, <2>1, PopKeeps, Zenon
<1>12. LeadsBack
  BY SameLeadsBack
<1>13. QED BY <1>11, <1>12 DEF SupSafe

(* A step that changes PC and D0 only.                                     *)
LEMMA QuietStep ==
  ASSUME Balanced(mem, regs, calls), regs.pc \in Codes, mem' = mem, calls' = calls,
         NEW pc \in Codes \cup {Sup!RomCall(0)}, pc = Sup!RomCall(0) => Sup!TopKind = "iocs",
         regs' \in Registers, regs'.sup = regs.sup, regs'.pc = pc,
         SuperSp(regs') = SuperSp(regs), UserSp(regs') = UserSp(regs)
  PROVE  SupSafe' /\ LeadsBack
<1>1. Where(pc, LastKind(calls))
  BY DEF Where, LastKind, Sup!TopKind
<1>2. pc # Sup!RomVector
  BY CodesAreNot
<1>3. Balanced(mem, regs', calls)
  BY <1>1, <1>2, QuietKeeps
<1>4. LeadsBack
  BY SameLeadsBack
<1>5. QED BY <1>3, <1>4 DEF SupSafe

LEMMA EndIsSafe ==
  ASSUME Balanced(mem, regs, calls), NEW r, Sup!Finish(r), r \in Registers, calls' = calls
  PROVE  SupSafe' /\ LeadsBack
<1>1. regs'.pc = Sup!End
  BY DEF Sup!Finish, Registers
<1>2. Stuck(regs'.pc)
  BY <1>1 DEF Stuck, Sup!End, Sup!Program, Sup!Vectors
<1>3. QED BY <1>2, SameLeadsBack DEF SupSafe

(* No stack is given back from user state.                                 *)
LEMMA NotFromUser ==
  ASSUME Balanced(mem, regs, calls), NEW s \in Sup!Stacks, s # 0
  PROVE  Sup!TopKind = "super" /\ s = calls[Len(calls)].regs.d0 /\ regs.sup = TRUE /\ calls # <<>>
<1> DEFINE n == Len(calls)
<1>1. PICK j \in {n} : j > 0 /\ Sup!TopKind = "super" /\ s = calls[j].regs.d0
  BY DEF Sup!Stacks
<1>2. calls # <<>> /\ calls[n].kind = "super" /\ n \in 1 .. n
  BY <1>1 DEF Sup!TopKind, Balanced
<1>3. Solid(calls, n)
  BY <1>2 DEF Solid
<1>4. QED BY <1>1, <1>2, <1>3 DEF Balanced, AtTop, Linked

(* _SUPER and _B_SUPER, r being the registers behind the instruction and d *)
(* what is in D0 when the stacks are not changed, or given back.            *)
LEMMA SuperSteps ==
  ASSUME Balanced(mem, regs, calls), regs.pc \in Codes, Len(calls) < MaxCalls,
         NEW r \in Registers, r.sup = regs.sup, r.pc \in Codes,
         SuperSp(r) = SuperSp(regs), UserSp(r) = UserSp(regs),
         NEW s \in Sup!Stacks, Sup!Switch(s, regs'), mem' = mem,
         NEW d \in Int,
         s # 0 /\ r.sup => regs' = Left(r, s) \/ regs' = [Left(r, s) EXCEPT !.d0 = d],
         s = 0 /\ r.sup => regs' = [r EXCEPT !.d0 = d],
         s = 0 /\ ~r.sup => regs' = Entered(r)
  PROVE  SupSafe' /\ LeadsBack
<1> DEFINE n == Len(calls)
           c == calls[n]
<1>1. r.sup \in BOOLEAN /\ regs \in Registers
  BY DEF Registers, Balanced, Within
<1>2. CASE s # 0
  <2>1. Sup!TopKind = "super" /\ s = c.regs.d0 /\ regs.sup = TRUE /\ calls # <<>>
    BY <1>2, NotFromUser
  <2>2. s \in Int
    <3>1. c \in Call
      BY <2>1 DEF Balanced
    <3>2. c.regs.d0 \in Int
      BY <3>1 DEF Call, Registers
    <3>3. QED BY <2>1, <3>2
  <2>3. PICK q : q = Left(r, s)
    OBVIOUS
  <2>4. q \in Registers /\ q.sup = FALSE /\ q.pc = r.pc /\ SuperSp(q) = s /\ UserSp(q) = SuperSp(r)
    <3>1. r.sup = TRUE
      BY <2>1
    <3>2. HasLeft(Left(r, s), r, s)
      BY <2>2, <3>1, SuperLeaves, Zenon
    <3>3. QED BY <2>3, <3>2 DEF HasLeft
  <2>5. regs' = q \/ regs' = [q EXCEPT !.d0 = d]
    BY <1>2, <2>1, <2>3
  <2>6. /\ regs' \in Registers /\ regs'.sup = FALSE /\ regs'.pc = r.pc
        /\ SuperSp(regs') = s /\ UserSp(regs') = SuperSp(r)
    <3>1. CASE regs' = q
      BY <2>4, <3>1
    <3>2. CASE regs' = [q EXCEPT !.d0 = d]
      BY <2>4, <3>2, OtherD0Only
    <3>3. QED BY <2>5, <3>1, <3>2
  <2>7. calls' = SubSeq(calls, 1, n - 1)
    BY <1>2 DEF Sup!Switch, Sup!Close
  <2>8. /\ regs'.pc \in Codes /\ SuperSp(regs') = calls[Len(calls)].regs.d0
         /\ UserSp(regs') = SuperSp(regs)
    BY <2>1, <2>6
  <2>9. QED BY <2>1, <2>6, <2>7, <2>8, SuperCloses, Zenon
<1>3. CASE s = 0 /\ r.sup
  <2>1. regs' = [r EXCEPT !.d0 = d]
    BY <1>3
  <2>2. /\ regs' \in Registers /\ regs'.sup = r.sup /\ regs'.pc = r.pc
        /\ SuperSp(regs') = SuperSp(r) /\ UserSp(regs') = UserSp(r)
    BY <2>1, OtherD0Only
  <2>3. calls' = calls
    BY <1>3 DEF Sup!Switch
  <2>4. r.pc \in Codes \cup {Sup!RomCall(0)} /\ (r.pc = Sup!RomCall(0) => Sup!TopKind = "iocs")
    BY CodesAreNot
  <2>5. QED BY <2>2, <2>3, <2>4, QuietStep
<1>4. CASE s = 0 /\ ~r.sup
  <2>1. r.sup = FALSE
    BY <1>1, <1>4
  <2>2. regs' = Entered(r) /\ r.sup = FALSE
    BY <1>4, <2>1
  <2>3. /\ regs' \in Registers /\ regs'.sup = TRUE /\ regs'.pc = r.pc /\ regs'.d0 = SuperSp(r)
        /\ SuperSp(regs') = UserSp(r) /\ UserSp(regs') = UserSp(r)
    BY <2>2, SuperEnters, Zenon
  <2>4. calls' = Append(calls, [kind |-> "super", regs |-> [regs EXCEPT !.d0 = regs'.d0]])
    BY <1>4, <2>3 DEF Sup!Switch, Sup!Open
  <2>5. /\ regs.sup = FALSE /\ regs'.pc \in Codes /\ regs'.d0 = SuperSp(regs)
        /\ SuperSp(regs') = UserSp(regs) /\ UserSp(regs') = UserSp(regs)
    BY <2>2, <2>3
  <2>6. QED BY <2>3, <2>4, <2>5, SuperOpens, Zenon
<1>5. QED BY <1>1, <1>2, <1>3, <1>4

(* Where the machine is stuck, none of the actions is possible.            *)
LEMMA StuckStays ==
  ASSUME Stuck(regs.pc)
  PROVE  ~Sup!Next
<1>1. /\ regs.pc[1] \notin Sup!Program
      /\ regs.pc # Sup!RomVector /\ regs.pc # Sup!Sentinel /\ regs.pc[1] # "call"
  BY DEF Stuck, Sup!RomVector, Sup!Sentinel
<1>2. ~Sup!MayOpen /\ ~Sup!Running /\ Sup!Fetch(regs.pc) # "iocs" /\ regs.pc[1] # "iocs"
  BY <1>1 DEF Sup!MayOpen, Sup!Running, Sup!Fetch, Sup!Program, Sup!Vectors
<1>3. ~Sup!IocsTrap /\ ~Sup!ChainToRom /\ ~Sup!RomEntry /\ ~Sup!HandlerReturn
  BY <1>2, Zenon DEF Sup!IocsTrap, Sup!ChainToRom, Sup!RomEntry, Sup!HandlerReturn
<1>4. ~Sup!RomFetch /\ ~Sup!DosSuper /\ ~Sup!DosSuperJsr /\ ~Sup!DosEnd
  BY <1>1, <1>2, Zenon DEF Sup!RomFetch, Sup!DosSuper, Sup!DosSuperJsr, Sup!DosEnd
<1>5. ~Sup!BootTrap /\ ~Sup!BootFault /\ ~Sup!ToUser
  BY <1>2, Zenon DEF Sup!BootTrap, Sup!BootFault, Sup!ToUser
<1>6. QED BY <1>3, <1>4, <1>5, Zenon DEF Sup!Next

LEMMA StepIocsTrap ==
  ASSUME Balanced(mem, regs, calls), Sup!IocsTrap
  PROVE  SupSafe' /\ LeadsBack
<1>1. /\ regs.pc[1] \in Sup!Program /\ Len(calls) < MaxCalls
      /\ \E n \in {Sup!Plain, Sup!Intvcs, Sup!BSuper, Sup!Invalid} : Sup!TrapHandler(n) \/ Sup!TrapRom(n)
  BY DEF Sup!IocsTrap, Sup!MayOpen, Sup!Running
<1>2. regs.pc \in Codes /\ Sup!Behind(regs.pc) \in Codes /\ regs \in Registers
  BY <1>1, RunningIs, PlacesOfCodes DEF Balanced, Within
<1>3. PICK n : Sup!TrapHandler(n) \/ Sup!TrapRom(n)
  BY <1>1
<1>4. CASE Sup!TrapHandler(n)
  <2>1. CASE /\ Sup!PushFrame(Sup!TrapFrame(Sup!Behind(regs.pc)), 3, <<"trap15", 0>>)
             /\ Sup!Open("trap", [regs EXCEPT !.pc = Sup!Behind(regs.pc), !.d0 = -1])
    <3>1. <<"trap15", 0>> \in Codes \cup {Sup!RomVector}
      BY DEF Codes, Sup!Program, Sup!Vectors
    <3>2. calls' = Append(calls, [kind |-> "trap",
                                  regs |-> [regs EXCEPT !.pc = Sup!Behind(regs.pc), !.d0 = -1]])
      BY <2>1 DEF Sup!Open
    <3>3. QED BY <1>1, <1>2, <2>1, <3>1, <3>2, TrapOpens, Zenon
  <2>2. CASE /\ Sup!PushFrame([i \in {0, 2, 3} |-> IF i = 0 THEN Sup!RomVector
                                      ELSE IF i = 2 THEN Sup!Sr(regs) ELSE Sup!Behind(regs.pc)],
                              5, <<"iocs", 0>>)
             /\ Sup!Open("iocs", [regs EXCEPT !.pc = Sup!Behind(regs.pc), !.d0 = -1])
    <3>1. Sup!PushFrame(IocsFrame(Sup!Behind(regs.pc)), 5, <<"iocs", 0>>)
      BY <2>2, Zenon DEF IocsFrame
    <3>2. calls' = Append(calls, [kind |-> "iocs",
                                  regs |-> [regs EXCEPT !.pc = Sup!Behind(regs.pc), !.d0 = -1]])
      BY <2>2, Zenon DEF Sup!Open
    <3>3. QED BY <1>1, <1>2, <3>1, <3>2, IocsOpens, Zenon
  <2>3. QED BY <1>4, <2>1, <2>2, Zenon DEF Sup!TrapHandler
<1>5. CASE Sup!TrapRom(n)
  <2> DEFINE r == [regs EXCEPT !.pc = Sup!Behind(regs.pc), !.d0 = -1]
  <2>1. /\ r \in Registers /\ r.sup = regs.sup /\ r.pc = Sup!Behind(regs.pc)
        /\ SuperSp(r) = SuperSp(regs) /\ UserSp(r) = UserSp(regs)
    BY <1>2, CallerIs, Zenon
  <2>2. /\ mem' = mem
        /\ \/ regs' = r /\ calls' = calls
           \/ \E s \in Sup!Stacks : regs' = Sup!IocsSuper(r, s) /\ Sup!Switch(s, regs')
           \/ Sup!Finish(r) /\ calls' = calls
    BY <1>5, Zenon DEF Sup!TrapRom
  <2> HIDE DEF r
  <2>3. CASE regs' = r /\ calls' = calls
    <3>1. r.pc \in Codes \cup {Sup!RomCall(0)} /\ (r.pc = Sup!RomCall(0) => Sup!TopKind = "iocs")
      BY <1>2, <2>1, CodesAreNot
    <3>2. QED BY <1>2, <2>1, <2>2, <2>3, <3>1, QuietStep
  <2>4. CASE \E s \in Sup!Stacks : regs' = Sup!IocsSuper(r, s) /\ Sup!Switch(s, regs')
    <3>1. PICK s \in Sup!Stacks : regs' = Sup!IocsSuper(r, s) /\ Sup!Switch(s, regs')
      BY <2>4
    <3>2. CASE s # 0 /\ ~r.sup
      BY <1>2, <2>1, <3>1, <3>2, NotFromUser
    <3>3. CASE ~(s # 0 /\ ~r.sup)
      <4>1. PICK d \in {0, 1} : d = IF s # 0 THEN 0 ELSE 1
        OBVIOUS
      <4>2. s # 0 /\ r.sup => regs' = Left(r, s) \/ regs' = [Left(r, s) EXCEPT !.d0 = d]
        BY <3>1, <4>1 DEF Sup!IocsSuper, Left
      <4>3. s = 0 /\ r.sup => regs' = [r EXCEPT !.d0 = d]
        BY <3>1, <4>1 DEF Sup!IocsSuper
      <4>4. s = 0 /\ ~r.sup => regs' = Entered(r)
        BY <3>1 DEF Sup!IocsSuper, Entered
      <4>5. d \in Int /\ r.pc \in Codes
        BY <1>2, <2>1
      <4>6. QED BY <1>1, <1>2, <2>1, <2>2, <3>1, <4>2, <4>3, <4>4, <4>5, SuperSteps, Zenon
    <3>4. QED BY <3>2, <3>3
  <2>5. CASE Sup!Finish(r) /\ calls' = calls
    BY <2>1, <2>5, EndIsSafe
  <2>6. QED BY <2>2, <2>3, <2>4, <2>5
<1>6. QED BY <1>3, <1>4, <1>5

LEMMA StepReturns ==
  ASSUME Balanced(mem, regs, calls), Sup!HandlerReturn \/ Sup!RomEntry \/ Sup!RomFetch
  PROVE  SupSafe' /\ LeadsBack
<1>1. /\ Where(regs.pc, LastKind(calls)) /\ LastKind(calls) = Sup!TopKind
      /\ Sup!TopKind # "none" => calls # <<>> /\ calls[Len(calls)].kind = Sup!TopKind
      /\ regs \in Registers
  <2>1. calls # <<>> => Len(calls) \in 1 .. Len(calls)
    BY DEF Balanced
  <2>2. calls # <<>> => calls[Len(calls)].kind # "none"
    <3>1. calls # <<>> => calls[Len(calls)] \in Call
      BY <2>1 DEF Balanced
    <3>2. QED BY <3>1 DEF Call
  <2>3. QED BY <2>2 DEF Balanced, Within, LastKind, Sup!TopKind
<1>2. CASE Sup!HandlerReturn
  <2>1. regs.pc[1] \in Sup!Program /\ regs.pc \in Codes /\ regs.pc # Sup!RomVector
    BY <1>2, RunningIs, CodesAreNot DEF Sup!HandlerReturn, Sup!Running
  <2>2. CASE Sup!TopKind = "trap" /\ Sup!PopFrame(Returned, 3) /\ Sup!Close
    BY <1>1, <2>2, RteCloses DEF Sup!Close
  <2>3. CASE Sup!TopKind = "iocs" /\ Sup!PopFrame(Sup!Rts, 2) /\ calls' = calls
    <3>1. Sup!Rts = PopTo(regs, mem[regs.a7], 2)
      BY DEF Sup!Rts, PopTo
    <3>2. QED BY <2>1, <2>3, <3>1, IocsPops
  <2>4. CASE Sup!TopKind = "jsr" /\ Sup!PopFrame(Sup!Rts, 2) /\ calls' = calls
    <3>1. PICK pc : pc = mem[regs.a7]
      OBVIOUS
    <3>2. PICK q : q = PopTo(regs, pc, 2)
      OBVIOUS
    <3>3. Sup!PopFrame(q, 2)
      BY <2>4, <3>1, <3>2 DEF Sup!Rts, PopTo
    <3>4. 2 \in {2, 3} /\ 0 \in {0, 1} /\ 0 + 2 = 2 /\ pc = mem[regs.a7 + 0] /\ TRUE \in BOOLEAN
      BY <1>1, <3>1 DEF Registers
    <3>5. QED BY <1>1, <2>4, <3>2, <3>3, <3>4, JsrGoesOn
  <2>5. QED BY <1>2, <2>2, <2>3, <2>4, Zenon DEF Sup!HandlerReturn, Returned
<1>3. CASE Sup!RomEntry
  <2>1. regs.pc[1] = "call" /\ Sup!PopFrame([regs EXCEPT !.d0 = -1, !.pc = mem[regs.a7], !.a7 = @ + 2], 2)
    BY <1>3 DEF Sup!RomEntry, Sup!Fetch
  <2>2. Sup!TopKind = "iocs" /\ regs.pc # Sup!RomVector
    BY <1>1, <2>1 DEF Where, Codes, Sup!Program, Sup!Vectors, Sup!RomVector, Sup!Sentinel
  <2>3. PICK q : q = [regs EXCEPT !.d0 = -1]
    OBVIOUS
  <2>4. PopTo(q, mem[regs.a7], 2) = [regs EXCEPT !.d0 = -1, !.pc = mem[regs.a7], !.a7 = @ + 2]
    BY <1>1, <2>3 DEF PopTo, Registers
  <2>5. calls' = calls
    BY <1>3 DEF Sup!RomEntry
  <2>6. QED BY <2>1, <2>2, <2>3, <2>4, <2>5, IocsPops
<1>4. CASE Sup!RomFetch
  <2>1. regs.pc \in {Sup!RomVector, Sup!Sentinel} /\ Sup!PopFrame(Returned, 3)
        /\ IF Sup!TopKind \in {"trap", "iocs"} /\ regs.pc = Sup!RomVector THEN Sup!Close ELSE calls' = calls
    <3>1. regs.pc \in {Sup!RomVector, Sup!Sentinel} /\ Sup!Fetch(regs.pc) = "rte"
      BY <1>4 DEF Sup!RomFetch, Sup!Fetch, Sup!RomVector, Sup!Sentinel
    <3>2. Sup!RomRte
      BY <1>4, <3>1, Zenon DEF Sup!RomFetch
    <3>3. QED BY <3>1, <3>2, Zenon DEF Sup!RomRte, Returned
  <2>2. \/ Sup!TopKind \in {"trap", "iocs"} /\ regs.pc = Sup!RomVector
        \/ Sup!TopKind = "jsr"
    BY <1>1, <2>1, CodesAreNot DEF Where
  <2>3. CASE Sup!TopKind \in {"trap", "iocs"} /\ regs.pc = Sup!RomVector
    <3>1. calls' = SubSeq(calls, 1, Len(calls) - 1)
      BY <2>1, <2>3, Zenon DEF Sup!Close
    <3>2. calls # <<>> /\ calls[Len(calls)].kind \in {"trap", "iocs"}
      BY <1>1, <2>3
    <3>3. QED BY <2>1, <2>3, <3>1, <3>2, RteCloses, Zenon
  <2>4. CASE Sup!TopKind = "jsr"
    <3>1. PICK pc : pc = mem[regs.a7 + 1]
      OBVIOUS
    <3>2. PICK q : q = PopTo(regs, pc, 3)
      OBVIOUS
    <3>3. PICK s \in BOOLEAN : s = (mem[regs.a7] = <<"sr", 1>>)
      OBVIOUS
    <3>4. Returned = ReturnedTo(q, s)
      BY <3>1, <3>2, <3>3 DEF Returned, ReturnedTo, Sup!Rte, PopTo
    <3>5. 3 \in {2, 3} /\ 1 \in {0, 1} /\ 1 + 2 = 3 /\ calls' = calls
      BY <2>1, <2>4
    <3>6. Sup!PopFrame(ReturnedTo(q, s), 3)
      BY <2>1, <3>4
    <3>7. QED BY <1>1, <2>4, <3>1, <3>2, <3>5, <3>6, JsrGoesOn
  <2>5. QED BY <2>2, <2>3, <2>4
<1>5. QED BY <1>2, <1>3, <1>4

LEMMA StepDosCalls ==
  ASSUME Balanced(mem, regs, calls), Sup!DosSuper \/ Sup!DosSuperJsr \/ Sup!DosEnd
  PROVE  SupSafe' /\ LeadsBack
<1>1. regs \in Registers /\ regs.pc[1] \in Sup!Program
  BY DEF Balanced, Within, Sup!DosSuper, Sup!DosSuperJsr, Sup!DosEnd, Sup!MayOpen, Sup!Running
<1>2. regs.pc \in Codes /\ Sup!Behind(regs.pc) \in Codes /\ Sup!Behind(regs.pc) \in Places
  BY <1>1, RunningIs, PlacesOfCodes
<1>3. CASE Sup!DosSuper
  <2>1. PICK r : r = [regs EXCEPT !.pc = Sup!Behind(regs.pc)]
    OBVIOUS
  <2>2. /\ r \in Registers /\ r.sup = regs.sup /\ r.pc = Sup!Behind(regs.pc)
        /\ SuperSp(r) = SuperSp(regs) /\ UserSp(r) = UserSp(regs)
    BY <1>1, <1>2, <2>1, OtherPcOnly
  <2>3. PICK s \in Sup!Stacks :
          /\ regs' = IF s # 0
                     THEN IF r.sup THEN Sup!SetState([r EXCEPT !.usp = r.a7, !.a7 = s], FALSE) ELSE r
                     ELSE IF r.sup THEN [r EXCEPT !.d0 = -26]
                     ELSE LET t == Sup!SetState(r, TRUE) IN [t EXCEPT !.d0 = t.a7, !.a7 = t.usp]
          /\ Sup!Switch(s, regs')
    BY <1>3, <2>1, Zenon DEF Sup!DosSuper
  <2>4. CASE s # 0 /\ ~r.sup
    BY <2>2, <2>4, NotFromUser
  <2>5. CASE ~(s # 0 /\ ~r.sup)
    <3>1. s # 0 /\ r.sup => regs' = Left(r, s) \/ regs' = [Left(r, s) EXCEPT !.d0 = -26]
      BY <2>3 DEF Left
    <3>2. s = 0 /\ r.sup => regs' = [r EXCEPT !.d0 = -26]
      BY <2>3
    <3>3. s = 0 /\ ~r.sup => regs' = Entered(r)
      BY <2>3 DEF Entered
    <3>4. -26 \in Int /\ r.pc \in Codes /\ mem' = mem /\ Len(calls) < MaxCalls
      <4>1. mem' = mem /\ Len(calls) < MaxCalls
        BY <1>3, Zenon DEF Sup!DosSuper, Sup!MayOpen
      <4>2. -26 \in Int
        OBVIOUS
      <4>3. QED BY <1>2, <2>2, <4>1, <4>2
    <3>5. QED BY <1>2, <2>2, <2>3, <3>1, <3>2, <3>3, <3>4, SuperSteps
  <2>6. QED BY <2>4, <2>5
<1>4. CASE Sup!DosSuperJsr
  <2>1. /\ Len(calls) < MaxCalls /\ Sup!PushFrame([i \in {0} |-> Sup!Sentinel], 2, <<"jsr", 0>>)
        /\ calls' = Append(calls, [kind |-> "jsr", regs |-> [regs EXCEPT !.pc = Sup!Behind(regs.pc)]])
    BY <1>4, Zenon DEF Sup!DosSuperJsr, Sup!MayOpen, Sup!Open
  <2>2. QED BY <1>2, <2>1, JsrOpens, Zenon
<1>5. CASE Sup!DosEnd
  BY <1>1, <1>5, EndIsSafe DEF Sup!DosEnd
<1>6. QED BY <1>3, <1>4, <1>5

LEMMA StepOther ==
  ASSUME Balanced(mem, regs, calls),
         Sup!ChainToRom \/ Sup!BootTrap \/ Sup!BootFault \/ Sup!ToUser
  PROVE  SupSafe' /\ LeadsBack
<1>1. regs \in Registers /\ regs.pc[1] \in Sup!Program
  BY DEF Balanced, Within, Sup!ChainToRom, Sup!BootTrap, Sup!BootFault, Sup!ToUser, Sup!MayOpen,
         Sup!Running, Sup!Program, Sup!Vectors
<1>2. regs.pc \in Codes /\ Sup!Behind(regs.pc) \in Codes /\ Sup!Behind(regs.pc) \in Places
  BY <1>1, RunningIs, PlacesOfCodes
<1>3. CASE Sup!ChainToRom
  <2>1. regs' = [regs EXCEPT !.pc = Sup!RomCall(0)] /\ Sup!TopKind = "iocs" /\ mem' = mem /\ calls' = calls
    BY <1>3 DEF Sup!ChainToRom, Sup!Plain
  <2>2. /\ regs' \in Registers /\ regs'.sup = regs.sup /\ regs'.pc = Sup!RomCall(0)
        /\ SuperSp(regs') = SuperSp(regs) /\ UserSp(regs') = UserSp(regs)
    BY <1>1, <2>1, PlacesOfCodes, OtherPcOnly
  <2>3. Sup!RomCall(0) \in Codes \cup {Sup!RomCall(0)}
    OBVIOUS
  <2>4. QED BY <1>2, <2>1, <2>2, <2>3, QuietStep, Zenon
<1>4. CASE Sup!BootTrap
  <2>1. PICK v \in {"fline", "trap"} :
          LET pc == IF v = "fline" THEN regs.pc ELSE Sup!Behind(regs.pc)
          IN /\ Sup!PushFrame(Sup!TrapFrame(pc), 3, Sup!Entry(v))
             /\ Sup!Open("trap", [regs EXCEPT !.d0 = -1, !.pc = pc])
    BY <1>4, Zenon DEF Sup!BootTrap
  <2>2. PICK pc \in Codes : pc = IF v = "fline" THEN regs.pc ELSE Sup!Behind(regs.pc)
    BY <1>2
  <2>3. Sup!PushFrame(Sup!TrapFrame(pc), 3, Sup!Entry(v))
    BY <2>1, <2>2, Zenon
  <2>4. calls' = Append(calls, [kind |-> "trap", regs |-> [regs EXCEPT !.pc = pc, !.d0 = -1]])
    <3>1. [regs EXCEPT !.d0 = -1, !.pc = pc] = [regs EXCEPT !.pc = pc, !.d0 = -1]
      BY <1>1 DEF Registers
    <3>2. QED BY <2>1, <2>2, <3>1, Zenon DEF Sup!Open
  <2>5. Sup!Entry(v) \in Codes \cup {Sup!RomVector}
    BY DEF Sup!Entry, Codes, Sup!Program, Sup!Vectors
  <2>6. Len(calls) < MaxCalls
    BY <1>4 DEF Sup!BootTrap, Sup!MayOpen
  <2>7. QED BY <1>2, <2>3, <2>4, <2>5, <2>6, TrapOpens, Zenon
<1>5. CASE Sup!BootFault
  <2>1. CASE Sup!Finish(regs) /\ calls' = calls
    BY <1>1, <2>1, EndIsSafe
  <2>2. CASE /\ Sup!PushFrame([i \in {0, 1, 3, 4, 5} |-> IF i = 5 THEN regs.pc
                                  ELSE IF i = 4 THEN Sup!Sr(regs) ELSE <<"fault", i>>], 7, <<"rerun", 0>>)
             /\ Sup!Open("fault", [regs EXCEPT !.pc = rerun])
    <3>1. regs'.pc = <<"rerun", 0>>
      BY <1>1, <2>2, SetStateIs DEF Sup!PushFrame, Registers
    <3>2. Stuck(regs'.pc)
      BY <3>1 DEF Stuck, Sup!Program, Sup!Vectors
    <3>3. Len(calls') = Len(calls) + 1 /\ Len(calls) \in Nat
      BY <2>2 DEF Sup!Open, Balanced
    <3>4. QED BY <3>2, <3>3 DEF SupSafe, LeadsBack
  <2>3. QED BY <1>5, <2>1, <2>2, Zenon DEF Sup!BootFault
<1>6. CASE Sup!ToUser
  <2>1. regs' = [Sup!SetState(regs, FALSE) EXCEPT !.pc = Sup!Behind(@)] /\ calls = <<>> /\ mem' = mem /\ calls' = calls
    BY <1>6 DEF Sup!ToUser
  <2>2. PICK s : s = Sup!SetState(regs, FALSE)
    OBVIOUS
  <2>3. s \in Registers /\ s.pc = regs.pc /\ SuperSp(s) = SuperSp(regs) /\ UserSp(s) = UserSp(regs)
    BY <1>1, <2>2, SetStateIs
  <2>4. regs' = [s EXCEPT !.pc = Sup!Behind(regs.pc)]
    BY <2>1, <2>2, <2>3
  <2>5. /\ regs' \in Registers /\ regs'.pc = Sup!Behind(regs.pc)
        /\ SuperSp(regs') = SuperSp(s) /\ UserSp(regs') = UserSp(s)
    BY <1>2, <2>3, <2>4, OtherPcOnly
  <2>6. Within(regs', Len(calls)) /\ Cells(mem') /\ Where(regs'.pc, LastKind(calls))
    BY <1>2, <2>1, <2>3, <2>5 DEF Balanced, Within, Where
  <2>7. Balanced(mem', regs', calls)
    BY <2>1, <2>6, LooseKeeps, Zenon
  <2>8. QED BY <2>1, <2>7, SameLeadsBack DEF SupSafe
<1>7. QED BY <1>3, <1>4, <1>5, <1>6

LEMMA StepCalls ==
  ASSUME SupSafe, Sup!Next
  PROVE  SupSafe' /\ LeadsBack
<1>1. Balanced(mem, regs, calls)
  BY StuckStays DEF SupSafe
<1>2. CASE Sup!IocsTrap
  BY <1>1, <1>2, StepIocsTrap
<1>3. CASE Sup!HandlerReturn \/ Sup!RomEntry \/ Sup!RomFetch
  BY <1>1, <1>3, StepReturns
<1>4. CASE Sup!DosSuper \/ Sup!DosSuperJsr \/ Sup!DosEnd
  BY <1>1, <1>4, StepDosCalls
<1>5. CASE Sup!ChainToRom \/ Sup!BootTrap \/ Sup!BootFault \/ Sup!ToUser
  BY <1>1, <1>5, StepOther
<1>6. QED BY <1>2, <1>3, <1>4, <1>5, Zenon DEF Sup!Next

LEMMA InitCalls ==
  ASSUME Sup!Init
  PROVE  SupSafe
<1> DEFINE r == [sup |-> TRUE, a7 |-> Top + (IF dos THEN 0 ELSE SuperTop), usp |-> Top,
                 ssp |-> 0, pc |-> <<"main", 2>>, d0 |-> -1]
<1>1. /\ dos \in BOOLEAN /\ regs = IF dos THEN Sup!SetState(r, FALSE) ELSE r
      /\ mem = [a \in 0 .. (Top + SuperTop + 3) |-> <<"junk", 0>>] /\ calls = <<>>
  BY DEF Sup!Init
<1>2. r \in Registers
  BY SupervisorSizes DEF Registers, Places, Sup!Program
<1>3. r.pc = <<"main", 2>> /\ UserSp(r) = Top /\ SuperSp(r) = Top + (IF dos THEN 0 ELSE SuperTop)
  BY DEF SuperSp, UserSp
<1> HIDE DEF r
<1>4. /\ regs \in Registers /\ regs.pc = <<"main", 2>> /\ UserSp(regs) = Top
      /\ SuperSp(regs) = Top + (IF dos THEN 0 ELSE SuperTop)
  <2>1. CASE dos
    BY <1>1, <1>2, <1>3, <2>1, SetStateIs
  <2>2. CASE ~dos
    BY <1>1, <1>2, <1>3, <2>2
  <2>3. QED BY <2>1, <2>2
<1>5. Within(regs, 0)
  <2>1. Lowest(0) = Top /\ Highest = Top + SuperTop /\ Top \in Nat /\ SuperTop \in Nat
    BY SupervisorSizes DEF Lowest, Highest
  <2>2. SuperSp(regs) >= Top /\ SuperSp(regs) <= Top + SuperTop
    BY <1>1, <1>4, <2>1
  <2>3. UserSp(regs) >= Top /\ UserSp(regs) <= Top + SuperTop
    BY <1>4, <2>1
  <2>4. QED BY <1>4, <2>1, <2>2, <2>3 DEF Within
<1>6. Cells(mem)
  BY <1>1 DEF Cells, Cell, Junk, Highest
<1>7. calls \in Seq(Call) /\ Len(calls) = 0
  BY <1>1
<1>8. Where(regs.pc, LastKind(calls))
  BY <1>4 DEF Where, Codes, Sup!Program
<1>9. Balanced(mem, regs, calls)
  <2>1. Len(calls) <= MaxCalls /\ Within(regs, Len(calls))
    BY <1>5, <1>7, SupervisorSizes
  <2>2. \A i : i \notin 1 .. Len(calls)
    BY <1>7
  <2>3. QED BY <1>1, <1>6, <1>7, <1>8, <2>1, <2>2, Zenon DEF Balanced
<1>10. QED BY <1>9 DEF SupSafe

(* Every call that has returned left the state, both stacks and the PC as  *)
(* its caller expects, however _SUPER, traps, the program's handlers and   *)
(* the ROM nest, for any number of open calls and any stacks.              *)
THEOREM CallsLeadBack == MachineSpec => CallsBalance
<1> DEFINE I == part = "supervisor" => SupSafe
<1>1. MachineInit => I
  BY InitCalls DEF MachineInit
<1>2. I /\ [MachineNext]_machineVars => I'
  <2>1. ASSUME I, [MachineNext]_machineVars, part = "supervisor"
        PROVE  SupSafe'
    <3>1. CASE Sup!Next
      BY <2>1, <3>1, StepCalls
    <3>2. CASE UNCHANGED supv
      BY <2>1, <3>2 DEF supv, SupSafe
    <3>3. QED BY <2>1, <3>1, <3>2, OthersLeaveAlone
  <2>2. QED BY <2>1, OthersLeaveAlone
<1>3. I /\ [MachineNext]_machineVars => [LeadsBack]_(Sup!vars)
  <2>1. SUFFICES ASSUME I, [MachineNext]_machineVars
                 PROVE  [LeadsBack]_(Sup!vars)
    OBVIOUS
  <2>2. CASE part = "supervisor" /\ Sup!Next
    BY <2>1, <2>2, StepCalls
  <2>3. CASE UNCHANGED supv
    BY <2>3 DEF supv, Sup!vars
  <2>4. QED BY <2>1, <2>2, <2>3, OthersLeaveAlone
<1>4. QED BY <1>1, <1>2, <1>3, PTL DEF MachineSpec, CallsBalance, Sup!CallsBalance, LeadsBack
-----------------------------------------------------------------------------
(* The types of the parts.                                                 *)

LEMMA StepSettingsType ==
  ASSUME Ram!TypeOK, Ram!Next
  PROVE  Ram!TypeOK'
<1> USE DEF Ram!TypeOK, Ram!DefaultSize, Ram!DefaultDevice
<1>1. PICK p \in Process :
        \/ Ram!Open(p) \/ Ram!Extend(p) \/ Ram!SetSize(p) \/ Ram!SetDevice(p)
        \/ Ram!Get(p) \/ Ram!Put(p) \/ Ram!Stop(p)
  BY DEF Ram!Next
<1>2. CASE Ram!Open(p)
  BY <1>2 DEF Ram!Open, Ram!Goes
<1>3. CASE Ram!Extend(p)
  BY <1>3 DEF Ram!Extend, Ram!Goes
<1>4. CASE Ram!SetSize(p)
  BY <1>4 DEF Ram!SetSize, Ram!Goes
<1>5. CASE Ram!SetDevice(p)
  BY <1>5 DEF Ram!SetDevice, Ram!Goes
<1>6. CASE Ram!Get(p) \/ Ram!Put(p)
  BY <1>6 DEF Ram!Get, Ram!Put, Ram!svars
<1>7. CASE Ram!Stop(p)
  BY <1>7 DEF Ram!Stop
<1>8. QED BY <1>1, <1>2, <1>3, <1>4, <1>5, <1>6, <1>7

LEMMA StepMouseType ==
  ASSUME MotionInv, MotionInv', Mou!TypeOK, Mou!Next
  PROVE  Mou!TypeOK'
<1>1. {pos', old', motion', seen', start'} \subseteq Int
  BY DEF MotionInv
<1>2. /\ buttons \in [Mou!Buttons -> BOOLEAN] /\ bounds \in Limits \cup {<<0, Screen>>}
      /\ reads \in -1 .. 1 /\ getdt.at \in {"idle", "right", "motion"}
  BY DEF Mou!TypeOK
<1>3. CASE Mou!MotionEvent
  BY <1>1, <1>2, <1>3 DEF Mou!MotionEvent, Mou!TypeOK
<1>4. CASE Mou!ButtonEvent
  BY <1>1, <1>2, <1>4 DEF Mou!ButtonEvent, Mou!TypeOK
<1>5. CASE Mou!TrackMouse
  BY <1>1, <1>2, <1>5 DEF Mou!TrackMouse, Mou!Account, Mou!TypeOK
<1>6. CASE Mou!GetLeft
  <2>1. getdt' = [[Mou!Idle EXCEPT !.at = "right"] EXCEPT !.left = buttons[0]]
    BY <1>6 DEF Mou!GetLeft
  <2>2. PICK g : g = [Mou!Idle EXCEPT !.at = "right"]
    OBVIOUS
  <2>3. g.at = "right" /\ "at" \in DOMAIN g
    BY <2>2 DEF Mou!Idle
  <2>4. getdt' = [g EXCEPT !.left = buttons[0]]
    BY <2>1, <2>2
  <2>5. getdt'.at = "right"
    BY <2>3, <2>4
  <2>6. QED BY <1>1, <1>2, <1>6, <2>5 DEF Mou!GetLeft, Mou!TypeOK
<1>7. CASE Mou!GetMotion
  BY <1>1, <1>2, <1>7 DEF Mou!GetMotion, Mou!TypeOK, Mou!Idle
<1>8. CASE Mou!Begin \/ Mou!MsInit \/ Mou!MsLimit
  BY <1>1, <1>2, <1>8 DEF Mou!Begin, Mou!MsInit, Mou!MsLimit, Mou!TypeOK
<1>9. CASE Mou!MsCurgt \/ Mou!MsCursor \/ Mou!MsStat \/ Mou!Set232c
  BY <1>1, <1>2, <1>9
  DEF Mou!MsCurgt, Mou!MsCursor, Mou!MsStat, Mou!Set232c, Mou!NoChange, Mou!mvars, Mou!TypeOK
<1>10. CASE Mou!GetRight
  BY <1>1, <1>2, <1>10 DEF Mou!GetRight, Mou!TypeOK
<1>11. QED
  BY <1>3, <1>4, <1>5, <1>6, <1>7, <1>8, <1>9, <1>10 DEF Mou!Next

LEMMA ConsoleTypes ==
  ASSUME ConsoleInv
  PROVE  Con!TypeOK
BY DEF ConsoleInv, Paper, Line, Chars, Con!TypeOK

LEMMA StepFontType ==
  ASSUME Fon!TypeOK, Fon!Next
  PROVE  Fon!TypeOK'
<1>1. CASE Fon!CopyData \/ Fon!GoOn
  BY <1>1 DEF Fon!CopyData, Fon!GoOn, Fon!TypeOK
<1>2. ASSUME NEW c, NEW size, Fon!DrawChar(c) \/ Fon!FntAdr(c, size) \/ Fon!FntGet(c, size)
      PROVE  Fon!TypeOK'
  <2>1. connected' \in BOOLEAN
    BY <1>2, Zenon DEF Fon!TypeOK, Fon!DrawChar, Fon!FntAdr, Fon!FntGet
  <2>2. \A o : Fon!GlyphAt(o)[1] \in {"narrow", "wide", "garbage", "zeros"}
    <3>1. Fon!Zeros[1] = "zeros" /\ Fon!Uncopied[1] = "garbage"
      BY DEF Fon!Zeros, Fon!Uncopied
    <3>2. \A o \in DOMAIN Fon!Contents : Fon!Contents[o][1] \in {"narrow", "wide"}
      BY DEF Fon!Contents
    <3>3. \A o : \/ Fon!GlyphAt(o) \in {Fon!Zeros, Fon!Uncopied}
                 \/ o \in DOMAIN Fon!Contents /\ Fon!GlyphAt(o) = Fon!Contents[o]
      BY SMT DEF Fon!GlyphAt
    <3>4. QED BY <3>1, <3>2, <3>3
  <2>3. CASE Fon!DrawChar(c)
    <3>1. place' = Fon!Nothing /\ \E u, v : drawn' = <<"wide", u, v>> \/ drawn' = <<"narrow", u>>
      BY <2>3, Zenon DEF Fon!DrawChar
    <3>2. \A u, v : <<"wide", u, v>>[1] = "wide" /\ <<"narrow", u>>[1] = "narrow"
      OBVIOUS
    <3>3. drawn'[1] \in {"narrow", "wide", "garbage", "zeros"}
      BY <3>1, <3>2
    <3>4. QED BY <2>1, <3>1, <3>3, Zenon DEF Fon!TypeOK
  <2>4. CASE Fon!FntGet(c, size)
    <3>1. place' = Fon!Nothing /\ \E o : drawn' = Fon!Nothing \/ drawn' = Fon!GlyphAt(o)
      BY <2>4, Zenon DEF Fon!FntGet
    <3>2. QED BY <2>1, <2>2, <3>1, Zenon DEF Fon!TypeOK
  <2>5. CASE Fon!FntAdr(c, size)
    <3>1. \E o, j : place' = <<o>> \o Fon!Shape(j, size)
      BY <2>5, Zenon DEF Fon!FntAdr
    <3>2. PICK o, j : place' = <<o>> \o Fon!Shape(j, size)
      BY <3>1
    <3>3. PICK x \in 0 .. 2, y \in {11, 15, 23} : Fon!Shape(j, size) = <<x, y>>
      BY DEF Fon!Shape
    <3>4. place' = <<o>> \o <<x, y>>
      BY <3>2, <3>3
    <3>5. (<<o>> \o <<x, y>>)[2] = x /\ (<<o>> \o <<x, y>>)[3] = y
      OBVIOUS
    <3>6. drawn' = Fon!Nothing
      BY <2>5, Zenon DEF Fon!FntAdr
    <3>7. QED BY <2>1, <3>4, <3>5, <3>6 DEF Fon!TypeOK
  <2>6. QED BY <1>2, <2>3, <2>4, <2>5
<1>3. QED BY <1>1, <1>2, Zenon DEF Fon!Next

Results ==
  {Flo!Ok, <<0, 1>>, <<0, 2>>, Flo!MinusOne, Flo!HostError, Flo!Short, Flo!Crash, Flo!RangeError}
    \cup {Flo!NoRecord(u) : u \in 0..3}

LEMMA BufferIs ==
  ASSUME FloppyInv
  PROVE  buffer \in Seq((0 .. 1) \X Nat)
<1>1. CASE buffer = <<>>
  BY <1>1
<1>2. ASSUME NEW u \in 0 .. 1, NEW n \in Nat, NEW done \in Nat, NEW end,
             Brought(u, n, done, buffer, end)
      PROVE  buffer \in Seq((0 .. 1) \X Nat)
  <2>1. \A i \in 1 .. done : <<u, n + i - 1>> \in (0 .. 1) \X Nat
    OBVIOUS
  <2>2. QED BY <1>2, <2>1 DEF Brought
<1>3. \A c \in 0 .. 255, h \in 0 .. 1, r \in 1 .. 8 : FloppyRecord(c, h, r) \in Nat
  BY DEF FloppyRecord
<1>4. QED BY <1>1, <1>2, <1>3, Zenon DEF FloppyInv, ReadIs

LEMMA StepFloppyType ==
  ASSUME result \in Results, Flo!Next
  PROVE  result' \in Results
<1>1. CASE Flo!GoOn
  BY <1>1 DEF Flo!GoOn
<1>2. ASSUME NEW p, p.u \in Nat, Flo!ReadDisk(p) PROVE result' \in Results
  <2>1. ASSUME NEW len, Flo!ImageRead(p, len)
        PROVE  result' \in {Flo!Ok, Flo!Short, Flo!HostError}
    <3>1. result' = Flo!Ok \/ result' = Flo!Short \/ result' = Flo!HostError
      BY <2>1, SMT DEF Flo!ImageRead
    <3>2. QED BY <3>1, Zenon
  <2>2. \/ result' \in {Flo!Crash, Flo!RangeError, Flo!Ok, Flo!Short, Flo!HostError}
        \/ result' = Flo!NoRecord(p.u) /\ ~(p.u >= Flo!NFDS)
    BY <1>2, <2>1, SMT DEF Flo!ReadDisk
  <2>3. p.u \in 0 .. 3 \/ p.u >= Flo!NFDS
    BY <1>2, SMT DEF Flo!NFDS
  <2>4. QED BY <2>2, <2>3, Zenon DEF Results
<1>3. CASE Flo!BRead
  <2>1. PICK k \in {8, 9}, u \in 0 .. Flo!NFDS, n \in Sizes, c \in Cylinders, h \in Heads,
             r \in Records, len \in ByteCounts :
          Flo!ReadDisk([k |-> k, u |-> u, n |-> n, c |-> c, h |-> h, r |-> r, len |-> len])
    BY <1>3, Zenon DEF Flo!BRead
  <2>2. [k |-> k, u |-> u, n |-> n, c |-> c, h |-> h, r |-> r, len |-> len].u \in Nat
    BY DEF Flo!NFDS
  <2>3. QED BY <1>2, <2>1, <2>2, Zenon
<1>4. CASE Flo!Boot
  <2>1. Flo!ReadDisk([k |-> 9, u |-> 0, n |-> 3, c |-> 0, h |-> 0, r |-> 1, len |-> Kilo])
    BY <1>4, SMT DEF Flo!Boot, Kilo
  <2>2. [k |-> 9, u |-> 0, n |-> 3, c |-> 0, h |-> 0, r |-> 1, len |-> Kilo].u \in Nat
    OBVIOUS
  <2>3. QED BY <1>2, <2>1, <2>2, Zenon
<1>5. ASSUME NEW d, Flo!Answer(d), d \in Results PROVE result' \in Results
  BY <1>5 DEF Flo!Answer
<1>6. CASE Flo!BDrvchk \/ Flo!BEject \/ Flo!BReady \/ Flo!BWrite
  <2>1. PICK d : /\ Flo!Answer(d)
                 /\ \/ d = <<0, 1>> \/ d = <<0, 2>> \/ d = Flo!Ok
                    \/ d = Flo!MinusOne \/ d = result
    BY <1>6, Zenon DEF Flo!BDrvchk, Flo!BEject, Flo!BReady, Flo!BWrite
  <2>2. d \in Results
    BY <2>1, Zenon DEF Results
  <2>3. QED BY <1>5, <2>1, <2>2
<1>7. QED BY <1>1, <1>3, <1>4, <1>6 DEF Flo!Next

(* Memory.                                                                 *)
Pairs == (0 .. 255) \X (0 .. 255)
Steps == {k * \h2000 : k \in 0 .. 256}

LEMMA PairIs ==
  \A f \in [1 .. 2 -> Byte] : f \in Pairs
<1>1. TAKE f \in [1 .. 2 -> Byte]
<1>2. f = <<f[1], f[2]>> /\ f[1] \in 0 .. 255 /\ f[2] \in 0 .. 255
  BY DEF Byte, Mem!Byte
<1>3. QED BY <1>2, Zenon DEF Pairs

MemRest ==
  /\ protected \in Steps
  /\ color \in Pairs
  /\ fdc \in {0, \hd0} /\ mfp \in {\hfb, \h6b} /\ user \in BOOLEAN

LEMMA MemoryTypes ==
  ASSUME MemTyped, MemRest
  PROVE  Mem!TypeOK
<1>1. content \in [MainWords -> Pairs]
  BY PairIs DEF MemTyped
<1>2. QED BY <1>1 DEF MemRest, Pairs, Steps, Mem!TypeOK

LEMMA InitMemRest == Mem!Init => MemRest
<1> SUFFICES ASSUME Mem!Init PROVE MemRest
  OBVIOUS
<1>1. color = <<0, 0>>
  BY DEF Mem!Init, Mem!Word
<1>2. color \in Pairs
  BY <1>1 DEF Pairs
<1>3. protected \in Steps
  <2>1. protected = 0 * \h2000 /\ 0 \in 0 .. 256
    BY SMT DEF Mem!Init
  <2>2. QED BY <2>1, SMT DEF Steps
<1>4. fdc \in {0, \hd0} /\ mfp \in {\hfb, \h6b} /\ user \in BOOLEAN
  <2>1. fdc \in {0, \hd0} /\ mfp \in {\hfb, \h6b}
    BY SMT DEF Mem!Init
  <2>2. user = FALSE
    BY SMT DEF Mem!Init
  <2>3. QED BY <2>1, <2>2
<1>5. QED BY <1>2, <1>3, <1>4, SMT DEF MemRest

LEMMA ColorAfterStore ==
  ASSUME color \in Pairs, NEW a \in Nat, NEW data \in Mem!Data("palettes"),
         Mem!PalettesStore(a, data)
  PROVE  color' \in Pairs
<1>1. Len(data) \in {1, 2} /\ data \in Seq(Byte) /\ \A k \in 1 .. Len(data) : data[k] \in Byte
  BY DataSize, DataShape
<1>2. PICK u \in 0 .. 255, v \in 0 .. 255 : color = <<u, v>>
  <2>1. \A S : \A c \in S \X S : \E u \in S, v \in S : c = <<u, v>>
    OBVIOUS
  <2>2. QED BY <2>1, Zenon DEF Pairs
<1>3. CASE Len(data) = 2
  <2>1. data = <<data[1], data[2]>> /\ data[1] \in 0 .. 255 /\ data[2] \in 0 .. 255
    BY <1>1, <1>3 DEF Byte, Mem!Byte
  <2>2. data \in Pairs
    BY <2>1, Zenon DEF Pairs
  <2>3. color' = color \/ color' = data
    BY <1>3 DEF Mem!PalettesStore
  <2>4. QED BY <2>2, <2>3
<1>4. CASE Len(data) = 1
  <2>1. PICK b \in 0 .. 255 : b = data[1]
    BY <1>1, <1>4 DEF Byte, Mem!Byte
  <2>2. PICK i \in {1, 2} : i = 2 - (a % 2)
    OBVIOUS
  <2>3. color' = color \/ color' = [color EXCEPT ![i] = b]
    BY <1>4, <2>1, <2>2 DEF Mem!PalettesStore
  <2>4. color' = <<u, v>> \/ color' = <<b, v>> \/ color' = <<u, b>>
    BY <1>2, <2>2, <2>3
  <2>5. QED BY <2>4 DEF Pairs
<1>5. QED BY <1>1, <1>3, <1>4

LEMMA StepMemRest ==
  ASSUME MemRest, Mem!Next
  PROVE  MemRest'
<1>1. CASE Mem!Store
  <2>1. PICK a \in Mem!Places :
          \E data \in Mem!Data(Mem!Device(a)), fc \in Mem!Codes : Stores(a, data, fc)
    BY <1>1, Zenon DEF Mem!Store, Stores
  <2>2. PICK data \in Mem!Data(Mem!Device(a)), fc \in Mem!Codes : Stores(a, data, fc)
    BY <2>1
  <2>3. color' \in Pairs
    <3>1. CASE UNCHANGED color
      BY <3>1 DEF MemRest
    <3>2. CASE Mem!Device(a) = "palettes" /\ Mem!PalettesStore(a % Mem!Space, data)
      BY <3>2, PlacesAreNumbers, ColorAfterStore, Zenon DEF MemRest
    <3>3. QED BY <2>2, <3>1, <3>2, Zenon DEF Stores
  <2>4. protected' \in Steps
    <3>1. Len(data) \in {1, 2, 4} /\ \A k \in 1..Len(data) : data[k] \in Byte
      BY <2>2, DataShape
    <3>2. Len(data) \in 1..Len(data)
      BY <3>1
    <3>3. data[Len(data)] \in 0..255
      BY <3>1, <3>2, Zenon DEF Byte, Mem!Byte
    <3>4. CASE UNCHANGED protected
      BY <3>4 DEF MemRest
    <3>5. CASE Mem!AreaStore(data)
      <4>1. PICK v \in 0..255 : v = data[Len(data)]
        BY <3>3
      <4>2. protected' = (v + 1) * \h2000
        BY <3>5, <4>1, SMT DEF Mem!AreaStore
      <4>3. v + 1 \in 0 .. 256
        OBVIOUS
      <4>4. QED BY <4>2, <4>3, SMT DEF Steps
    <3>6. QED BY <2>2, <3>4, <3>5, Zenon DEF Stores
  <2>5. user' \in BOOLEAN /\ fdc' = fdc /\ mfp' = mfp
    <3>1. user' = (fc # Mem!SUPER_DATA) /\ fdc' = fdc /\ mfp' = mfp
      BY <2>2, Zenon DEF Stores
    <3>2. QED BY <3>1
  <2>6. QED BY <2>3, <2>4, <2>5, SMT DEF MemRest
<1>2. CASE Mem!Read
  <2>1. /\ UNCHANGED <<protected, color>> /\ user' = FALSE
        /\ fdc' = fdc \/ fdc' = Mem!Fdc(1)[1]
        /\ mfp' = mfp \/ mfp' = Mem!Mfp(1)[1]
    BY <1>2, SMT DEF Mem!Read
  <2>2. Mem!Fdc(1)[1] \in {0, \hd0} /\ Mem!Mfp(1)[1] \in {\hfb, \h6b}
    BY SMT DEF Mem!Fdc, Mem!Mfp
  <2>3. fdc' \in {0, \hd0} /\ mfp' \in {\hfb, \h6b}
    BY <2>1, <2>2, SMT DEF MemRest
  <2>4. user' \in BOOLEAN /\ protected' = protected /\ color' = color
    BY <2>1
  <2>5. QED BY <2>3, <2>4, Zenon DEF MemRest
<1>3. CASE Mem!GoOn
  <2>1. UNCHANGED <<protected, color, fdc, mfp>> /\ user' \in BOOLEAN
    BY <1>3 DEF Mem!GoOn
  <2>2. QED BY <2>1, Zenon DEF MemRest
<1>4. QED BY <1>1, <1>2, <1>3 DEF Mem!Next

(* The supervisor state.                                                   *)

(* Where a stack pointer may be, with the words that a program may take    *)
(* beyond its stack's beginning.                                           *)
Held == 0 .. Highest + 3
OnStacks(r) == r.sup \in BOOLEAN /\ r.a7 \in Held /\ r.usp \in Held /\ r.ssp \in Held

RegistersAt(P) == [sup : BOOLEAN, a7 : Int, usp : Int, ssp : Int, pc : P, d0 : Int]

LEMMA QuietHeld ==
  ASSUME NEW P, NEW r \in RegistersAt(P), OnStacks(r), NEW pc, NEW d \in Int
  PROVE  /\ OnStacks([r EXCEPT !.pc = pc])
         /\ OnStacks([r EXCEPT !.d0 = d])
         /\ OnStacks([r EXCEPT !.pc = pc, !.d0 = d])
         /\ [r EXCEPT !.pc = pc] \in RegistersAt(P \cup {pc})
         /\ [r EXCEPT !.d0 = d] \in RegistersAt(P)
<1> DEFINE q == [r EXCEPT !.pc = pc]
<1>1. /\ q.sup = r.sup /\ q.a7 = r.a7 /\ q.usp = r.usp /\ q.ssp = r.ssp
      /\ q \in RegistersAt(P \cup {pc})
  BY DEF RegistersAt
<1>2. [q EXCEPT !.d0 = d] = [r EXCEPT !.pc = pc, !.d0 = d]
  OBVIOUS
<1> HIDE DEF q
<1>3. OnStacks(q) /\ OnStacks([q EXCEPT !.d0 = d])
  BY <1>1 DEF OnStacks, RegistersAt
<1>4. OnStacks([r EXCEPT !.d0 = d]) /\ [r EXCEPT !.d0 = d] \in RegistersAt(P)
  BY DEF OnStacks, RegistersAt
<1>5. QED BY <1>1, <1>2, <1>3, <1>4 DEF q

(* set_supervisor_state.                                                   *)
LEMMA SwitchHeld ==
  ASSUME NEW P, NEW r \in RegistersAt(P), OnStacks(r), NEW s \in BOOLEAN
  PROVE  OnStacks(Sup!SetState(r, s)) /\ Sup!SetState(r, s) \in RegistersAt(P)
<1>1. CASE s = r.sup
  BY <1>1 DEF Sup!SetState
<1>2. CASE s # r.sup /\ s
  BY <1>2 DEF Sup!SetState, RegistersAt, OnStacks
<1>3. CASE s # r.sup /\ ~s
  BY <1>3 DEF Sup!SetState, RegistersAt, OnStacks
<1>4. QED BY <1>1, <1>2, <1>3

LEMMA PopHeld ==
  ASSUME NEW r \in Registers, OnStacks(r), r.a7 <= Highest, NEW pc, NEW size \in {2, 3}
  PROVE  OnStacks(PopTo(r, pc, size)) /\ PopTo(r, pc, size) \in RegistersAt(Places \cup {pc})
<1>0. Highest \in Nat
  BY SupervisorSizes DEF Highest
<1> DEFINE v == [r EXCEPT !.pc = pc]
           q == [v EXCEPT !.a7 = @ + size]
<1>1. /\ v \in RegistersAt(Places \cup {pc}) /\ v.sup = r.sup /\ v.a7 = r.a7
      /\ v.usp = r.usp /\ v.ssp = r.ssp
  BY DEF Registers, RegistersAt
<1> HIDE DEF v
<1>2. /\ q \in RegistersAt(Places \cup {pc}) /\ q.sup = r.sup /\ q.a7 = r.a7 + size
      /\ q.usp = r.usp /\ q.ssp = r.ssp
  BY <1>1 DEF RegistersAt
<1>3. q = PopTo(r, pc, size)
  BY DEF PopTo, v
<1> HIDE DEF q
<1>4. r.a7 + size \in Held
  BY <1>0 DEF OnStacks, Held
<1>5. QED BY <1>2, <1>3, <1>4 DEF OnStacks

LEMMA PushHeld ==
  ASSUME regs \in Registers, OnStacks(regs), SuperSp(regs) >= 7, SuperSp(regs) <= Highest,
         NEW frame, NEW size \in {2, 3, 5, 7}, NEW entry, Sup!PushFrame(frame, size, entry)
  PROVE  OnStacks(regs')
<1>0. Highest \in Nat
  BY SupervisorSizes DEF Highest
<1> DEFINE s == Sup!SetState(regs, TRUE)
<1>1. s \in Registers /\ s.sup = TRUE /\ SuperSp(s) = SuperSp(regs) /\ OnStacks(s)
  <2>1. Registers = RegistersAt(Places)
    BY DEF Registers, RegistersAt
  <2>2. QED BY <2>1, SetStateIs, SwitchHeld, Zenon
<1> HIDE DEF s
<1>2. s.a7 = SuperSp(regs)
  BY <1>1 DEF SuperSp
<1> DEFINE q == [s EXCEPT !.a7 = @ - size]
<1>3. q.sup = TRUE /\ q.a7 = SuperSp(regs) - size /\ q.usp = s.usp /\ q.ssp = s.ssp
      /\ q \in Registers
  BY <1>1, <1>2 DEF Registers
<1>4. regs' = [q EXCEPT !.pc = entry]
  BY DEF Sup!PushFrame, s
<1> HIDE DEF q
<1>5. regs'.sup = TRUE /\ regs'.a7 = q.a7 /\ regs'.usp = q.usp /\ regs'.ssp = q.ssp
  BY <1>3, <1>4 DEF Registers
<1>6. SuperSp(regs) - size \in Held
  <2>1. SuperSp(regs) \in Int
    BY PointersAreInt
  <2>2. QED BY <1>0, <2>1 DEF Held
<1>7. QED BY <1>1, <1>3, <1>5, <1>6 DEF OnStacks

(* _SUPER and _B_SUPER, with a stack that is given back, and without.      *)
LEMMA SuperHeld ==
  ASSUME NEW r \in Registers, OnStacks(r), NEW s \in Held
  PROVE  /\ OnStacks(Left(r, s)) /\ \A d \in Int : OnStacks([Left(r, s) EXCEPT !.d0 = d])
         /\ OnStacks(Entered(r))
<1>1. Registers = RegistersAt(Places)
  BY DEF Registers, RegistersAt
<1>2. Held \subseteq Int
  BY DEF Held
<1>3. OnStacks(Left(r, s)) /\ \A d \in Int : OnStacks([Left(r, s) EXCEPT !.d0 = d])
  <2> DEFINE v == [r EXCEPT !.usp = r.a7]
             q == [v EXCEPT !.a7 = s]
  <2>1. v \in Registers /\ v.sup = r.sup /\ v.a7 = r.a7 /\ v.usp = r.a7 /\ v.ssp = r.ssp
    BY DEF Registers
  <2> HIDE DEF v
  <2>2. q \in Registers /\ OnStacks(q)
    BY <1>2, <2>1 DEF Registers, OnStacks
  <2>3. q = [r EXCEPT !.usp = r.a7, !.a7 = s]
    BY DEF v
  <2> HIDE DEF q
  <2>4. OnStacks(Left(r, s)) /\ Left(r, s) \in Registers
    BY <1>1, <2>2, <2>3, SwitchHeld DEF Left
  <2>5. QED BY <1>1, <2>4, QuietHeld
<1>4. OnStacks(Entered(r))
  <2> DEFINE t == Sup!SetState(r, TRUE)
  <2>1. t \in Registers /\ OnStacks(t)
    BY <1>1, SwitchHeld
  <2>2. Entered(r) = [t EXCEPT !.d0 = t.a7, !.a7 = t.usp]
    BY DEF Entered
  <2> HIDE DEF t
  <2> DEFINE q == [t EXCEPT !.d0 = t.a7]
  <2>3. q \in Registers /\ q.sup = t.sup /\ q.usp = t.usp /\ q.ssp = t.ssp
    BY <2>1 DEF Registers
  <2>4. Entered(r) = [q EXCEPT !.a7 = t.usp]
    BY <2>2
  <2> HIDE DEF q
  <2>5. QED BY <2>1, <2>3, <2>4 DEF OnStacks, Registers
<1>5. QED BY <1>3, <1>4

LEMMA ZeroAndOne == 0 \in Int /\ 1 \in Int
OBVIOUS

LEMMA BalancedHeld ==
  ASSUME Balanced(mem, regs, calls)
  PROVE  /\ regs \in Registers /\ Registers = RegistersAt(Places)
         /\ regs.a7 <= Highest /\ SuperSp(regs) <= Highest
         /\ Len(calls) < MaxCalls => SuperSp(regs) >= 7
         /\ \A s \in Sup!Stacks : s \in Held
<1>1. /\ Len(calls) \in Nat /\ regs \in Registers /\ Within(regs, Len(calls))
      /\ Highest \in Nat /\ MaxCalls \in Nat /\ Len(calls) <= MaxCalls
  BY SupervisorSizes DEF Balanced, Within, Highest
<1>2. SuperSp(regs) \in Int /\ UserSp(regs) \in Int /\ regs.sup \in BOOLEAN
  BY <1>1, PointersAreInt
<1>3. regs.a7 = SuperSp(regs) \/ regs.a7 = UserSp(regs)
  BY <1>2 DEF SuperSp, UserSp
<1>4. \A n \in Nat : n <= MaxCalls => Lowest(n) \in Int /\ Lowest(n) >= 0 /\ (n < MaxCalls => Lowest(n) >= 7)
  BY SupervisorSizes DEF Lowest
<1>5. ASSUME NEW s \in Sup!Stacks PROVE s \in Held
  <2>1. CASE s = 0
    BY <1>1, <2>1 DEF Held
  <2>2. CASE s # 0
    <3> DEFINE n == Len(calls)
               c == calls[n]
    <3>1. Sup!TopKind = "super" /\ s = c.regs.d0 /\ calls # <<>>
      BY <2>2, NotFromUser
    <3>2. n \in 1 .. n /\ c.kind = "super" /\ n - 1 \in Nat /\ n - 1 <= MaxCalls
      BY <1>1, <3>1 DEF Sup!TopKind
    <3>3. IsCall(c, n - 1)
      BY <3>2 DEF Balanced
    <3>4. s = SuperSp(c.regs) /\ c.regs \in Registers
      BY <3>1, <3>2, <3>3 DEF IsCall, Within
    <3>5. s \in Int
      BY <3>4, PointersAreInt
    <3>6. s >= Lowest(n - 1) /\ s <= Highest
      BY <3>3, <3>4 DEF IsCall, Within
    <3>7. QED BY <1>1, <1>4, <3>2, <3>5, <3>6 DEF Held
  <2>3. QED BY <2>1, <2>2
<1>6. Len(calls) < MaxCalls => SuperSp(regs) >= 7
  <2>1. Lowest(Len(calls)) \in Int /\ (Len(calls) < MaxCalls => Lowest(Len(calls)) >= 7)
    BY <1>1, <1>4
  <2>2. QED BY <1>1, <1>2, <2>1 DEF Within
<1>7. QED BY <1>1, <1>2, <1>3, <1>5, <1>6 DEF Within, Registers, RegistersAt

(* No step takes a pointer off the stacks' memory.                         *)
LEMMA StepHeld ==
  ASSUME Balanced(mem, regs, calls), OnStacks(regs), Sup!Next
  PROVE  OnStacks(regs')
<1>1. /\ regs \in Registers /\ Registers = RegistersAt(Places) /\ regs.a7 <= Highest
      /\ Len(calls) < MaxCalls => SuperSp(regs) >= 7 /\ SuperSp(regs) <= Highest
      /\ \A s \in Sup!Stacks : s \in Held
  BY BalancedHeld
<1>2. ASSUME NEW pc, NEW d \in Int,
             \/ regs' = [regs EXCEPT !.pc = pc]
             \/ regs' = [regs EXCEPT !.pc = pc, !.d0 = d]
             \/ Sup!Finish([regs EXCEPT !.pc = pc, !.d0 = d])
             \/ Sup!Finish(regs)
      PROVE  OnStacks(regs')
  <2>1. OnStacks([regs EXCEPT !.pc = pc, !.d0 = d])
    BY <1>1, QuietHeld, Zenon
  <2>2. [regs EXCEPT !.pc = pc, !.d0 = d] \in RegistersAt(Places \cup {pc})
    BY <1>1 DEF RegistersAt
  <2>3. OnStacks([[regs EXCEPT !.pc = pc, !.d0 = d] EXCEPT !.pc = Sup!End])
    <3> DEFINE q == [regs EXCEPT !.pc = pc, !.d0 = d]
    <3> HIDE DEF q
    <3>1. q \in RegistersAt(Places \cup {pc}) /\ OnStacks(q) /\ 0 \in Int
      BY <2>1, <2>2 DEF q
    <3>2. OnStacks([q EXCEPT !.pc = Sup!End])
      BY <3>1, QuietHeld
    <3>3. QED BY <3>2 DEF q
  <2>4. OnStacks([regs EXCEPT !.pc = Sup!End]) /\ OnStacks([regs EXCEPT !.pc = pc])
    BY <1>1, <1>2, QuietHeld, Zenon
  <2>5. QED BY <1>2, <2>1, <2>3, <2>4, Zenon DEF Sup!Finish
<1>3. ASSUME Len(calls) < MaxCalls, NEW frame, NEW size \in {2, 3, 5, 7}, NEW entry,
             Sup!PushFrame(frame, size, entry)
      PROVE  OnStacks(regs')
  BY <1>1, <1>3, PushHeld
<1>4. ASSUME NEW pc, regs' = PopTo(regs, pc, 2)
      PROVE  OnStacks(regs')
  BY <1>1, <1>4, PopHeld
<1>5. ASSUME NEW pc, NEW s \in BOOLEAN, NEW q, q = PopTo(regs, pc, 3), regs' = ReturnedTo(q, s)
      PROVE  OnStacks(regs')
  <2>1. OnStacks(q) /\ q \in RegistersAt(Places \cup {pc}) /\ -1 \in Int
    BY <1>1, <1>5, PopHeld
  <2>2. OnStacks(Sup!SetState(q, s)) /\ Sup!SetState(q, s) \in RegistersAt(Places \cup {pc})
    BY <2>1, SwitchHeld
  <2>3. QED BY <1>5, <2>1, <2>2, QuietHeld DEF ReturnedTo
<1>6. ASSUME Sup!PopFrame(Returned, 3)
      PROVE  OnStacks(regs')
  <2>1. PICK pc : pc = mem[regs.a7 + 1]
    OBVIOUS
  <2>2. PICK q : q = PopTo(regs, pc, 3)
    OBVIOUS
  <2>3. PICK s \in BOOLEAN : s = (mem[regs.a7] = <<"sr", 1>>)
    OBVIOUS
  <2>4. Returned = ReturnedTo(q, s)
    BY <2>1, <2>2, <2>3 DEF Returned, ReturnedTo, Sup!Rte, PopTo
  <2>5. regs' = ReturnedTo(q, s)
    BY <1>6, <2>4 DEF Sup!PopFrame
  <2>6. QED BY <1>5, <2>2, <2>5
<1>7. CASE Sup!IocsTrap
  <2>1. Len(calls) < MaxCalls /\ \E n : Sup!TrapHandler(n) \/ Sup!TrapRom(n)
    BY <1>7, Zenon DEF Sup!IocsTrap, Sup!MayOpen
  <2>2. PICK n : Sup!TrapHandler(n) \/ Sup!TrapRom(n)
    BY <2>1
  <2>3. CASE Sup!TrapHandler(n)
    <3>1. \E frame, entry : Sup!PushFrame(frame, 3, entry) \/ Sup!PushFrame(frame, 5, entry)
      BY <2>3, Zenon DEF Sup!TrapHandler
    <3>2. QED BY <1>3, <2>1, <3>1
  <2>4. CASE Sup!TrapRom(n)
    <3> DEFINE r == [regs EXCEPT !.pc = Sup!Behind(regs.pc), !.d0 = -1]
    <3>1. \/ regs' = r
          \/ \E s \in Sup!Stacks : regs' = Sup!IocsSuper(r, s)
          \/ Sup!Finish(r)
      BY <2>4, Zenon DEF Sup!TrapRom
    <3>2. CASE regs' = r \/ Sup!Finish(r)
      <4>1. -1 \in Int
        OBVIOUS
      <4>2. QED BY <1>2, <3>2, <4>1
    <3>3. CASE \E s \in Sup!Stacks : regs' = Sup!IocsSuper(r, s)
      <4>1. PICK s \in Sup!Stacks : regs' = Sup!IocsSuper(r, s)
        BY <3>3
      <4>2. r \in Registers /\ OnStacks(r) /\ s \in Held
        <5>1. regs.pc \in Places /\ -1 \in Int /\ Sup!Behind(regs.pc) \in Places
          BY <1>1 DEF Registers, Places, Sup!Behind
        <5>2. r \in Registers
          BY <1>1, <5>1, OtherPc, Zenon
        <5>3. OnStacks(r)
          BY <1>1, <5>1, QuietHeld, Zenon
        <5>4. QED BY <1>1, <5>2, <5>3
      <4> HIDE DEF r
      <4>3. /\ s # 0 /\ r.sup => regs' = [Left(r, s) EXCEPT !.d0 = 0]
            /\ s # 0 /\ ~r.sup => regs' = [r EXCEPT !.d0 = 0]
            /\ s = 0 /\ r.sup => regs' = [r EXCEPT !.d0 = 1]
        BY <4>1 DEF Sup!IocsSuper, Left
      <4>4. s = 0 /\ ~r.sup => regs' = Entered(r)
        BY <4>1 DEF Sup!IocsSuper, Entered
      <4>5. /\ OnStacks(Entered(r)) /\ OnStacks([Left(r, s) EXCEPT !.d0 = 0])
            /\ OnStacks([r EXCEPT !.d0 = 0]) /\ OnStacks([r EXCEPT !.d0 = 1])
        BY <1>1, <4>2, SuperHeld, QuietHeld, ZeroAndOne, Zenon
      <4>6. QED BY <4>3, <4>4, <4>5, Zenon
    <3>4. QED BY <3>1, <3>2, <3>3
  <2>5. QED BY <2>2, <2>3, <2>4
<1>8. CASE Sup!ChainToRom \/ Sup!DosEnd
  <2>1. regs' = [regs EXCEPT !.pc = Sup!RomCall(Sup!Plain)] \/ Sup!Finish(regs)
    BY <1>8, Zenon DEF Sup!ChainToRom, Sup!DosEnd
  <2>2. 0 \in Int
    OBVIOUS
  <2>3. QED BY <1>2, <2>1, <2>2
<1>9. CASE Sup!RomEntry
  <2>1. regs' = [regs EXCEPT !.d0 = -1, !.pc = mem[regs.a7], !.a7 = @ + 2]
    BY <1>9, Zenon DEF Sup!RomEntry, Sup!PopFrame
  <2>2. PICK q : q = [regs EXCEPT !.d0 = -1]
    OBVIOUS
  <2>3. q \in Registers /\ OnStacks(q) /\ q.a7 = regs.a7
    <3>1. -1 \in Int
      OBVIOUS
    <3>2. q \in Registers /\ q.a7 = regs.a7
      BY <1>1, <2>2, <3>1 DEF Registers
    <3>3. QED BY <1>1, <2>2, <3>1, <3>2, QuietHeld
  <2>4. regs' = PopTo(q, mem[regs.a7], 2)
    BY <1>1, <2>1, <2>2 DEF PopTo, Registers
  <2>5. QED BY <1>1, <2>3, <2>4, PopHeld
<1>10. CASE Sup!HandlerReturn
  <2>1. Sup!PopFrame(Returned, 3) \/ Sup!PopFrame(Sup!Rts, 2)
    BY <1>10, Zenon DEF Sup!HandlerReturn, Returned
  <2>2. CASE Sup!PopFrame(Sup!Rts, 2)
    <3>1. regs' = PopTo(regs, mem[regs.a7], 2)
      BY <2>2 DEF Sup!PopFrame, Sup!Rts, PopTo
    <3>2. QED BY <1>4, <3>1
  <2>3. QED BY <1>6, <2>1, <2>2
<1>11. CASE Sup!RomFetch
  <2>1. Sup!Fetch(regs.pc) = "rte"
    BY <1>11 DEF Sup!RomFetch, Sup!Fetch, Sup!RomVector, Sup!Sentinel
  <2>2. Sup!PopFrame(Returned, 3)
    BY <1>11, <2>1, Zenon DEF Sup!RomFetch, Sup!RomRte, Returned
  <2>3. QED BY <1>6, <2>2
<1>12. CASE Sup!DosSuper
  <2>1. PICK r : r = [regs EXCEPT !.pc = Sup!Behind(regs.pc)]
    OBVIOUS
  <2>2. PICK s \in Sup!Stacks :
          regs' = IF s # 0
                  THEN IF r.sup THEN Sup!SetState([r EXCEPT !.usp = r.a7, !.a7 = s], FALSE) ELSE r
                  ELSE IF r.sup THEN [r EXCEPT !.d0 = -26]
                  ELSE LET t == Sup!SetState(r, TRUE) IN [t EXCEPT !.d0 = t.a7, !.a7 = t.usp]
    BY <1>12, <2>1, Zenon DEF Sup!DosSuper
  <2>3. r \in Registers /\ OnStacks(r) /\ s \in Held /\ -26 \in Int
    <3>1. Sup!Behind(regs.pc) \in Places /\ 0 \in Int
      BY <1>1 DEF Registers, Places, Sup!Behind
    <3>2. r \in Registers
      BY <1>1, <2>1, <3>1, OtherPcOnly, Zenon
    <3>3. OnStacks(r)
      BY <1>1, <2>1, <3>1, QuietHeld, Zenon
    <3>4. QED BY <1>1, <3>2, <3>3
  <2>4. \/ regs' = Left(r, s) \/ regs' = r \/ regs' = [r EXCEPT !.d0 = -26] \/ regs' = Entered(r)
    BY <2>2 DEF Left, Entered
  <2>5. OnStacks(Left(r, s)) /\ OnStacks([r EXCEPT !.d0 = -26]) /\ OnStacks(Entered(r))
    BY <1>1, <2>3, SuperHeld, QuietHeld, Zenon
  <2>6. QED BY <2>3, <2>4, <2>5, Zenon
<1>13. CASE Sup!DosSuperJsr \/ Sup!BootTrap
  <2>1. Len(calls) < MaxCalls
    BY <1>13, Zenon DEF Sup!DosSuperJsr, Sup!BootTrap, Sup!MayOpen
  <2>2. \E frame, entry : Sup!PushFrame(frame, 2, entry) \/ Sup!PushFrame(frame, 3, entry)
    BY <1>13, Zenon DEF Sup!DosSuperJsr, Sup!BootTrap
  <2>3. QED BY <1>3, <2>1, <2>2
<1>14. CASE Sup!BootFault
  <2>1. Len(calls) < MaxCalls
    BY <1>14, Zenon DEF Sup!BootFault, Sup!MayOpen
  <2>2. Sup!Finish(regs) \/ \E frame, entry : Sup!PushFrame(frame, 7, entry)
    BY <1>14, Zenon DEF Sup!BootFault
  <2>3. 0 \in Int
    OBVIOUS
  <2>4. QED BY <1>2, <1>3, <2>1, <2>2, <2>3
<1>15. CASE Sup!ToUser
  <2>1. regs' = [Sup!SetState(regs, FALSE) EXCEPT !.pc = Sup!Behind(@)]
    BY <1>15 DEF Sup!ToUser
  <2>2. PICK q : q = Sup!SetState(regs, FALSE)
    OBVIOUS
  <2>3. q \in RegistersAt(Places) /\ OnStacks(q) /\ 0 \in Int
    <3>1. FALSE \in BOOLEAN /\ 0 \in Int
      OBVIOUS
    <3>2. QED BY <1>1, <2>2, <3>1, SwitchHeld, Zenon
  <2>4. regs' = [q EXCEPT !.pc = Sup!Behind(q.pc)]
    BY <2>1, <2>2, <2>3 DEF RegistersAt
  <2>5. QED BY <2>3, <2>4, QuietHeld
<1>16. QED
  BY <1>7, <1>8, <1>9, <1>10, <1>11, <1>12, <1>13, <1>14, <1>15, Zenon DEF Sup!Next

(* The calls of _SUPER_JSR that are open, each with its activation.        *)
JsrsOf(cs) == {i \in DOMAIN cs : cs[i].kind = "jsr"}
Activations == [pc : Places, sup : BOOLEAN]

LEMMA JsrsAre ==
  ASSUME NEW S, NEW cs \in Seq(S)
  PROVE  IsFiniteSet(JsrsOf(cs)) /\ Cardinality(JsrsOf(cs)) \in Nat
<1>1. JsrsOf(cs) \subseteq 1 .. Len(cs) /\ Len(cs) \in Nat
  BY DEF JsrsOf
<1>2. IsFiniteSet(1 .. Len(cs))
  BY <1>1, FS_Interval
<1>3. QED BY <1>1, <1>2, FS_Subset, FS_CardinalityType

LEMMA JsrsAfterOpen ==
  ASSUME NEW S, NEW cs \in Seq(S), NEW c
  PROVE  /\ c.kind = "jsr" => Cardinality(JsrsOf(Append(cs, c))) = Cardinality(JsrsOf(cs)) + 1
         /\ c.kind # "jsr" => Cardinality(JsrsOf(Append(cs, c))) = Cardinality(JsrsOf(cs))
<1> DEFINE n == Len(cs) + 1
           T == S \cup {c}
<1>1. cs \in Seq(T) /\ c \in T
  OBVIOUS
<1>2. /\ n \in Nat /\ DOMAIN cs = 1 .. n - 1 /\ DOMAIN Append(cs, c) = 1 .. n
      /\ Append(cs, c)[n] = c /\ \A i \in 1 .. n - 1 : Append(cs, c)[i] = cs[i]
  <2> HIDE DEF T
  <2>1. QED BY <1>1
<1>3. \A i \in 1 .. n : i \in 1 .. n - 1 \/ i = n
  BY <1>2
<1>4. n \notin JsrsOf(cs)
  BY <1>2 DEF JsrsOf
<1>5. c.kind = "jsr" => JsrsOf(Append(cs, c)) = JsrsOf(cs) \cup {n}
  <2> HIDE DEF n
  <2>1. QED BY <1>2, <1>3 DEF JsrsOf
<1>6. c.kind # "jsr" => JsrsOf(Append(cs, c)) = JsrsOf(cs)
  <2> HIDE DEF n
  <2>1. QED BY <1>2, <1>3 DEF JsrsOf
<1>7. IsFiniteSet(JsrsOf(cs))
  BY JsrsAre
<1>8. Cardinality(JsrsOf(cs) \cup {n}) = Cardinality(JsrsOf(cs)) + 1
  BY <1>4, <1>7, FS_AddElement
<1>9. QED BY <1>5, <1>6, <1>8, Zenon

LEMMA JsrsAfterClose ==
  ASSUME NEW cs \in Seq(Call), cs # <<>>
  PROVE  Cardinality(JsrsOf(SubSeq(cs, 1, Len(cs) - 1))) <= Cardinality(JsrsOf(cs))
<1> DEFINE ds == SubSeq(cs, 1, Len(cs) - 1)
<1>1. ds \in Seq(Call) /\ Len(ds) = Len(cs) - 1 /\ \A i \in 1 .. Len(cs) - 1 : ds[i] = cs[i]
  BY FrontIs
<1> HIDE DEF ds
<1>2. JsrsOf(ds) \subseteq JsrsOf(cs)
  BY <1>1 DEF JsrsOf
<1>3. IsFiniteSet(JsrsOf(cs))
  BY JsrsAre
<1>4. QED BY <1>2, <1>3, FS_Subset DEF ds

(* What no step changes but _SUPER_JSR and _B_INTVCS.                      *)
SupRest ==
  /\ dos \in BOOLEAN /\ OnStacks(regs)
  /\ vec \in [Sup!Vectors -> {"rom", "own"}]
  /\ runs \in Seq(Activations) /\ Len(runs) >= Cardinality(JsrsOf(calls))

LEMMA StepSupRest ==
  ASSUME SupSafe, SupRest, Sup!Next
  PROVE  SupRest'
<1>1. Balanced(mem, regs, calls) /\ OnStacks(regs')
  BY StuckStays, StepHeld DEF SupSafe, SupRest
<1>2. dos' = dos
  BY Zenon DEF Sup!Next, Sup!IocsTrap, Sup!ChainToRom, Sup!RomEntry, Sup!HandlerReturn, Sup!RomFetch,
       Sup!RomRte, Sup!JsrReturn, Sup!DosSuper, Sup!DosSuperJsr, Sup!DosEnd, Sup!BootTrap,
       Sup!BootFault, Sup!ToUser
<1>3. vec' \in [Sup!Vectors -> {"rom", "own"}]
  <2>1. vec' = vec \/ Sup!SetVector
    BY Zenon DEF Sup!Next, Sup!IocsTrap, Sup!TrapHandler, Sup!TrapRom, Sup!ChainToRom, Sup!RomEntry,
         Sup!HandlerReturn, Sup!RomFetch, Sup!RomRte, Sup!JsrReturn, Sup!DosSuper,
         Sup!DosSuperJsr, Sup!DosEnd, Sup!BootTrap, Sup!BootFault, Sup!ToUser
  <2>2. QED BY <2>1 DEF SupRest, Sup!SetVector
<1>4. \/ runs' = runs /\ \/ calls' = calls
                         \/ calls # <<>> /\ calls' = SubSeq(calls, 1, Len(calls) - 1)
                         \/ \E c : c.kind # "jsr" /\ calls' = Append(calls, c)
      \/ /\ runs' = Append(runs, [pc |-> regs.pc, sup |-> regs.sup])
         /\ \E c : c.kind = "jsr" /\ calls' = Append(calls, c)
  <2> DEFINE Opened == \E c : c.kind # "jsr" /\ calls' = Append(calls, c)
             Closed == calls # <<>> /\ calls' = SubSeq(calls, 1, Len(calls) - 1)
  <2>1. ASSUME NEW k \in {"trap", "iocs", "super", "fault"}, NEW r, Sup!Open(k, r)
        PROVE  Opened
    <3>1. [kind |-> k, regs |-> r].kind # "jsr"
      BY <2>1
    <3>2. QED BY <2>1, <3>1, Zenon DEF Sup!Open
  <2>2. ASSUME Sup!TopKind # "none", Sup!Close
        PROVE  Closed
    BY <2>2, Zenon DEF Sup!TopKind, Sup!Close
  <2>3. ASSUME NEW s \in Sup!Stacks, NEW new, Sup!Switch(s, new)
        PROVE  calls' = calls \/ Opened \/ Closed
    <3>1. CASE s # 0
      BY <1>1, <2>3, <3>1, NotFromUser DEF Sup!Switch, Sup!Close
    <3>2. CASE s = 0
      <4>1. calls' = calls \/ Sup!Open("super", [regs EXCEPT !.d0 = new.d0])
        BY <2>3, <3>2 DEF Sup!Switch
      <4>2. QED BY <2>1, <4>1
    <3>3. QED BY <3>1, <3>2
  <2>4. CASE Sup!IocsTrap
    <3>1. runs' = runs /\ \E n : Sup!TrapHandler(n) \/ Sup!TrapRom(n)
      BY <2>4, Zenon DEF Sup!IocsTrap
    <3>2. PICK n : Sup!TrapHandler(n) \/ Sup!TrapRom(n)
      BY <3>1
    <3>3. CASE Sup!TrapHandler(n)
      <4>1. \E r : Sup!Open("trap", r) \/ Sup!Open("iocs", r)
        BY <3>3, Zenon DEF Sup!TrapHandler
      <4>2. QED BY <2>1, <3>1, <4>1
    <3>4. CASE Sup!TrapRom(n)
      <4>1. calls' = calls \/ \E s \in Sup!Stacks : Sup!Switch(s, regs')
        BY <3>4, Zenon DEF Sup!TrapRom
      <4>2. QED BY <2>3, <3>1, <4>1
    <3>5. QED BY <3>2, <3>3, <3>4
  <2>5. CASE Sup!ChainToRom \/ Sup!RomEntry \/ Sup!DosEnd \/ Sup!ToUser
    BY <2>5, Zenon DEF Sup!ChainToRom, Sup!RomEntry, Sup!DosEnd, Sup!ToUser
  <2>6. CASE Sup!HandlerReturn
    <3>1. /\ runs' = runs
          /\ calls' = calls \/ (Sup!TopKind = "trap" /\ Sup!Close)
      BY <2>6, Zenon DEF Sup!HandlerReturn
    <3>2. QED BY <2>2, <3>1
  <2>7. CASE Sup!RomFetch
    <3>1. Sup!Fetch(regs.pc) = "rte"
      BY <2>7 DEF Sup!RomFetch, Sup!Fetch, Sup!RomVector, Sup!Sentinel
    <3>2. /\ runs' = runs
          /\ calls' = calls \/ (Sup!TopKind \in {"trap", "iocs"} /\ Sup!Close)
      BY <2>7, <3>1, Zenon DEF Sup!RomFetch, Sup!RomRte
    <3>3. QED BY <2>2, <3>2
  <2>8. CASE Sup!DosSuper
    <3>1. runs' = runs /\ \E s \in Sup!Stacks : Sup!Switch(s, regs')
      BY <2>8, Zenon DEF Sup!DosSuper
    <3>2. QED BY <2>3, <3>1
  <2>9. CASE Sup!DosSuperJsr
    <3> DEFINE c == [kind |-> "jsr", regs |-> [regs EXCEPT !.pc = Sup!Behind(regs.pc)]]
    <3>1. c.kind = "jsr"
      OBVIOUS
    <3> HIDE DEF c
    <3>2. runs' = Append(runs, [pc |-> regs.pc, sup |-> regs.sup]) /\ calls' = Append(calls, c)
      BY <2>9, Zenon DEF Sup!DosSuperJsr, Sup!Open, c
    <3>3. QED BY <3>1, <3>2
  <2>10. CASE Sup!BootTrap \/ Sup!BootFault
    <3>1. runs' = runs /\ (calls' = calls \/ \E r : Sup!Open("trap", r) \/ Sup!Open("fault", r))
      BY <2>10, Zenon DEF Sup!BootTrap, Sup!BootFault
    <3>2. QED BY <2>1, <3>1
  <2>11. QED
    BY <2>4, <2>5, <2>6, <2>7, <2>8, <2>9, <2>10, Zenon DEF Sup!Next
<1>5. calls \in Seq(Call) /\ runs \in Seq(Activations) /\ Len(runs) \in Nat
  BY <1>1 DEF Balanced, SupRest
<1>6. runs' \in Seq(Activations) /\ Len(runs') >= Cardinality(JsrsOf(calls'))
  <2>1. Cardinality(JsrsOf(calls)) \in Nat /\ Len(runs) >= Cardinality(JsrsOf(calls))
    BY <1>5, JsrsAre DEF SupRest
  <2>2. CASE runs' = runs /\ calls' = calls
    BY <1>5, <2>1, <2>2
  <2>3. CASE runs' = runs /\ calls # <<>> /\ calls' = SubSeq(calls, 1, Len(calls) - 1)
    <3>1. Cardinality(JsrsOf(calls')) <= Cardinality(JsrsOf(calls))
      BY <1>5, <2>3, JsrsAfterClose
    <3>2. calls' \in Seq(Call)
      BY <1>5, <2>3, FrontIs
    <3>3. Cardinality(JsrsOf(calls')) \in Nat
      BY <3>2, JsrsAre
    <3>4. QED BY <1>5, <2>1, <2>3, <3>1, <3>3
  <2>4. CASE runs' = runs /\ \E c : c.kind # "jsr" /\ calls' = Append(calls, c)
    <3>1. Cardinality(JsrsOf(calls')) = Cardinality(JsrsOf(calls))
      BY <1>5, <2>4, JsrsAfterOpen
    <3>2. QED BY <1>5, <2>1, <2>4, <3>1
  <2>5. CASE /\ runs' = Append(runs, [pc |-> regs.pc, sup |-> regs.sup])
             /\ \E c : c.kind = "jsr" /\ calls' = Append(calls, c)
    <3>1. Cardinality(JsrsOf(calls')) = Cardinality(JsrsOf(calls)) + 1
      BY <1>5, <2>5, JsrsAfterOpen
    <3>2. [pc |-> regs.pc, sup |-> regs.sup] \in Activations
      BY <1>1 DEF Activations, Balanced, Within, Registers
    <3>3. runs' \in Seq(Activations) /\ Len(runs') = Len(runs) + 1
      BY <1>5, <2>5, <3>2
    <3>4. QED BY <1>5, <2>1, <3>1, <3>3
  <2>6. QED BY <1>4, <2>2, <2>3, <2>4, <2>5, Zenon
<1>7. QED BY <1>1, <1>2, <1>3, <1>6 DEF SupRest

LEMMA InitSupRest ==
  ASSUME Sup!Init
  PROVE  SupRest
<1> DEFINE r == [sup |-> TRUE, a7 |-> Top + (IF dos THEN 0 ELSE SuperTop), usp |-> Top,
                 ssp |-> 0, pc |-> <<"main", 2>>, d0 |-> -1]
<1>1. /\ dos \in BOOLEAN /\ regs = IF dos THEN Sup!SetState(r, FALSE) ELSE r
      /\ calls = <<>> /\ runs = <<>>
  BY DEF Sup!Init
<1>2. vec \in [Sup!Vectors -> {"rom", "own"}]
  BY DEF Sup!Init
<1>3. r \in RegistersAt({<<"main", 2>>}) /\ OnStacks(r)
  <2>1. /\ 0 \in Held /\ Top \in Held /\ Top \in Int
        /\ Top + (IF dos THEN 0 ELSE SuperTop) \in Held
        /\ Top + (IF dos THEN 0 ELSE SuperTop) \in Int
    BY <1>1, SupervisorSizes DEF Held, Highest
  <2>2. -1 \in Int /\ 0 \in Int
    OBVIOUS
  <2>3. QED BY <2>1, <2>2 DEF RegistersAt, OnStacks
<1> HIDE DEF r
<1>4. OnStacks(regs)
  <2>1. FALSE \in BOOLEAN
    OBVIOUS
  <2>2. OnStacks(Sup!SetState(r, FALSE))
    BY <1>3, <2>1, SwitchHeld
  <2>3. QED BY <1>1, <1>3, <2>2
<1>5. runs \in Seq(Activations) /\ Len(runs) = 0
  BY <1>1
<1>6. JsrsOf(calls) = {}
  BY <1>1 DEF JsrsOf
<1>7. Cardinality(JsrsOf(calls)) = 0
  BY <1>6, FS_EmptySet
<1>8. Len(runs) >= Cardinality(JsrsOf(calls))
  BY <1>5, <1>7
<1>9. dos \in BOOLEAN /\ runs \in Seq(Activations)
  BY <1>1, <1>5
<1>10. QED BY <1>2, <1>4, <1>8, <1>9, Zenon DEF SupRest

LEMMA SupervisorTypes ==
  ASSUME SupRest
  PROVE  Sup!TypeOK
<1>1. {regs.a7, regs.usp, regs.ssp} \subseteq 0 .. (Top + SuperTop + 3)
  BY DEF SupRest, OnStacks, Held, Highest
<1>2. Len(runs) >= Cardinality({i \in DOMAIN calls : calls[i].kind = "jsr"})
  BY DEF SupRest, JsrsOf
<1>3. \A S : Sup!Cardinality(S) = Cardinality(S)
  BY Zenon DEF Cardinality, Sup!Cardinality
<1>4. Len(runs) >= Sup!Cardinality({i \in DOMAIN calls : calls[i].kind = "jsr"})
  BY <1>2, <1>3
<1>5. QED BY <1>1, <1>4, Zenon DEF SupRest, OnStacks, Sup!TypeOK

(* All parts.                                                              *)

PartsTyped ==
  /\ HeapInv
  /\ part = "sram" => Ram!TypeOK
  /\ part = "mouse" => MotionInv /\ Mou!TypeOK
  /\ part = "console" => ConsoleInv
  /\ part = "floppy" => FloppyInv /\ result \in Results
  /\ part = "fonts" => Fon!TypeOK
  /\ part = "calendar" => ClockRead
  /\ part = "memory" => MemTyped /\ MemRest
  /\ part = "supervisor" => SupSafe /\ SupRest

LEMMA InitTypes ==
  /\ Ram!Init => Ram!TypeOK
  /\ Mou!Init => MotionInv /\ Mou!TypeOK
  /\ Flo!Init => FloppyInv /\ result \in Results
  /\ Fon!Init => Fon!TypeOK
  /\ Cal!Init => ClockRead
<1>1. Ram!Init => Ram!TypeOK
  BY DEF Ram!Init, Ram!TypeOK, Ram!DefaultSize, Ram!DefaultDevice
<1>2. Mou!Init => MotionInv /\ Mou!TypeOK
  BY InitMotion DEF Mou!Init, Mou!TypeOK, Mou!Idle, MotionInv
<1>3. Flo!Init => FloppyInv /\ result \in Results
  BY InitFloppy DEF Flo!Init, Results
<1>4. Fon!Init => Fon!TypeOK
  BY DEF Fon!Init, Fon!TypeOK
<1>5. Cal!Init => ClockRead
  BY DEF Cal!Init, ClockRead, Holds
<1>6. QED BY <1>1, <1>2, <1>3, <1>4, <1>5

LEMMA FloppyTypes ==
  ASSUME FloppyInv, result \in Results
  PROVE  Flo!TypeOK
<1>1. Flo!NFDS - 1 = 1 /\ Flo!NULL = -1
  BY DEF Flo!NFDS, Flo!NULL
<1>2. /\ disks \in [0 .. (Flo!NFDS - 1) -> Images \cup {Flo!NULL}]
      /\ buffer \in Seq((0 .. (Flo!NFDS - 1)) \X Nat)
  BY <1>1, BufferIs DEF FloppyInv
<1>3. QED BY <1>2, Zenon DEF Results, Flo!TypeOK

(* Every variable of the machine's parts stays in its type, through the    *)
(* steps of all of them: among them pointers stay in the stacks, every     *)
(* open _SUPER_JSR has its activation, the area set protects whole 8 KB,   *)
(* the cursor is on the screen, and each answer of the floppy disk is one  *)
(* of those that the code gives.                                           *)
THEOREM MachineTypeCorrect == MachineSpec => []MachineTypeOK
<1>1. MachineInit => PartsTyped
  <2>1. MachineInit => HeapInv
    BY InitHeapInv DEF MachineInit
  <2>2. Mem!Init => MemTyped /\ MemRest
    BY InitMemory, InitMemRest, Zenon
  <2>3. QED
    BY <2>1, <2>2, InitTypes, InitConsole, InitCalls, InitSupRest, Zenon DEF MachineInit, PartsTyped
<1>2. PartsTyped /\ [MachineNext]_machineVars => PartsTyped'
  <2> SUFFICES ASSUME PartsTyped, [MachineNext]_machineVars
               PROVE  PartsTyped'
    OBVIOUS
  <2>0. part' = part
    BY OthersLeaveAlone
  <2>1. HeapInv'
    BY NextKeepsHeapInv, OthersLeaveAlone DEF PartsTyped
  <2>2. ASSUME part = "sram" PROVE Ram!TypeOK'
    <3>1. CASE UNCHANGED ramv
      BY <2>2, <3>1 DEF PartsTyped, ramv, Ram!TypeOK
    <3>2. QED BY <2>2, <3>1, StepSettingsType, OthersLeaveAlone DEF PartsTyped
  <2>3. ASSUME part = "mouse" PROVE (MotionInv /\ Mou!TypeOK)'
    <3>1. CASE UNCHANGED mouv
      BY <2>3, <3>1 DEF PartsTyped, mouv, MotionInv, Mou!MotionAddsUp, Mou!TypeOK
    <3>2. QED BY <2>3, <3>1, StepMotion, StepMouseType, OthersLeaveAlone DEF PartsTyped
  <2>4. ASSUME part = "console" PROVE ConsoleInv'
    BY <2>4, KeepsConsole, OthersLeaveAlone DEF PartsTyped
  <2>5. ASSUME part = "floppy" PROVE (FloppyInv /\ result \in Results)'
    <3>1. FloppyInv'
      BY <2>5, KeepsFloppy, OthersLeaveAlone DEF PartsTyped
    <3>2. Results' = Results
      BY DEF Results
    <3>3. CASE UNCHANGED flov
      <4>1. result' = result
        BY <3>3 DEF flov
      <4>2. QED BY <2>5, <3>1, <3>2, <4>1 DEF PartsTyped
    <3>4. QED BY <2>5, <3>1, <3>2, <3>3, StepFloppyType, OthersLeaveAlone DEF PartsTyped
  <2>6. ASSUME part = "fonts" PROVE Fon!TypeOK'
    <3>1. CASE UNCHANGED fonv
      BY <2>6, <3>1 DEF PartsTyped, fonv, Fon!TypeOK
    <3>2. QED BY <2>6, <3>1, StepFontType, OthersLeaveAlone DEF PartsTyped
  <2>7. ASSUME part = "calendar" PROVE ClockRead'
    <3>1. CASE UNCHANGED calv
      BY <2>7, <3>1 DEF PartsTyped, calv, ClockRead
    <3>2. QED BY <2>7, <3>1, StepClock, OthersLeaveAlone DEF PartsTyped
  <2>8. ASSUME part = "memory" PROVE (MemTyped /\ MemRest)'
    <3>1. CASE UNCHANGED memv
      BY <2>8, <3>1 DEF PartsTyped, memv, MemTyped, MemRest
    <3>2. QED BY <2>8, <3>1, StepMemory, StepMemRest, OthersLeaveAlone DEF PartsTyped
  <2>9. ASSUME part = "supervisor" PROVE (SupSafe /\ SupRest)'
    <3>1. CASE UNCHANGED supv
      BY <2>9, <3>1 DEF PartsTyped, supv, SupSafe, SupRest
    <3>2. QED BY <2>9, <3>1, StepCalls, StepSupRest, OthersLeaveAlone DEF PartsTyped
  <2>10. QED
    BY <2>0, <2>1, <2>2, <2>3, <2>4, <2>5, <2>6, <2>7, <2>8, <2>9, Zenon DEF PartsTyped
<1>3. PartsTyped => MachineTypeOK
  <2>1. PartsTyped => TypeOK
    BY DEF PartsTyped, HeapInv
  <2>2. QED
    BY <2>1, SupervisorTypes, MemoryTypes, ConsoleTypes, FloppyTypes, ClockSays, Zenon
    DEF PartsTyped, MachineTypeOK
<1>4. QED BY <1>1, <1>2, <1>3, PTL DEF MachineSpec
===============================================================================
