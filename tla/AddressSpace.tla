----------------------------- MODULE AddressSpace -----------------------------
(***************************************************************************)
(* The memory a program sees: the map that machine::configure lays out,    *)
(* main memory with its protected part (libvx68kdos/main_memory.cc), the   *)
(* area set register that moves its limit (libvx68k/areaset.cc), and the   *)
(* devices of libvx68k as their memory objects answer.                     *)
(*                                                                         *)
(* Data are sequences of bytes, the most significant first; BusError is    *)
(* the one without any.  Of the main memory, the text VRAM and the         *)
(* palettes only the words of the constants are kept.                      *)
(***************************************************************************)
EXTENDS Integers, Sequences, FiniteSets

CONSTANTS
  MemSize,     \* bytes of main memory
  MainWords,   \* addresses of the words of main memory that are kept
  TextWord,    \* the address of one of the text VRAM
  ColorWord,   \* the address of one of the text palette
  Ports,       \* addresses in the devices
  Areas,       \* values written to the area set register
  Values       \* data written elsewhere, of a byte, a word or a long word

PlaceAssumption ==
  /\ MemSize \in Nat /\ MemSize <= \hc00000 /\ MemSize % 2 = 0
  /\ \A w \in MainWords : w \in Nat /\ w < MemSize /\ w % 2 = 0
  /\ TextWord \in Nat /\ \he00000 <= TextWord /\ TextWord < \he80000 /\ TextWord % 2 = 0
  /\ ColorWord \in Nat /\ \he82000 <= ColorWord /\ ColorWord < \he84000 /\ ColorWord % 2 = 0

Byte == 0..255

DataAssumption ==
  /\ Ports \subseteq Nat /\ Areas \subseteq Byte
  /\ Values \subseteq Seq(Byte) /\ \A v \in Values : Len(v) \in {1, 2, 4}

AddressAssumption == PlaceAssumption /\ DataAssumption

VARIABLES
  content,     \* main memory: words, as pairs of bytes
  protected,   \* the limit of its protected part
  text,        \* bytes of the text VRAM
  color,       \* the palette's word
  fdc, mfp,    \* what the last read of a byte gave
  got,         \* the last load, <<address, data>>, until the program goes on
  user,        \* the last access was a store in user state
  stored       \* for each byte of memory the one last stored there

avars == <<content, protected, text, color, fdc, mfp, got, user, stored>>

(* Addresses are of 24 bits.                                              *)
Space == \h1000000

BusError == <<>>
SUPER_DATA == "super data"
Codes == {SUPER_DATA, "user data"}

Even(a) == a - (a % 2)
Word(v) == <<v \div 256, v % 256>>
Low(w, n) == IF n = 1 THEN <<w[2]>> ELSE w

(* The devices and where machine::configure puts them.                     *)
Map ==
  { <<"main", 0, MemSize>>, <<"gv", \hc00000, \he00000>>, <<"text", \he00000, \he80000>>,
    <<"crtc", \he80000, \he82000>>, <<"palettes", \he82000, \he84000>>,
    <<"dmac", \he84000, \he86000>>, <<"area_set", \he86000, \he88000>>,
    <<"mfp", \he88000, \he8a000>>, <<"ports", \he8e000, \he90000>>,
    <<"opm", \he90000, \he92000>>, <<"adpcm", \he92000, \he94000>>,
    <<"fdc", \he94000, \he96000>>, <<"scc", \he98000, \he9a000>>,
    <<"ppi", \he9a000, \he9c000>>, <<"sprites", \heb0000, \heb8000>>,
    <<"sram", \hed0000, \hed4000>>, <<"font", \hf00000, \hfc0000>>,
    <<"rom", \hfc0000, \h1000000>> }

(* What answers at an address.                                             *)
Device(a) ==
  LET at == { r \in Map : r[2] <= a % Space /\ a % Space < r[3] }
  IN IF at = {} THEN "none" ELSE (CHOOSE r \in at : TRUE)[1]
-----------------------------------------------------------------------------
(* Loads of n bytes.  Main memory does not look at the function code.      *)
MainLoad(a, n) ==
  IF a >= MemSize THEN BusError
  ELSE [i \in 1..n |-> LET b == a + i - 1 IN content[Even(b)][1 + (b % 2)]]

TextLoad(a, n, fc) ==
  IF fc # SUPER_DATA THEN BusError ELSE [i \in 1..n |-> text[a + i - 1]]

(* Its bytes are the word's other way round, as those of the CRTC.         *)
Swapped(a, w, n) == IF n = 2 THEN w ELSE <<w[2 - (a % 2)]>>

PalettesLoad(a, n, fc) ==
  IF fc # SUPER_DATA THEN BusError
  ELSE Swapped(a, IF Even(a) = ColorWord THEN color ELSE Word(0), n)

Crtc(a, n) == Swapped(a, IF Even(a) % \h2000 = \h28 THEN Word(\h417) ELSE Word(0), n)

(* The offset of a register: words are those of their odd bytes.           *)
Port(a, n) == (IF n = 2 THEN Even(a) + 1 ELSE a) % \h2000

AreaSetLoad(n) == Low(Word(0), n)

(* The OPM's status is the timers'; its other addresses fail.              *)
OpmLoad(a, n) == IF Port(a, n) \in {1, 3} THEN Low(Word(0), n) ELSE BusError

(* Devices that answer with what programs wait for, or with nothing, and   *)
(* ignore stores.                                                          *)
Dmac(n) == Low(Word(0), n)
Adpcm(n) == Low(Word(0), n)
Fdc(n) == IF n = 1 THEN <<IF fdc = 0 THEN \hd0 ELSE 0>> ELSE Word(0)
Mfp(n) == IF n = 1 THEN <<IF mfp = \hfb THEN \h6b ELSE \hfb>> ELSE Word(\h7b)
SystemPorts(n) == Low(Word(0), n)
Ppi(a, n) == Low(Word(IF Port(a, n) = 5 THEN 0 ELSE \hff), n)
GraphicsVideo(n) == Low(Word(0), n)
Sprites(n) == Low(Word(0), n)
Scc(n) == Low(Word(0), n)

(* The ROM gives no bytes to the program.  Words are Supervisor's.         *)
RomLoad(n, fc) == IF n = 1 /\ fc \notin Codes THEN BusError ELSE Low(Word(0), n)

Load(a, n, fc) ==
  LET d == Device(a)
      i == a % Space
  IN CASE d = "main" -> MainLoad(i, n)
       [] d = "text" -> TextLoad(i, n, fc)
       [] d = "palettes" -> PalettesLoad(i, n, fc)
       [] d = "crtc" -> Crtc(i, n)
       [] d = "area_set" -> AreaSetLoad(n)
       [] d = "opm" -> OpmLoad(i, n)
       [] d = "dmac" -> Dmac(n)
       [] d = "adpcm" -> Adpcm(n)
       [] d = "fdc" -> Fdc(n)
       [] d = "mfp" -> Mfp(n)
       [] d = "ports" -> SystemPorts(n)
       [] d = "ppi" -> Ppi(i, n)
       [] d = "gv" -> GraphicsVideo(n)
       [] d = "sprites" -> Sprites(n)
       [] d = "scc" -> Scc(n)
       [] d = "rom" -> RomLoad(n, fc)
       [] OTHER -> BusError
-----------------------------------------------------------------------------
(* Whether a store is refused.                                             *)
MainRefuses(a, fc) == a >= MemSize \/ (fc # SUPER_DATA /\ a < protected)

(* Wrong: does not look at who stores.                                     *)
AreaRefusesNoOne(a, n, fc) == Port(a, n) # 1

(* Only the odd byte of the area set register takes a store.               *)
AreaRefuses(a, n, fc) == fc # SUPER_DATA \/ Port(a, n) # 1

Refused(a, n, fc) ==
  LET d == Device(a)
  IN \/ d = "main" /\ MainRefuses(a % Space, fc)
     \/ d = "area_set" /\ AreaRefuses(a, n, fc)
     \/ d \in {"text", "palettes", "rom", "opm"} /\ fc # SUPER_DATA
     \/ d = "opm" /\ Port(a, n) \notin {1, 3}
     \/ d = "none"

(* Wrong: bytes go to the word's first half.                               *)
MainStoreHigh(a, data) ==
  content' = [w \in DOMAIN content |->
                [k \in 1..2 |-> IF w + k - a \in DOMAIN data
                                THEN data[IF Len(data) = 1 THEN 1 ELSE 3 - k] ELSE content[w][k]]]

MainStore(a, data) ==
  content' = [w \in DOMAIN content |->
                [k \in 1..2 |-> IF w + k - a \in DOMAIN data THEN data[w + k - a] ELSE content[w][k]]]

TextStore(a, data) ==
  text' = [b \in DOMAIN text |-> IF b - a + 1 \in DOMAIN data THEN data[b - a + 1] ELSE text[b]]

PalettesStore(a, data) ==
  color' = IF Even(a) # ColorWord THEN color
           ELSE IF Len(data) = 2 THEN data
           ELSE [color EXCEPT ![2 - (a % 2)] = data[1]]

AreaStore(data) == protected' = (data[Len(data)] + 1) * \h2000

Places == Ports \cup UNION {{w, w + 1} : w \in MainWords \cup {TextWord, ColorWord}}

Data(d) ==
  IF d = "area_set" THEN UNION {{<<v>>, <<0, v>>} : v \in Areas}
  ELSE {v \in Values : Len(v) = 4 => d = "main"}

(* A program's store, the IOCS's and the DOS's: all go this way, and the   *)
(* latter always with supervisor rights.                                   *)
Store ==
  \E a \in Places : \E data \in Data(Device(a)), fc \in Codes :
    LET n == Len(data)
        d == Device(a)
        i == a % Space
        ok == ~Refused(a, n, fc)
    IN /\ a % n = 0 /\ got = <<>>
       /\ IF ok /\ d = "main" THEN MainStore(i, data) ELSE UNCHANGED content
       /\ IF ok /\ d = "text" THEN TextStore(i, data) ELSE UNCHANGED text
       /\ IF ok /\ d = "palettes" THEN PalettesStore(i, data) ELSE UNCHANGED color
       /\ IF ok /\ d = "area_set" THEN AreaStore(data) ELSE UNCHANGED protected
       /\ user' = (fc # SUPER_DATA)
       /\ stored' = [b \in DOMAIN stored |->
                       IF ok /\ b - i + 1 \in DOMAIN data THEN data[b - i + 1] ELSE stored[b]]
       /\ UNCHANGED <<fdc, mfp, got>>

(* Main memory is read where its words are kept.                           *)
Kept(a) == Device(a) = "main" => Even(a % Space) \in MainWords

(* Loads change only what the next load of a status gives.                 *)
Read ==
  \E a \in Places, n \in {1, 2}, fc \in Codes :
    /\ a % n = 0 /\ Kept(a) /\ got = <<>>
    /\ got' = <<a, Load(a, n, fc)>>
    /\ fdc' = IF Device(a) = "fdc" /\ n = 1 THEN Fdc(n)[1] ELSE fdc
    /\ mfp' = IF Device(a) = "mfp" /\ n = 1 THEN Mfp(n)[1] ELSE mfp
    /\ user' = FALSE
    /\ UNCHANGED <<content, protected, text, color, stored>>

GoOn == /\ got # <<>> /\ got' = <<>> /\ user' = FALSE
        /\ UNCHANGED <<content, protected, text, color, fdc, mfp, stored>>

Init ==
  /\ content = [w \in MainWords |-> Word(\h4afc)]
  /\ protected = 0
  /\ text = [b \in {TextWord, TextWord + 1} |-> 0]
  /\ color = Word(0)
  /\ fdc = 0 /\ mfp = \hfb
  /\ got = <<>> /\ user = FALSE
  /\ stored = [b \in UNION {{w, w + 1} : w \in MainWords \cup {TextWord}} |->
                 IF b >= MemSize THEN 0 ELSE Word(\h4afc)[1 + (b % 2)]]

Next == Store \/ Read \/ GoOn

Spec == Init /\ [][Next]_avars
-----------------------------------------------------------------------------
(* The state of memory and devices has its type.                           *)
TypeOK ==
  /\ content \in [MainWords -> (0..255) \X (0..255)]
  /\ protected \in {k * \h2000 : k \in 0..256}
  /\ color \in (0..255) \X (0..255)
  /\ fdc \in {0, \hd0} /\ mfp \in {\hfb, \h6b} /\ user \in BOOLEAN

(* What is loaded, as bytes or as words, is what was last stored there, as *)
(* bytes, words or long words, with the most significant byte first.  (The *)
(* palettes and the CRTC, whose bytes are the other way round, are no      *)
(* memory in this sense.)                                                  *)
LoadsSeeStores ==
  got # <<>> /\ got[2] # BusError /\ got[1] % Space \in DOMAIN stored =>
    \A i \in DOMAIN got[2] : got[2][i] = stored[(got[1] % Space) + i - 1]

(* No access in user state, of whatever size and through whatever address, *)
(* changes the protected part of main memory or its limit, the text VRAM   *)
(* or the palettes: main_memory checks the first address of a store only,  *)
(* and the limit itself is at an address that a program can name.          *)
UserKeepsOut ==
  [][ user' => /\ \A w \in MainWords : w < protected => content'[w] = content[w]
               /\ UNCHANGED <<protected, text, color>> ]_avars
=============================================================================
