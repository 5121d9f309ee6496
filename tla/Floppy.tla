--------------------------------- MODULE Floppy ---------------------------------
(***************************************************************************)
(* Floppy disks: images loaded at the start (programs/main.cc,             *)
(* machine::load_fd), the IOCS's disk calls, the first record read by      *)
(* machine::boot, and the image file behind them (libvx68k/iocsdisk.cc).   *)
(*                                                                         *)
(* A record of an image is <<unit, number>>.                               *)
(***************************************************************************)
EXTENDS Integers, Sequences

CONSTANTS
  Images,      \* lengths of image files, in whole records
  Cylinders, Heads, Records, Sizes,   \* parts of a position that programs ask for
  ByteCounts,  \* numbers of bytes that they ask for
  LongWord     \* one more than a long word can hold; 2^32 in the code

FloppyAssumption ==
  /\ Images \subseteq Nat
  /\ \A s \in {Cylinders, Heads, Records, Sizes} : s \subseteq 0..255
  /\ LongWord \in Nat /\ LongWord > 1024 /\ LongWord % 1024 = 0
  /\ ByteCounts \subseteq 0..(LongWord - 1)

VARIABLES
  disks,       \* fd: the image's length, or NULL
  buffer,      \* the records that the last read put into the program's memory
  asked,       \* the last read
  result       \* what it gave

fvars == <<disks, buffer, asked, result>>

NFDS == 2
NULL == -1
Nothing == [k |-> 0, u |-> 0, n |-> 0, c |-> 0, h |-> 0, r |-> 0, len |-> 0]

Fresh == [Nothing EXCEPT !.k = 1]       \* before the machine starts

(* Results: success, a position that the disk has not (0x40040000 and the  *)
(* unit), an error of the host (0x40200000), too few data (0x40202000);    *)
(* and what does not return: abort or a call of the NULL disk, and         *)
(* range_error.                                                            *)
Ok == <<0, 0>>
NoRecord(u) == <<\h4004, u % 4>>
HostError == <<\h4020, 0>>
Short == <<\h4020, \h2000>>
MinusOne == <<\hffff, \hffff>>
Crash == <<-1, 0>>
RangeError == <<-2, 0>>
-----------------------------------------------------------------------------
(* load_fd of the options' images, in the order of the units; one that     *)
(* cannot be opened ends the program before anything runs.                 *)
Init ==
  /\ disks \in [0..(NFDS - 1) -> Images \cup {NULL}]
  /\ buffer = <<>>
  /\ asked = Fresh
  /\ result = Ok

OnDisk(p) == p.n = 3 /\ p.c <= 76 /\ p.h <= 1 /\ p.r \in 1..8

(* Wrong: records are counted from 0.                                      *)
RecordOffsetFromZero(p) == ((p.c * 2 + p.h) * 8 + p.r) * 1024

RecordOffset(p) == ((p.c * 2 + p.h) * 8 + (p.r - 1)) * 1024

(* Reads whole records into memory, and stops at what the image has not,   *)
(* or at an error of the host's.                                           *)
ImageRead(p, len) ==
  LET first == RecordOffset(p) \div 1024
      todo == ((p.len + 1023) % LongWord) \div 1024
      left == IF len > first THEN len - first ELSE 0
  IN \E done \in 0..(IF todo < left THEN todo ELSE left) :
       /\ buffer' = [i \in 1..done |-> <<p.u, first + i - 1>>]
       /\ \/ done = todo /\ result' = Ok
          \/ done < todo /\ done = left /\ result' = Short
          \/ done < todo /\ result' = HostError

(* read_disk.                                                              *)
ReadDisk(p) ==
  /\ asked' = p
  /\ IF p.k # 9 THEN result' = Crash /\ buffer' = <<>>
     ELSE IF p.u >= NFDS THEN result' = RangeError /\ buffer' = <<>>
     ELSE IF disks[p.u] = NULL THEN result' = Crash /\ buffer' = <<>>
     ELSE IF ~OnDisk(p) THEN result' = NoRecord(p.u) /\ buffer' = <<>>
     ELSE ImageRead(p, disks[p.u])
  /\ UNCHANGED disks

Running == result \notin {Crash, RangeError}

(* _B_READ.                                                                *)
BRead ==
  /\ Running /\ asked.k # 9
  /\ \E k \in {8, 9}, u \in 0..NFDS, n \in Sizes, c \in Cylinders, h \in Heads,
        r \in Records, len \in ByteCounts :
       ReadDisk([k |-> k, u |-> u, n |-> n, c |-> c, h |-> h, r |-> r, len |-> len])

Answer(d0) == Running /\ asked' = Nothing /\ result' = d0 /\ buffer' = <<>> /\ UNCHANGED disks

(* The other calls do not look at the disks: _B_DRVCHK answers that a disk *)
(* is in every drive, _B_RECALI and _B_READID that the first two have one, *)
(* _B_EJECT ejects nothing, and _B_WRITE writes nothing and leaves D0.     *)
BDrvchk == \E mode \in {1, 8} : Answer(IF mode = 8 THEN <<0, 1>> ELSE <<0, 2>>)
BEject == Answer(Ok)
BReady == \E k \in {8, 9}, u \in 0..NFDS : Answer(IF k = 9 /\ u <= 1 THEN Ok ELSE MinusOne)
BWrite == Answer(result)

(* The first record, or an exception.                                      *)
Boot ==
  /\ asked = Fresh
  /\ ReadDisk([k |-> 9, u |-> 0, n |-> 3, c |-> 0, h |-> 0, r |-> 1, len |-> 1024])

(* The program goes on with what it read.                                  *)
GoOn ==
  /\ Running /\ asked.k = 9
  /\ asked' = Nothing /\ buffer' = <<>>
  /\ UNCHANGED <<disks, result>>

Next == GoOn \/ BRead \/ BDrvchk \/ BEject \/ BReady \/ BWrite \/ Boot

Spec == Init /\ [][Next]_fvars
-----------------------------------------------------------------------------
(* Disks and results are of their kinds.                                   *)
TypeOK ==
  /\ disks \in [0..(NFDS - 1) -> Images \cup {NULL}]
  /\ buffer \in Seq((0..(NFDS - 1)) \X Nat)
  /\ result \in {Ok, <<0, 1>>, <<0, 2>>, MinusOne, HostError, Short, Crash, RangeError}
                \cup {NoRecord(u) : u \in 0..3}

(* The record that follows on the medium: on the same side, on the other,  *)
(* on the next cylinder.                                                   *)
Following(p) ==
  CASE p.r < 8 -> [p EXCEPT !.r = @ + 1]
    [] p.r = 8 /\ p.h = 0 -> [p EXCEPT !.r = 1, !.h = 1]
    [] OTHER -> [p EXCEPT !.r = 1, !.h = 0, !.c = @ + 1]

(* Where an image has a record: cylinders follow each other, 16 records    *)
(* each, 8 on each side.                                                   *)
PlaceOf(number) == [c |-> number \div 16, h |-> (number \div 8) % 2, r |-> (number % 8) + 1]

(* A read that succeeds has brought the records that hold the bytes asked  *)
(* for, the one at the position first and then those that follow it on the *)
(* medium, across sides and cylinders, all of the unit's own image; no     *)
(* read brings what the image has not.  (Counts above LongWord - 1024,       *)
(* which wrap and read nothing, aside.)                                    *)
ReadsRecords ==
  /\ result = Ok /\ asked.k = 9 /\ asked.len <= LongWord - 1024 =>
       /\ 1024 * Len(buffer) \in asked.len..(asked.len + 1023)
       /\ \A i \in 1..Len(buffer) :
            /\ buffer[i][1] = asked.u
            /\ PlaceOf(buffer[i][2]) = IF i = 1 THEN [c |-> asked.c, h |-> asked.h, r |-> asked.r]
                                       ELSE Following(PlaceOf(buffer[i - 1][2]))
  /\ \A i \in 1..Len(buffer) : buffer[i][2] < disks[buffer[i][1]]
=============================================================================
