-------------------------------- MODULE Calendar --------------------------------
(***************************************************************************)
(* The calls that tell programs the date and the time: the IOCS's          *)
(* _DATEGET, _DATEBIN, _DATEASC, _TIMEGET, _TIMEBIN and _TIMEASC           *)
(* (libvx68k/systemrom.cc), and the DOS calls _GETDATE and _GETTIM2        *)
(* (libvx68kdos/dos.cc).  The host's clock goes on between them.           *)
(*                                                                         *)
(* A register is the sequence of its four bytes, the highest first.        *)
(***************************************************************************)
EXTENDS Integers, Sequences

CONSTANTS
  Years, Months, Days, Weekdays, Hours, Minutes    \* what the clock shows

CalendarAssumption ==
  /\ Years \subseteq 1980..2107 /\ Months \subseteq 1..12 /\ Days \subseteq 1..31
  /\ Weekdays \subseteq 0..6 /\ Hours \subseteq 0..23 /\ Minutes \subseteq 0..59

VARIABLES
  clock,       \* the host's local time
  read,        \* the clock when a call last read it
  kind,        \* what D0 holds: which date or time, in which form
  d0           \* the register, or the numbers of a text

kvars == <<clock, read, kind, d0>>

Moment ==
  [year : Years, month : Months, day : Days, weekday : Weekdays,
   hour : Hours, minute : Minutes, second : Minutes]

Init == clock \in Moment /\ read = clock /\ kind = "none" /\ d0 = <<0, 0, 0, 0>>

(* Time passes; or someone sets the clock.                                 *)
Tick ==
  /\ \/ \E s \in Minutes : clock' = [clock EXCEPT !.second = s]
     \/ \E h \in Hours, m \in Minutes : clock' = [clock EXCEPT !.hour = h, !.minute = m]
     \/ \E d \in Days, w \in Weekdays : clock' = [clock EXCEPT !.day = d, !.weekday = w]
     \/ \E y \in Years, m \in Months : clock' = [clock EXCEPT !.year = y, !.month = m]
  /\ UNCHANGED <<read, kind, d0>>

Read(k, value) == read' = clock /\ kind' = k /\ d0' = value /\ UNCHANGED clock
Convert(from, to, value) == kind = from /\ kind' = to /\ d0' = value /\ UNCHANGED <<clock, read>>
-----------------------------------------------------------------------------
(* Binary coded decimals of two digits, and back.                          *)
ToBcd(n) == n + (n \div 10) * 6

(* Wrong: a digit of the tens counts as 16 - 10 = 6, not as 10.            *)
ToBinByTen(b) == b - (b \div 10) * 6

ToBin(b) == b - (b \div 16) * 6

DateGet ==
  Read("date_bcd",
       <<clock.weekday, ToBcd(clock.year % 100), ToBcd(clock.month), ToBcd(clock.day)>>)
TimeGet ==
  Read("time_bcd", <<0, ToBcd(clock.hour), ToBcd(clock.minute), ToBcd(clock.second)>>)

DateBin ==
  Convert("date_bcd", "date", <<d0[1], ToBin(d0[2]), ToBin(d0[3]), ToBin(d0[4])>>)
TimeBin == Convert("time_bcd", "time", <<0, ToBin(d0[2]), ToBin(d0[3]), ToBin(d0[4])>>)

(* The numbers of the text: a year of four digits, whose upper bits are    *)
(* the lower half of the byte where DATEBIN has the weekday, or of two.    *)
(* The upper half, which a program may set, is the format.                 *)
DateAsc ==
  \E format \in 0..15 :
    LET year == (d0[1] % 16) * 256 + d0[2]
    IN Convert("date", IF format % 4 < 2 THEN "long_text" ELSE "short_text",
               <<IF format % 4 < 2 THEN year ELSE year % 100, d0[3], d0[4]>>)
TimeAsc == Convert("time", "time_text", <<d0[2], d0[3], d0[4]>>)

(* The DOS calls: 7 bits of year, 4 of month and 5 of day in a word, and   *)
(* the weekday above it; the time in bytes.                                *)
GetDate ==
  LET word == (clock.year - 1980) * 512 + clock.month * 32 + clock.day
  IN Read("dos_date", <<0, clock.weekday, word \div 256, word % 256>>)
GetTim2 == Read("dos_time", <<0, clock.hour, clock.minute, clock.second>>)

Next ==
  \/ Tick
  \/ DateGet \/ DateBin \/ DateAsc \/ GetDate
  \/ TimeGet \/ TimeBin \/ TimeAsc \/ GetTim2

Spec == Init /\ [][Next]_kvars
-----------------------------------------------------------------------------
(* A register of bytes, or a text's numbers.                               *)
TypeOK ==
  /\ clock \in Moment /\ read \in Moment
  /\ IF kind \in {"long_text", "short_text", "time_text"}
     THEN d0 \in (0..4095) \X (0..255) \X (0..255)
     ELSE d0 \in [1..4 -> 0..255]

(* What D0 or the text says, as fields of a moment, the year in two digits.*)
Digits(b) == 10 * (b \div 16) + (b % 16)
Word == d0[3] * 256 + d0[4]
Says ==
  CASE kind = "date_bcd" -> <<Digits(d0[2]), Digits(d0[3]), Digits(d0[4]), d0[1]>>
    [] kind = "date" -> <<d0[2], d0[3], d0[4], d0[1]>>
    [] kind = "dos_date" -> <<(Word \div 512 + 80) % 100, (Word \div 32) % 16, Word % 32, d0[2]>>
    [] kind = "time_bcd" -> <<Digits(d0[2]), Digits(d0[3]), Digits(d0[4])>>
    [] kind \in {"time", "dos_time"} -> <<d0[2], d0[3], d0[4]>>
    [] OTHER -> d0

(* Whatever the clock has done since, a date or time that a program got by *)
(* either way, and converted with the IOCS, is the one that the clock      *)
(* showed when it was read, all its parts of one moment.  A text of a date *)
(* says so but for the year, which is taken from the weekday too.          *)
DatesAgree ==
  LET date == <<read.year % 100, read.month, read.day, read.weekday>>
      time == <<read.hour, read.minute, read.second>>
  IN CASE kind \in {"date_bcd", "date", "dos_date"} -> Says = date
       [] kind \in {"time_bcd", "time", "dos_time", "time_text"} -> Says = time
       [] kind \in {"long_text", "short_text"} -> Says[2] = date[2] /\ Says[3] = date[3]
       [] OTHER -> TRUE
=============================================================================
