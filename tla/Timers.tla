-------------------------------- MODULE Timers --------------------------------
(***************************************************************************)
(* The machine's timers: the vertical display interrupts of the CRTC       *)
(* (libvx68k/crtcmem.cc) and timers A and B of the OPM                     *)
(* (libvx68k/opmmem.cc).  The GTK thread checks them every 10 ms or later  *)
(* (machine::check_timers), while the VM's thread sets them by IOCS calls  *)
(* (libvx68k/systemrom.cc).  Each function of a chip holds its mutex, and  *)
(* the chips share nothing, so a check of both is one step.                *)
(*                                                                         *)
(* Times are words.  A start time is only ever subtracted from the time of *)
(* a check, and set to that of the last check: what is kept of it here is  *)
(* the time from it to the last check, modulo W.                           *)
(***************************************************************************)
EXTENDS Integers

CONSTANTS
  W,                 \* one more than the greatest word
  Garbage,           \* what the members that no constructor sets may hold
  Delays,            \* the times that pass between two checks
  VDISP_INTERVAL,    \* 1000 / 55
  VdispCounts,       \* counts that programs pass to _VDISPST
  AIntervals,        \* intervals of timer A that programs set
  BIntervals,        \* intervals of timer B that programs set
  Controls           \* values of the timer control register that they set

(* The bits of the control register: let A and B run, let them interrupt,  *)
(* reset their bits of the status.                                         *)
ControlBit == {"loadA", "loadB", "irqA", "irqB", "resetA", "resetB"}

ASSUME TimerAssumption ==
  /\ W \in Nat \ {0}
  /\ Garbage \subseteq 0 .. W - 1
  /\ Delays \subseteq 0 .. W - 1
  /\ VDISP_INTERVAL \in 1 .. W - 1
  /\ VdispCounts \subseteq Nat \ {0}
  /\ AIntervals \subseteq 0 .. W - 1
  /\ BIntervals \subseteq 0 .. W - 1
  /\ Controls \subseteq SUBSET ControlBit

VARIABLES
  sinceV,                  \* vdisp_start_time
  data, value,             \* vdisp_counter_data, vdisp_counter_value
  sinceA, sinceB,          \* timer_a_start_time, timer_b_start_time
  intervalA, intervalB,    \* timer_a_interval, timer_b_interval
  control,   \* register 0x14
  status,    \* _status: 2 for timer A and 1 for timer B
  enabled,   \* _interrupt_enabled
  handlers,  \* the vectors that hold a handler's address
  vm,        \* an IOCS call of the VM's thread that has set a vector
  raised     \* the vectors that the last step passed to context::interrupt

vdispVars == <<sinceV, data, value>>
opmVars   == <<sinceA, sinceB, intervalA, intervalB, control, status, enabled>>
vars      == <<vdispVars, opmVars, handlers, vm, raised>>

Vdisp == "0x4d"
Opm   == "0x43"

Rest == [call |-> "rest", count |-> 0]

FlagA(s) == s \in {2, 3}
FlagB(s) == s \in {1, 3}
Flags(a, b) == (IF a THEN 2 ELSE 0) + (IF b THEN 1 ELSE 0)
-----------------------------------------------------------------------------
(* After connect, which resets the CRTC's start time and the OPM's time of *)
(* the last check.                                                         *)
Init ==
  /\ sinceV = 0 /\ data = 0 /\ value \in Garbage
  /\ sinceA \in Garbage /\ sinceB \in Garbage
  /\ intervalA \in Garbage /\ intervalB \in Garbage
  /\ control = {} /\ status = 0 /\ enabled = FALSE
  /\ handlers = {}
  /\ vm = Rest
  /\ raised = {}
-----------------------------------------------------------------------------
(* crtc_memory::check_timeouts.                                            *)
(* Wrong: a check that comes late misses the end of the interval.          *)
VdispDueExact(d) == (sinceV + d) % W = VDISP_INTERVAL

VdispDue(d) == (sinceV + d) % W >= VDISP_INTERVAL

(* Wrong: the counter is not loaded again.                                 *)
CheckVdispNoReload(d) ==
  /\ sinceV' = IF VdispDue(d) THEN (sinceV + d - VDISP_INTERVAL) % W
                              ELSE (sinceV + d) % W
  /\ value' = IF VdispDue(d) /\ data # 0 THEN value - 1 ELSE value
  /\ UNCHANGED data

CheckVdisp(d) ==
  /\ sinceV' = IF VdispDue(d) THEN (sinceV + d - VDISP_INTERVAL) % W
                              ELSE (sinceV + d) % W
  /\ value' = IF ~(VdispDue(d) /\ data # 0) THEN value
              ELSE IF value = 1 THEN data ELSE value - 1
  /\ UNCHANGED data

VdispRaised(d) == VdispDue(d) /\ data # 0 /\ value = 1

(* opm_memory::check_timeouts.  A timeout of timer B moves timer A's start *)
(* time, and what is new in the status is computed by a subtraction.       *)
ADue(d) == "loadA" \in control /\ (sinceA + d) % W >= intervalA
BDue(d) == "loadB" \in control /\ (sinceB + d) % W >= intervalB

StatusAt(d) == Flags(FlagA(status) \/ ADue(d), FlagB(status) \/ BDue(d))
SetStatus(d) == StatusAt(d) + status + 1     \* status() - ~old_status

(* Wrong: the start time stays where it was.                               *)
CheckOpmNoRestart(d) ==
  /\ sinceA' = (sinceA + d) % W
  /\ sinceB' = (sinceB + d) % W
  /\ status' = StatusAt(d)
  /\ UNCHANGED <<intervalA, intervalB, control, enabled>>

CheckOpm(d) ==
  /\ sinceA' = (sinceA + d - (IF ADue(d) THEN intervalA ELSE 0)
                           - (IF BDue(d) THEN intervalB ELSE 0)) % W
  /\ sinceB' = (sinceB + d) % W
  /\ status' = StatusAt(d)
  /\ UNCHANGED <<intervalA, intervalB, control, enabled>>

(* Wrong: the status, not what is new in it.                               *)
OpmRaisedAgain(d) ==
  /\ enabled
  /\ \/ "irqA" \in control /\ FlagA(StatusAt(d))
     \/ "irqB" \in control /\ FlagB(StatusAt(d))

OpmRaised(d) ==
  /\ enabled
  /\ \/ "irqA" \in control /\ FlagA(SetStatus(d) % 4)
     \/ "irqB" \in control /\ FlagB(SetStatus(d) % 4)

(* machine::check_timers.                                                  *)
CheckTimers(d) ==
  /\ CheckVdisp(d)
  /\ CheckOpm(d)
  /\ raised' = (IF VdispRaised(d) THEN {Vdisp} ELSE {})
                 \cup (IF OpmRaised(d) THEN {Opm} ELSE {})
  /\ UNCHANGED <<handlers, vm>>
-----------------------------------------------------------------------------
(* _VDISPST: with no address it turns the interrupts off; with one, if     *)
(* they are off, it sets the vector and then loads the counter.            *)
VdispstOff ==
  /\ vm = Rest
  /\ data' = 0
  /\ raised' = {}
  /\ UNCHANGED <<sinceV, value, opmVars, handlers, vm>>

(* Wrong: loads the counter first, and sets the vector then.               *)
VdispstCounterFirst(n) ==
  /\ vm = Rest
  /\ data = 0
  /\ data' = n /\ value' = n
  /\ vm' = [call |-> "vdispst", count |-> n]
  /\ raised' = {}
  /\ UNCHANGED <<sinceV, handlers, opmVars>>

VdispstVector(n) ==
  /\ vm = Rest
  /\ data = 0
  /\ handlers' = handlers \cup {Vdisp}
  /\ vm' = [call |-> "vdispst", count |-> n]
  /\ raised' = {}
  /\ UNCHANGED <<vdispVars, opmVars>>

VdispstCounter ==
  /\ vm.call = "vdispst"
  /\ data' = vm.count /\ value' = vm.count
  /\ vm' = Rest
  /\ raised' = {}
  /\ UNCHANGED <<sinceV, opmVars, handlers>>

(* _OPMINTST does likewise.                                                *)
OpmintstOff ==
  /\ vm = Rest
  /\ enabled' = FALSE
  /\ raised' = {}
  /\ UNCHANGED <<vdispVars, sinceA, sinceB, intervalA, intervalB, control, status,
                 handlers, vm>>

OpmintstVector ==
  /\ vm = Rest
  /\ ~enabled
  /\ handlers' = handlers \cup {Opm}
  /\ vm' = [call |-> "opmintst", count |-> 0]
  /\ raised' = {}
  /\ UNCHANGED <<vdispVars, opmVars>>

OpmintstEnable ==
  /\ vm.call = "opmintst"
  /\ enabled' = TRUE
  /\ vm' = Rest
  /\ raised' = {}
  /\ UNCHANGED <<vdispVars, sinceA, sinceB, intervalA, intervalB, control, status,
                 handlers>>

(* opm_memory::set_reg, by _OPMSET or the chip's ports.  A timer starts    *)
(* when its interval is set, from the time of the last check.              *)
SetTimerA(i) ==
  /\ vm = Rest
  /\ intervalA' = i /\ sinceA' = 0
  /\ raised' = {}
  /\ UNCHANGED <<vdispVars, sinceB, intervalB, control, status, enabled, handlers, vm>>

SetTimerB(i) ==
  /\ vm = Rest
  /\ intervalB' = i /\ sinceB' = 0
  /\ raised' = {}
  /\ UNCHANGED <<vdispVars, sinceA, intervalA, control, status, enabled, handlers, vm>>

SetControl(bits) ==
  /\ vm = Rest
  /\ control' = bits
  /\ status' = Flags(FlagA(status) /\ "resetA" \notin bits,
                     FlagB(status) /\ "resetB" \notin bits)
  /\ raised' = {}
  /\ UNCHANGED <<vdispVars, sinceA, sinceB, intervalA, intervalB, enabled, handlers, vm>>
-----------------------------------------------------------------------------
Check == \E d \in Delays : CheckTimers(d)

StartA == \E i \in AIntervals : SetTimerA(i)
StartB == \E i \in BIntervals : SetTimerB(i)

IocsCall ==
  \/ VdispstOff \/ VdispstCounter
  \/ \E n \in VdispCounts : VdispstVector(n)
  \/ OpmintstOff \/ OpmintstVector \/ OpmintstEnable
  \/ \E bits \in Controls : SetControl(bits)

Next == Check \/ StartA \/ StartB \/ IocsCall

(* GTK's main loop calls the machine's timeout again and again.            *)
Spec == Init /\ [][Next]_vars /\ WF_vars(Check)
-----------------------------------------------------------------------------
(* The VDISP counter is at least 1 whenever the interrupts are on, which   *)
(* check_timeouts asserts before it counts down.                           *)
TypeOK ==
  /\ sinceV \in 0 .. W - 1 /\ sinceA \in 0 .. W - 1 /\ sinceB \in 0 .. W - 1
  /\ intervalA \in 0 .. W - 1 /\ intervalB \in 0 .. W - 1
  /\ data \in Nat /\ value \in Nat
  /\ data # 0 => value \in 1 .. data
  /\ control \subseteq ControlBit
  /\ status \in 0 .. 3
  /\ enabled \in BOOLEAN
  /\ handlers \subseteq {Vdisp, Opm}
  /\ vm \in [call : {"rest", "vdispst", "opmintst"}, count : Nat]
  /\ raised \subseteq {Vdisp, Opm}

(* No interrupt is raised before the program's handler is in its vector,   *)
(* although the checks come in between the steps of the calls that set     *)
(* both.                                                                   *)
HandlerReady == raised \subseteq handlers

(* A program that has turned the VDISP interrupts on gets one, unless it   *)
(* turns them off again: however late the checks come, the counter goes    *)
(* down.                                                                   *)
VdispComes == (data # 0) ~> (data = 0 \/ Vdisp \in raised)

(* An OPM interrupt is raised at a check that finds a timeout which had    *)
(* not been flagged, of a timer that may interrupt.                        *)
NewTimeout ==
  \/ "irqA" \in control /\ FlagA(status') /\ ~FlagA(status)
  \/ "irqB" \in control /\ FlagB(status') /\ ~FlagB(status)

NewTimeoutsOnly == [][(Opm \in raised') => NewTimeout]_vars
=============================================================================
