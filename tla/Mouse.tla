--------------------------------- MODULE Mouse ---------------------------------
(***************************************************************************)
(* The mouse: events of the window in the GTK thread, the tick of          *)
(* check_timers in the same thread that turns positions into motion, and   *)
(* the program's IOCS calls in the VM's (libvx68k/sccmem.cc).  Every       *)
(* method of scc_memory locks its mutex; an IOCS call may use several.     *)
(*                                                                         *)
(* One axis stands for both.                                               *)
(***************************************************************************)
EXTENDS Integers

CONSTANTS
  Screen,      \* the first coordinate beyond the screen: 768 and 512 in the code
  MaxDelta,    \* 127: what fits in the byte that _MS_GETDT returns
  Limits,      \* bounds that programs set
  Garbage      \* what memory may hold that is not initialised

MouseAssumption ==
  /\ Screen \in Nat \ {0} /\ MaxDelta \in Nat
  /\ Limits \subseteq Int \X Int /\ Garbage \subseteq Int /\ Garbage # {}

VARIABLES
  pos, old,    \* _mouse_position, old_mouse_position
  motion,      \* _mouse_motion
  bounds,      \* mouse_left and mouse_right
  buttons,     \* mouse_states
  getdt,       \* _MS_GETDT: how far it is, and the buttons it has read
  seen,        \* the sum of the motion that the program has got
  start,       \* the position from which it adds up
  reads        \* times it has asked since the last tick; -1: not kept any more

mvars == <<pos, old, motion, bounds, buttons, getdt, seen, start, reads>>

Buttons == {0, 1}
Idle == [at |-> "idle", left |-> FALSE, right |-> FALSE]

(* Position and motion are not initialised before the first event and tick. *)
Init ==
  /\ pos \in Garbage /\ old \in Garbage /\ motion \in Garbage
  /\ bounds = <<0, Screen>>
  /\ buttons = [b \in Buttons |-> FALSE]
  /\ getdt = Idle
  /\ seen = 0 /\ start = 0 /\ reads = -1

Clamp(x, low, high) == IF x < low THEN low ELSE IF x > high THEN high ELSE x
-----------------------------------------------------------------------------
(* set_mouse_position; a pointer left of the window's edge has negative    *)
(* coordinates while a button is held.                                     *)
MotionEvent ==
  /\ \E x \in -1..Screen :
       pos' = IF x < bounds[1] THEN bounds[1]
              ELSE IF x >= bounds[2] THEN bounds[2] - 1 ELSE x
  /\ UNCHANGED <<old, motion, bounds, buttons, getdt, seen, start, reads>>

(* Buttons 1 and 3 of the window; others are ignored.                      *)
ButtonEvent ==
  /\ \E b \in Buttons, s \in BOOLEAN : buttons' = [buttons EXCEPT ![b] = s]
  /\ UNCHANGED <<pos, old, motion, bounds, getdt, seen, start, reads>>

(* What a tick does to what the program can add up: it must have asked     *)
(* once since the last.                                                    *)
Account == reads' = IF reads = 1 THEN 0 ELSE -1

(* Wrong: the old position stays.                                          *)
TrackMouseFromStart ==
  /\ motion' = pos - old
  /\ old' = IF motion = 0 THEN pos ELSE old
  /\ Account
  /\ UNCHANGED <<pos, bounds, buttons, getdt, seen, start>>

(* track_mouse.                                                            *)
TrackMouse ==
  /\ motion' = pos - old
  /\ old' = pos
  /\ Account
  /\ UNCHANGED <<pos, bounds, buttons, getdt, seen, start>>
-----------------------------------------------------------------------------
(* _MS_GETDT: a lock for each button and one for the motion.               *)
GetLeft ==
  /\ getdt.at = "idle"
  /\ getdt' = [Idle EXCEPT !.at = "right", !.left = buttons[0]]
  /\ UNCHANGED <<pos, old, motion, bounds, buttons, seen, start, reads>>

GetRight ==
  /\ getdt.at = "right"
  /\ getdt' = [getdt EXCEPT !.at = "motion", !.right = buttons[1]]
  /\ UNCHANGED <<pos, old, motion, bounds, buttons, seen, start, reads>>

(* Bound: sums of a few screens.                                           *)
GetMotion ==
  /\ getdt.at = "motion"
  /\ getdt' = Idle
  /\ seen' = seen + Clamp(motion, -MaxDelta, MaxDelta)
  /\ seen' \in (-2 * Screen)..(2 * Screen)
  /\ reads' = IF reads = 0 /\ motion \in (-MaxDelta)..MaxDelta THEN 1 ELSE -1
  /\ UNCHANGED <<pos, old, motion, bounds, buttons, start>>

(* The program begins to add up, right after a tick.                       *)
Begin ==
  /\ getdt.at = "idle" /\ reads = -1
  /\ reads' = 1 /\ seen' = 0 /\ start' = old
  /\ UNCHANGED <<pos, old, motion, bounds, buttons, getdt>>

(* _MS_INIT: the position stays, and where motion is counted from.         *)
MsInit ==
  /\ getdt.at = "idle"
  /\ bounds' = <<0, Screen>>
  /\ motion' = 0
  /\ reads' = -1
  /\ UNCHANGED <<pos, old, buttons, getdt, seen, start>>

(* _MS_LIMIT.                                                              *)
MsLimit ==
  /\ getdt.at = "idle"
  /\ bounds' \in Limits
  /\ UNCHANGED <<pos, old, motion, buttons, getdt, seen, start, reads>>

(* Calls that change nothing: _MS_CURGT, which returns pos; _MS_CURON,     *)
(* _MS_CUROF and _MS_CURST; _MS_STAT, whose answer is 0; and _SET232C.     *)
NoChange == getdt.at = "idle" /\ UNCHANGED mvars
MsCurgt == NoChange
MsCursor == NoChange
MsStat == NoChange
Set232c == NoChange

Next ==
  \/ MotionEvent \/ ButtonEvent \/ TrackMouse
  \/ GetLeft \/ GetRight \/ GetMotion \/ Begin \/ MsInit \/ MsLimit
  \/ MsCurgt \/ MsCursor \/ MsStat \/ Set232c

Spec == Init /\ [][Next]_mvars
-----------------------------------------------------------------------------
(* Positions are numbers, bounds are the screen's or the program's.        *)
TypeOK ==
  /\ {pos, old, motion, seen, start} \subseteq Int
  /\ bounds \in Limits \cup {<<0, Screen>>}
  /\ buttons \in [Buttons -> BOOLEAN]
  /\ getdt.at \in {"idle", "right", "motion"} /\ reads \in -1..1

(* A program that asks once between ticks gets the whole way the pointer   *)
(* went, whatever events, new bounds and ticks come between its calls or   *)
(* in the midst of them: no part is lost and none comes twice.  (A tick    *)
(* that comes before the program asks loses its motion, and so does        *)
(* _MS_INIT; one step of more than 127 is cut.)                            *)
MotionAddsUp ==
  /\ reads = 1 => start + seen = old
  /\ reads = 0 => start + seen + motion = old
=============================================================================
