------------------------------- MODULE MCTimers -------------------------------
(***************************************************************************)
(* Instances of Timers for TLC, with words of 3 bits.                      *)
(*                                                                         *)
(* Two history variables keep the time that timers A and B may still use:  *)
(* what has passed since the timer was started, less an interval for each  *)
(* timeout, and at most W - 1.                                             *)
(***************************************************************************)
EXTENDS Timers

VARIABLES leftA, leftB

(* Timer A alone, with and without its interrupt.                          *)
ControlsA == {{}, {"loadA"}, {"loadA", "irqA"}, {"loadA", "irqA", "resetA"}}

(* Timer B alone.                                                          *)
ControlsB == {{}, {"loadB"}, {"irqB"}, {"loadB", "irqB", "resetB"}}

Least(a, b) == IF a <= b THEN a ELSE b

MCInit == Init /\ leftA = sinceA /\ leftB = sinceB

MCCheck ==
  \E d \in Delays :
    /\ CheckTimers(d)
    /\ leftA' = Least(leftA + d - (IF ADue(d) THEN intervalA ELSE 0), W - 1)
    /\ leftB' = Least(leftB + d - (IF BDue(d) THEN intervalB ELSE 0), W - 1)

MCNext ==
  \/ MCCheck
  \/ StartA /\ leftA' = 0 /\ UNCHANGED leftB
  \/ StartB /\ leftB' = 0 /\ UNCHANGED leftA
  \/ IocsCall /\ UNCHANGED <<leftA, leftB>>

MCVars == <<vars, leftA, leftB>>

MCSpec == MCInit /\ [][MCNext]_MCVars /\ WF_MCVars(MCCheck)

(* Timer A never times out early: its timeouts have not used more time     *)
(* than has passed since it was started, however late the checks are.      *)
TimerANotEarly == leftA >= 0

(* Timer B keeps its own time, as the header says of the members for the   *)
(* "reset times for timers A and B".                                       *)
TimerBNotEarly == leftB >= 0
=============================================================================
