CONSTANTS
  W = 8
  Garbage = {0}
  Delays = {1, 4}
  VDISP_INTERVAL = 3
  VdispCounts = {1, 2}
  AIntervals = {2}
  BIntervals = {2}
  Controls <- ControlsB

SPECIFICATION MCSpec

INVARIANT
  TimerBNotEarly
