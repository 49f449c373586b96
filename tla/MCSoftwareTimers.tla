-------------------------- MODULE MCSoftwareTimers --------------------------
(* Four owners for a pool of three timers; the callback of one of them may *)
(* delete its timer.                                                       *)
EXTENDS SoftwareTimers

CONSTANTS a, b, c, d

MCOwner     == {a, b, c, d}
MCInterval  == 1 .. 2
MCOne       == {a}
=============================================================================
