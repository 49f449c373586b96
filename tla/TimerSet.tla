------------------------------ MODULE TimerSet ------------------------------
(***************************************************************************)
(* What the pool of software timers promises to the components that use    *)
(* it: each has a timer of its own, which fires no sooner than its         *)
(* interval after it was set or fired last, and which nobody else changes, *)
(* unless the callback of another one deletes that other one.              *)
(***************************************************************************)
EXTENDS Naturals

CONSTANTS Owner, Interval

VARIABLE timer      \* Off, or the interval of the owner's timer and what is left of it

Off == [interval |-> 0, left |-> 0]
Set(n) == [interval |-> n, left |-> n]

TimerInit == timer = [o \in Owner |-> Off]

Arm(o, n) == timer' = [timer EXCEPT ![o] = Set(n)]

Disarm(o) == timer' = [timer EXCEPT ![o] = Off]

Fire(o) ==
    /\ timer[o] # Off /\ timer[o].left = 0
    /\ timer' = [timer EXCEPT ![o] = Set(timer[o].interval)]

\* A callback deletes its own timer, and another timer may be given its time.
FireOnce(o) ==
    /\ timer[o] # Off /\ timer[o].left = 0
    /\ \E delayed \in SUBSET (Owner \ {o}) :
         /\ \A p, q \in delayed : p = q /\ timer[p] # Off
         /\ timer' = [q \in Owner |-> IF q = o THEN Off
                                     ELSE IF q \in delayed THEN [timer[q] EXCEPT !.left = timer[o].interval]
                                     ELSE timer[q]]

Elapse ==
    timer' = [o \in Owner |-> [timer[o] EXCEPT !.left = IF @ = 0 THEN 0 ELSE @ - 1]]

TimerNext ==
    \/ \E o \in Owner : Disarm(o) \/ Fire(o) \/ FireOnce(o)
    \/ \E o \in Owner, n \in Interval : Arm(o, n)
    \/ Elapse

TimerSpec == TimerInit /\ [][TimerNext]_timer
=============================================================================
