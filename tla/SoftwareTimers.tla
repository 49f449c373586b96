--------------------------- MODULE SoftwareTimers ---------------------------
(***************************************************************************)
(* lib-superloop/src/softwaretimers.cpp: the pool of timers that the super *)
(* loop serves one at a time.  A component that uses a timer (an owner)    *)
(* has one at most and keeps its handle in a variable of its own, so that  *)
(* the owner stands for the id of the timer.  Expiry is what is left until *)
(* expire_time: it passes zero by less than 2^31 ms.  A callback that adds *)
(* a timer does what the owner may do just before it.                      *)
(***************************************************************************)
EXTENDS Naturals, Sequences

CONSTANTS
    Owner,
    kSoftwareTimersMax,
    Interval,           \* the intervals the owners ask for, in ticks
    OneShot             \* the owners whose callback may delete their timer

ASSUME TimersAssumption ==
    /\ kSoftwareTimersMax \in Nat \ {0}
    /\ Interval \subseteq Nat \ {0}
    /\ OneShot \subseteq Owner

VARIABLES
    timers,     \* s_timers[0 .. s_timers_count - 1]
    current     \* s_timer_current + 1

timerVars == <<timers, current>>

Timer(o, n) == [owner |-> o, interval |-> n, left |-> n]

Positions(o) == {i \in DOMAIN timers : timers[i].owner = o}
Holds(o)     == Positions(o) # {}

TimersInit == timers = << >> /\ current = 1
-----------------------------------------------------------------------------
\* An owner adds a timer when it has none.
SoftwareTimerAdd(o, n) ==
    /\ ~Holds(o) /\ Len(timers) < kSoftwareTimersMax
    /\ timers' = Append(timers, Timer(o, n))
    /\ UNCHANGED current

\* Mutant: the last timer takes over the expiry of the one that goes.
SwapKeepsExpiry(i) ==
    SubSeq([timers EXCEPT ![i] = [timers[Len(timers)] EXCEPT !.left = timers[i].left]], 1, Len(timers) - 1)

\* The last timer takes the place of the one that goes.
WithoutAt(i) == SubSeq([timers EXCEPT ![i] = timers[Len(timers)]], 1, Len(timers) - 1)

CursorIn(pool, position) == IF position > Len(pool) THEN 1 ELSE position

\* Mutant: the round starts again with every timer deleted.
DeleteRestarts(o) ==
    \E i \in Positions(o) : timers' = WithoutAt(i) /\ current' = 1

SoftwareTimerDelete(o) ==
    \E i \in Positions(o) :
        /\ timers'  = WithoutAt(i)
        /\ current' = CursorIn(timers', current)

SoftwareTimerChange(o, n) ==
    \E i \in Positions(o) :
        /\ timers' = [timers EXCEPT ![i] = Timer(o, n)]
        /\ UNCHANGED current

\* The timer the cursor is at when the callback has returned is set again, by
\* the interval of the one that fired.
Reschedule(pool, position, n) ==
    IF position \in DOMAIN pool THEN [pool EXCEPT ![position].left = n] ELSE pool

\* The callback has left the pool as it was, or has deleted its own timer.
AfterCallback(o) == {timers} \cup (IF o \in OneShot THEN {WithoutAt(current)} ELSE {})

Fires(o) ==
    /\ timers # << >> /\ timers[current].owner = o /\ timers[current].left = 0
    /\ \E pool \in AfterCallback(o) :
         LET here == CursorIn(pool, current)
         IN  /\ timers'  = Reschedule(pool, here, timers[current].interval)
             /\ current' = CursorIn(pool, here + 1)

Passes ==
    /\ timers # << >> /\ timers[current].left > 0
    /\ current' = CursorIn(timers, current + 1)
    /\ UNCHANGED timers

SoftwareTimerRun == Passes \/ \E o \in Owner : Fires(o)

\* A tick of the clock.
Millis ==
    /\ timers' = [i \in DOMAIN timers |-> [timers[i] EXCEPT !.left = IF @ = 0 THEN 0 ELSE @ - 1]]
    /\ UNCHANGED current

TimersNext ==
    \/ \E o \in Owner, n \in Interval : SoftwareTimerAdd(o, n) \/ SoftwareTimerChange(o, n)
    \/ \E o \in Owner : SoftwareTimerDelete(o)
    \/ SoftwareTimerRun
    \/ Millis

\* The super loop keeps calling SoftwareTimerRun() and time goes on.
TimersSpec == TimersInit /\ [][TimersNext]_timerVars /\ WF_timerVars(SoftwareTimerRun) /\ WF_timerVars(Millis)
-----------------------------------------------------------------------------
\* The types: an owner has one timer, the cursor is in the pool.
TimersTypeOK ==
    /\ timers \in Seq([owner : Owner, interval : Interval, left : Nat])
    /\ Len(timers) <= kSoftwareTimersMax
    /\ \A i, j \in DOMAIN timers : timers[i].owner = timers[j].owner => i = j
    /\ current \in 1 .. Len(timers) \/ (timers = << >> /\ current = 1)

TimerOf(o) ==
    IF Holds(o) THEN LET t == timers[CHOOSE i \in Positions(o) : TRUE]
                     IN  [interval |-> t.interval, left |-> t.left]
                ELSE [interval |-> 0, left |-> 0]

Abstract == INSTANCE TimerSet WITH timer <- [o \in Owner |-> TimerOf(o)]

\* The pool does what TimerSet promises: timers change places and are looked
\* at in turn, and each keeps its own time, but for the one a callback that
\* deletes its timer moves under the cursor.
ActsAsTimerSet == Abstract!TimerSpec

\* "Callback invoked on expiry": a timer that is neither deleted nor changed
\* fires, and fires again, whatever is added to the pool and deleted from it,
\* unless callbacks keep deleting their own timers.
Expires(o) == Fires(o) /\ Len(timers') < Len(timers)

TimersFire ==
    <>[][\A o \in OneShot : ~Expires(o)]_timerVars =>
    \A o \in Owner :
        <>[]Holds(o) /\ <>[][\A n \in Interval : ~SoftwareTimerChange(o, n)]_timerVars
            => []<><<Fires(o)>>_timerVars
=============================================================================
