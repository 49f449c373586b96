----------------------- MODULE SoftwareTimers_proofs ------------------------
(***************************************************************************)
(* Theorems of SoftwareTimers, for every set of owners, every size of the  *)
(* pool and all intervals.  Timers is the inductive invariant; ActsAsSet   *)
(* proves the refinement of TimerSet from it.  The lemmas speak of pools,  *)
(* that is of the values of the variable timers before and after a step.   *)
(***************************************************************************)
EXTENDS SoftwareTimers, TLAPS, SequenceTheorems

Record == [owner : Owner, interval : Interval, left : Nat]

Pool(p) ==
    /\ p \in Seq(Record) /\ Len(p) <= kSoftwareTimersMax
    /\ \A i, j \in 1 .. Len(p) : p[i].owner = p[j].owner => i = j

Cursor(p, c) == c \in 1 .. Len(p) \/ (p = << >> /\ c = 1)

\* TimerOf for any pool.
At(p, o) == {i \in DOMAIN p : p[i].owner = o}
View(p, o) ==
    IF At(p, o) # {} THEN LET t == p[CHOOSE i \in At(p, o) : TRUE]
                          IN  [interval |-> t.interval, left |-> t.left]
                     ELSE [interval |-> 0, left |-> 0]

\* What the theorems say, in the words of the lemmas.
LEMMA InPools ==
    /\ TimersTypeOK <=> Pool(timers) /\ Cursor(timers, current)
    /\ TimersTypeOK' <=> Pool(timers') /\ Cursor(timers', current')
    /\ \A o : TimerOf(o) = View(timers, o)
    /\ \A o : TimerOf(o)' = View(timers', o)
<1>1. \A S, s : s \in Seq(S) => DOMAIN s = 1 .. Len(s)
  BY LenProperties
<1>2. TimersTypeOK <=> Pool(timers) /\ Cursor(timers, current)
  BY <1>1, SMTT(30) DEF TimersTypeOK, Pool, Cursor, Record
<1>3. TimersTypeOK' <=> Pool(timers') /\ Cursor(timers', current')
  BY <1>1, SMTT(30) DEF TimersTypeOK, Pool, Cursor, Record
<1>4. \A o : TimerOf(o) = View(timers, o)
  BY DEF TimerOf, View, At, Holds, Positions
<1>5. \A o : TimerOf(o)' = View(timers', o)
  BY DEF TimerOf, View, At, Holds, Positions
<1> QED  BY <1>2, <1>3, <1>4, <1>5

\* The parts of a pool.
LEMMA PoolParts ==
    ASSUME NEW p, Pool(p)
    PROVE  /\ Len(p) \in Nat /\ DOMAIN p = 1 .. Len(p)
           /\ \A i \in 1 .. Len(p) : /\ p[i] \in Record /\ p[i].owner \in Owner
                                     /\ p[i].interval \in Nat \ {0} /\ p[i].left \in Nat
<1>1. p \in Seq(Record)
  BY DEF Pool
<1>2. Len(p) \in Nat /\ DOMAIN p = 1 .. Len(p)
  BY <1>1, LenProperties
<1>3. \A i \in 1 .. Len(p) : p[i] \in Record
  BY <1>1, ElementOfSeq
<1>4. \A t \in Record : t.owner \in Owner /\ t.interval \in Nat \ {0} /\ t.left \in Nat
  BY TimersAssumption DEF Record
<1> QED  BY <1>2, <1>3, <1>4

\* An owner's timer is found at the one position that is the owner's.
LEMMA ViewIs ==
    ASSUME NEW p, Pool(p)
    PROVE  /\ \A i \in 1 .. Len(p) :
                View(p, p[i].owner) = [interval |-> p[i].interval, left |-> p[i].left]
           /\ \A o : (\A i \in 1 .. Len(p) : p[i].owner # o) => View(p, o) = Abstract!Off
<1>1. DOMAIN p = 1 .. Len(p)
  BY PoolParts
<1>2. ASSUME NEW i \in 1 .. Len(p)
      PROVE  View(p, p[i].owner) = [interval |-> p[i].interval, left |-> p[i].left]
  <2>1. At(p, p[i].owner) = {i}
    BY <1>1 DEF At, Pool
  <2>2. (CHOOSE k \in At(p, p[i].owner) : TRUE) = i
    BY <2>1
  <2> QED  BY <2>1, <2>2 DEF View
<1>3. ASSUME NEW o, \A i \in 1 .. Len(p) : p[i].owner # o  PROVE  View(p, o) = Abstract!Off
  BY <1>1, <1>3 DEF View, At, Abstract!Off
<1> QED  BY <1>2, <1>3

\* SoftwareTimerDelete moves the last timer to the place of the one that goes.
LEMMA WithoutAtIs ==
    ASSUME Pool(timers), NEW i \in 1 .. Len(timers)
    PROVE  /\ Pool(WithoutAt(i)) /\ Len(WithoutAt(i)) = Len(timers) - 1
           /\ \A j \in 1 .. Len(timers) - 1 :
                WithoutAt(i)[j] = IF j = i THEN timers[Len(timers)] ELSE timers[j]
<1> DEFINE n == Len(timers)
           moved == [timers EXCEPT ![i] = timers[n]]
           rest == WithoutAt(i)
<1>1. /\ n \in Nat /\ n >= 1 /\ n <= kSoftwareTimersMax /\ DOMAIN timers = 1 .. n
      /\ \A j \in 1 .. n : timers[j] \in Record
  BY PoolParts DEF Pool
<1>2. \A j \in 1 .. n : moved[j] = IF j = i THEN timers[n] ELSE timers[j]
  BY <1>1
<1>3. \A j \in 1 .. n - 1 : moved[j] \in Record
  BY <1>1, <1>2
<1>4. rest = SubSeq(moved, 1, n - 1)
  BY DEF WithoutAt
<1>5. /\ rest \in Seq(Record) /\ Len(rest) = n - 1
      /\ \A j \in 1 .. n - 1 : rest[j] = moved[j]
  <2>1. n - 1 \in Int /\ 1 \in Int
    BY <1>1
  <2>2. /\ SubSeq(moved, 1, n - 1) \in Seq(Record)
        /\ Len(SubSeq(moved, 1, n - 1)) = IF 1 <= n - 1 THEN n - 1 - 1 + 1 ELSE 0
        /\ \A j \in 1 .. n - 1 - 1 + 1 : SubSeq(moved, 1, n - 1)[j] = moved[1 + j - 1]
    BY <1>3, <2>1, SubSeqProperties
  <2> QED  BY <1>1, <1>4, <2>2
<1>6. \A j \in 1 .. n - 1 : rest[j] = IF j = i THEN timers[n] ELSE timers[j]
  BY <1>1, <1>2, <1>5
<1>7. \A j, k \in 1 .. n - 1 : rest[j].owner = rest[k].owner => j = k
  BY <1>1, <1>6 DEF Pool
<1> QED  BY <1>1, <1>5, <1>6, <1>7, TimersAssumption DEF Pool

\* Without the timer of an owner, every other owner has the timer it had.
LEMMA WithoutView ==
    ASSUME Pool(timers), NEW i \in 1 .. Len(timers)
    PROVE  /\ View(WithoutAt(i), timers[i].owner) = Abstract!Off
           /\ \A o : o # timers[i].owner => View(WithoutAt(i), o) = View(timers, o)
           /\ \A j \in 1 .. Len(WithoutAt(i)) : WithoutAt(i)[j].owner # timers[i].owner
<1> DEFINE n == Len(timers)
           rest == WithoutAt(i)
<1>1. n \in Nat /\ n >= 1
  BY PoolParts
<1>2. /\ Pool(rest) /\ Len(rest) = n - 1
      /\ \A j \in 1 .. n - 1 : rest[j] = IF j = i THEN timers[n] ELSE timers[j]
  BY WithoutAtIs
<1>3. \A j \in 1 .. n - 1 : rest[j].owner # timers[i].owner
  BY <1>1, <1>2 DEF Pool
<1>4. ASSUME NEW o, o # timers[i].owner  PROVE  View(rest, o) = View(timers, o)
  <2>1. CASE \E k \in 1 .. n : timers[k].owner = o
    <3>1. PICK k \in 1 .. n : timers[k].owner = o
      BY <2>1
    <3>2. PICK j \in 1 .. n - 1 : rest[j] = timers[k]
      <4>1. k # i
        BY <1>4, <3>1
      <4>2. CASE k = n
        BY <1>1, <1>2, <4>1, <4>2
      <4>3. CASE k # n
        BY <1>1, <1>2, <4>1, <4>3
      <4> QED  BY <4>2, <4>3
    <3>3. View(rest, rest[j].owner) = [interval |-> rest[j].interval, left |-> rest[j].left]
      BY <1>2, <3>2, ViewIs
    <3>4. View(timers, timers[k].owner) = [interval |-> timers[k].interval, left |-> timers[k].left]
      BY ViewIs
    <3> QED  BY <3>1, <3>2, <3>3, <3>4
  <2>2. CASE \A k \in 1 .. n : timers[k].owner # o
    <3>1. \A j \in 1 .. n - 1 : rest[j].owner # o
      BY <1>1, <1>2, <2>2
    <3>2. View(rest, o) = Abstract!Off
      BY <1>2, <3>1, ViewIs
    <3>3. View(timers, o) = Abstract!Off
      BY <2>2, ViewIs
    <3> QED  BY <3>2, <3>3
  <2> QED  BY <2>1, <2>2
<1> QED  BY <1>2, <1>3, <1>4, ViewIs
-----------------------------------------------------------------------------
\* A timer in its place is set to something else, of the same owner.
LEMMA ReplacedView ==
    ASSUME NEW p, Pool(p), NEW i \in 1 .. Len(p), NEW t \in Record, t.owner = p[i].owner
    PROVE  /\ Pool([p EXCEPT ![i] = t]) /\ Len([p EXCEPT ![i] = t]) = Len(p)
           /\ View([p EXCEPT ![i] = t], t.owner) = [interval |-> t.interval, left |-> t.left]
           /\ \A o : o # t.owner => View([p EXCEPT ![i] = t], o) = View(p, o)
<1> DEFINE r == [p EXCEPT ![i] = t]
           n == Len(p)
<1>1. n \in Nat /\ DOMAIN p = 1 .. n /\ \A j \in 1 .. n : p[j] \in Record
  BY PoolParts
<1>2. r \in Seq(Record) /\ Len(r) = n /\ \A j \in 1 .. n : r[j] = IF j = i THEN t ELSE p[j]
  <2>1. r \in [1 .. n -> Record] /\ \A j \in 1 .. n : r[j] = IF j = i THEN t ELSE p[j]
    BY <1>1
  <2>2. r \in Seq(Record) /\ Len(r) = n
    BY <1>1, <2>1, SeqDef, LenProperties
  <2> QED  BY <2>1, <2>2
<1>3. \A j \in 1 .. n : r[j].owner = p[j].owner
  BY <1>2
<1>4. Pool(r)
  BY <1>2, <1>3 DEF Pool
<1>5. View(r, t.owner) = [interval |-> t.interval, left |-> t.left]
  <2>1. r[i] = t
    BY <1>2
  <2>2. View(r, r[i].owner) = [interval |-> r[i].interval, left |-> r[i].left]
    BY <1>2, <1>4, ViewIs
  <2> QED  BY <2>1, <2>2
<1>6. ASSUME NEW o, o # t.owner  PROVE  View(r, o) = View(p, o)
  <2>1. CASE \E k \in 1 .. n : p[k].owner = o
    <3>1. PICK k \in 1 .. n : p[k].owner = o
      BY <2>1
    <3>2. k # i /\ r[k] = p[k]
      BY <1>2, <1>6, <3>1
    <3>3. View(r, r[k].owner) = [interval |-> r[k].interval, left |-> r[k].left]
      BY <1>2, <1>4, ViewIs
    <3>4. View(p, p[k].owner) = [interval |-> p[k].interval, left |-> p[k].left]
      BY ViewIs
    <3> QED  BY <3>1, <3>2, <3>3, <3>4
  <2>2. CASE \A k \in 1 .. n : p[k].owner # o
    <3>1. \A k \in 1 .. Len(r) : r[k].owner # o
      BY <1>2, <1>3, <2>2
    <3>2. View(r, o) = Abstract!Off
      BY <1>4, <3>1, ViewIs
    <3>3. View(p, o) = Abstract!Off
      BY <2>2, ViewIs
    <3> QED  BY <3>2, <3>3
  <2> QED  BY <2>1, <2>2
<1> QED  BY <1>2, <1>4, <1>5, <1>6

\* The abstract timers before and after a step.
Now  == [o \in Owner |-> View(timers, o)]
Then == [o \in Owner |-> View(timers', o)]

LEMMA NowThen ==
    /\ [o \in Owner |-> TimerOf(o)] = Now
    /\ [o \in Owner |-> TimerOf(o)]' = Then
BY InPools DEF Now, Then

\* The timer a position holds is on, and its owner is the one who holds it.
LEMMA HeldIs ==
    ASSUME Pool(timers), NEW i \in 1 .. Len(timers)
    PROVE  /\ timers[i].owner \in Owner
           /\ Now[timers[i].owner] = [interval |-> timers[i].interval, left |-> timers[i].left]
           /\ Now[timers[i].owner] # Abstract!Off
<1>1. timers[i].owner \in Owner /\ timers[i].interval \in Nat \ {0}
  BY PoolParts
<1>2. View(timers, timers[i].owner) = [interval |-> timers[i].interval, left |-> timers[i].left]
  BY ViewIs
<1> QED  BY <1>1, <1>2 DEF Now, Abstract!Off

\* What the steps below show of the pool after them, and of TimerSet.
Kept == Pool(timers') /\ Cursor(timers', current')

\* The cursor is brought back into the pool.
LEMMA CursorBack ==
    ASSUME NEW p, Len(p) \in Nat, p = << >> <=> Len(p) = 0, NEW c \in Nat \ {0}
    PROVE  Cursor(p, CursorIn(p, c)) /\ CursorIn(p, c) \in Nat \ {0}
BY DEF Cursor, CursorIn

LEMMA AddStep ==
    ASSUME Pool(timers), Cursor(timers, current), NEW o \in Owner, NEW n \in Interval, SoftwareTimerAdd(o, n)
    PROVE  Kept /\ Abstract!Arm(o, n)
<1> DEFINE k == Len(timers)
           t == [owner |-> o, interval |-> n, left |-> n]
<1>1. /\ timers' = Append(timers, t) /\ current' = current /\ k < kSoftwareTimersMax
      /\ \A i \in 1 .. k : timers[i].owner # o
  BY PoolParts DEF SoftwareTimerAdd, Timer, Holds, Positions
<1>2. t \in Record /\ t.owner = o /\ t.interval = n /\ t.left = n
  BY TimersAssumption DEF Record
<1>3. k \in Nat /\ timers \in Seq(Record)
  BY PoolParts DEF Pool
<1>4. /\ timers' \in Seq(Record) /\ Len(timers') = k + 1 /\ timers'[k + 1] = t
      /\ \A i \in 1 .. k : timers'[i] = timers[i]
  BY <1>1, <1>2, <1>3, AppendProperties
<1>5. \A i, j \in 1 .. k + 1 : timers'[i].owner = timers'[j].owner => i = j
  BY <1>1, <1>2, <1>3, <1>4 DEF Pool
<1>6. Pool(timers')
  BY <1>1, <1>3, <1>4, <1>5, TimersAssumption DEF Pool
<1>7. Cursor(timers', current')
  <2>1. CASE current \in 1 .. k
    BY <1>1, <1>3, <1>4, <2>1 DEF Cursor
  <2>2. CASE current = 1
    BY <1>1, <1>3, <1>4, <2>2 DEF Cursor
  <2> QED  BY <2>1, <2>2 DEF Cursor
<1>8. View(timers', o) = [interval |-> n, left |-> n]
  <2>1. View(timers', timers'[k + 1].owner) = [interval |-> timers'[k + 1].interval, left |-> timers'[k + 1].left]
    <3>1. k + 1 \in 1 .. Len(timers')
      BY <1>3, <1>4
    <3> QED  BY <1>6, <3>1, ViewIs
  <2> QED  BY <1>2, <1>4, <2>1
<1>9. ASSUME NEW q \in Owner, q # o  PROVE  View(timers', q) = View(timers, q)
  <2>1. CASE \E i \in 1 .. k : timers[i].owner = q
    <3>1. PICK i \in 1 .. k : timers[i].owner = q
      BY <2>1
    <3>2. i \in 1 .. Len(timers') /\ timers'[i] = timers[i]
      BY <1>3, <1>4
    <3>3. View(timers', timers'[i].owner) = [interval |-> timers'[i].interval, left |-> timers'[i].left]
      BY <1>6, <3>2, ViewIs
    <3>4. View(timers, timers[i].owner) = [interval |-> timers[i].interval, left |-> timers[i].left]
      BY ViewIs
    <3> QED  BY <3>1, <3>2, <3>3, <3>4
  <2>2. CASE \A i \in 1 .. k : timers[i].owner # q
    <3>1. \A i \in 1 .. Len(timers') : timers'[i].owner # q
      BY <1>2, <1>3, <1>4, <1>9, <2>2
    <3>2. View(timers', q) = Abstract!Off
      BY <1>6, <3>1, ViewIs
    <3>3. View(timers, q) = Abstract!Off
      BY <2>2, ViewIs
    <3> QED  BY <3>2, <3>3
  <2> QED  BY <2>1, <2>2
<1>10. Abstract!Arm(o, n)
  <2>1. Then = [Now EXCEPT ![o] = [interval |-> n, left |-> n]]
    BY <1>8, <1>9 DEF Now, Then
  <2> QED  BY <2>1, NowThen DEF Abstract!Arm, Abstract!Set
<1> QED  BY <1>6, <1>7, <1>10 DEF Kept

LEMMA DeleteStep ==
    ASSUME Pool(timers), Cursor(timers, current), NEW o \in Owner, SoftwareTimerDelete(o)
    PROVE  Kept /\ Abstract!Disarm(o)
<1>1. PICK i \in 1 .. Len(timers) : /\ timers[i].owner = o /\ timers' = WithoutAt(i)
                                   /\ current' = CursorIn(timers', current)
  BY PoolParts DEF SoftwareTimerDelete, Positions
<1>2. Pool(timers') /\ current \in Nat \ {0}
  BY <1>1, WithoutAtIs, PoolParts DEF Cursor
<1>3. Len(timers') \in Nat /\ (timers' = << >> <=> Len(timers') = 0)
  BY <1>2, EmptySeq DEF Pool
<1>4. Cursor(timers', current')
  BY <1>1, <1>2, <1>3, CursorBack
<1>5. View(timers', o) = Abstract!Off /\ \A q : q # o => View(timers', q) = View(timers, q)
  BY <1>1, WithoutView
<1>6. Then = [Now EXCEPT ![o] = Abstract!Off]
  BY <1>5 DEF Now, Then
<1> QED  BY <1>2, <1>4, <1>6, NowThen DEF Abstract!Disarm, Kept

LEMMA ChangeStep ==
    ASSUME Pool(timers), Cursor(timers, current), NEW o \in Owner, NEW n \in Interval, SoftwareTimerChange(o, n)
    PROVE  Kept /\ Abstract!Arm(o, n)
<1> DEFINE t == [owner |-> o, interval |-> n, left |-> n]
<1>1. PICK i \in 1 .. Len(timers) : timers[i].owner = o /\ timers' = [timers EXCEPT ![i] = t] /\ current' = current
  BY PoolParts DEF SoftwareTimerChange, Positions, Timer
<1>2. t \in Record /\ t.owner = timers[i].owner /\ t.owner = o /\ t.interval = n /\ t.left = n
  BY <1>1, TimersAssumption DEF Record
<1> HIDE DEF t
<1>3. /\ Pool(timers') /\ Len(timers') = Len(timers)
      /\ View(timers', o) = [interval |-> n, left |-> n]
      /\ \A q : q # o => View(timers', q) = View(timers, q)
  <2>1. /\ Pool([timers EXCEPT ![i] = t]) /\ Len([timers EXCEPT ![i] = t]) = Len(timers)
        /\ View([timers EXCEPT ![i] = t], t.owner) = [interval |-> t.interval, left |-> t.left]
        /\ \A q : q # t.owner => View([timers EXCEPT ![i] = t], q) = View(timers, q)
    BY <1>2, ReplacedView
  <2> QED  BY <1>1, <1>2, <2>1
<1>4. Cursor(timers', current')
  BY <1>1, <1>3, PoolParts DEF Cursor
<1>5. Then = [Now EXCEPT ![o] = [interval |-> n, left |-> n]]
  BY <1>3 DEF Now, Then
<1> QED  BY <1>3, <1>4, <1>5, NowThen DEF Abstract!Arm, Abstract!Set, Kept

\* The timer at the cursor fires and stays.
LEMMA FireStep ==
    ASSUME Pool(timers), Cursor(timers, current), NEW o \in Owner,
           current \in 1 .. Len(timers), timers[current].owner = o, timers[current].left = 0,
           timers' = Reschedule(timers, current, timers[current].interval),
           current' = CursorIn(timers, current + 1)
    PROVE  Kept /\ Abstract!Fire(o)
<1> DEFINE t == [timers[current] EXCEPT !.left = timers[current].interval]
<1>1. /\ timers[current] \in Record /\ timers[current].interval \in Nat \ {0}
      /\ Len(timers) \in Nat /\ DOMAIN timers = 1 .. Len(timers)
  BY PoolParts
<1>2. timers' = [timers EXCEPT ![current] = t]
  BY <1>1 DEF Reschedule
<1>3. /\ t \in Record /\ t.owner = o /\ t.owner = timers[current].owner
      /\ t.interval = timers[current].interval /\ t.left = timers[current].interval
  BY <1>1 DEF Record
<1> HIDE DEF t
<1>4. /\ Pool(timers') /\ Len(timers') = Len(timers)
      /\ View(timers', o) = [interval |-> t.interval, left |-> t.left]
      /\ \A q : q # o => View(timers', q) = View(timers, q)
  <2>1. /\ Pool([timers EXCEPT ![current] = t]) /\ Len([timers EXCEPT ![current] = t]) = Len(timers)
        /\ View([timers EXCEPT ![current] = t], t.owner) = [interval |-> t.interval, left |-> t.left]
        /\ \A q : q # t.owner => View([timers EXCEPT ![current] = t], q) = View(timers, q)
    BY <1>3, ReplacedView
  <2> QED  BY <1>2, <1>3, <2>1
<1>5. Cursor(timers', current')
  <2>1. current' \in 1 .. Len(timers)
    BY <1>1 DEF CursorIn
  <2> QED  BY <1>4, <2>1 DEF Cursor
<1>6. /\ Now[o] = [interval |-> timers[current].interval, left |-> 0] /\ Now[o] # Abstract!Off
      /\ Now[o].interval = timers[current].interval /\ Now[o].left = 0
  BY HeldIs
<1>7. Then = [Now EXCEPT ![o] = [interval |-> Now[o].interval, left |-> Now[o].interval]]
  BY <1>3, <1>4, <1>6 DEF Now, Then
<1> QED  BY <1>4, <1>5, <1>6, <1>7, NowThen DEF Abstract!Fire, Abstract!Set, Kept

\* FireOnce, of the timers before and after the step.
Once(before, after, o, delayed) ==
    after = [q \in Owner |-> IF q = o THEN Abstract!Off
                            ELSE IF q \in delayed THEN [before[q] EXCEPT !.left = before[o].interval]
                            ELSE before[q]]

LEMMA FireOnceIs ==
    ASSUME NEW o \in Owner, NEW delayed \in SUBSET (Owner \ {o}), Now[o] # Abstract!Off, Now[o].left = 0,
           \A p, q \in delayed : p = q /\ Now[p] # Abstract!Off, Once(Now, Then, o, delayed)
    PROVE  Abstract!FireOnce(o)
<1> DEFINE before == [q \in Owner |-> TimerOf(q)]
           after  == [q \in Owner |-> TimerOf(q)]'
<1>1. /\ before[o] # Abstract!Off /\ before[o].left = 0
      /\ \A p, q \in delayed : p = q /\ before[p] # Abstract!Off
      /\ Once(before, after, o, delayed)
  <2> HIDE DEF before, after
  <2>1. before = Now /\ after = Then
    BY NowThen DEF before, after
  <2> QED  BY <2>1
<1> QED  BY <1>1 DEF Abstract!FireOnce, Once

\* It fires and its callback deletes it: the timer that comes under the cursor
\* is the one that is delayed.
LEMMA FireOnceStep ==
    ASSUME Pool(timers), Cursor(timers, current), NEW o \in Owner,
           current \in 1 .. Len(timers), timers[current].owner = o, timers[current].left = 0,
           timers' = Reschedule(WithoutAt(current), CursorIn(WithoutAt(current), current), timers[current].interval),
           current' = CursorIn(WithoutAt(current), CursorIn(WithoutAt(current), current) + 1)
    PROVE  Kept /\ Abstract!FireOnce(o)
<1> DEFINE rest == WithoutAt(current)
           here == CursorIn(rest, current)
           n == timers[current].interval
           t == [rest[here] EXCEPT !.left = n]
<1>1. /\ n \in Nat \ {0} /\ Len(timers) \in Nat /\ current \in Nat \ {0}
      /\ Now[o] = [interval |-> n, left |-> 0] /\ Now[o] # Abstract!Off
      /\ Now[o].interval = n /\ Now[o].left = 0
  BY PoolParts, HeldIs
<1>2. /\ Pool(rest) /\ View(rest, o) = Abstract!Off
      /\ \A q : q # o => View(rest, q) = View(timers, q)
      /\ \A j \in 1 .. Len(rest) : rest[j].owner # o
  BY WithoutAtIs, WithoutView
<1>3. Len(rest) \in Nat /\ (rest = << >> <=> Len(rest) = 0) /\ DOMAIN rest = 1 .. Len(rest)
  BY <1>2, EmptySeq, PoolParts DEF Pool
<1>4. Cursor(rest, here) /\ here \in Nat \ {0}
  BY <1>1, <1>3, CursorBack
<1>5. Cursor(rest, current')
  <2>1. here + 1 \in Nat \ {0}
    BY <1>4
  <2> QED  BY <1>3, <2>1, CursorBack
<1>6. CASE Len(rest) = 0
  <2>1. timers' = rest
    BY <1>3, <1>6 DEF Reschedule
  <2>2. Kept
    BY <1>2, <1>5, <2>1 DEF Kept
  <2>3. Once(Now, Then, o, {})
    BY <1>2, <2>1 DEF Now, Then, Once
  <2> QED  BY <1>1, <2>2, <2>3, FireOnceIs
<1>7. CASE Len(rest) # 0
  <2>1. here \in 1 .. Len(rest)
    BY <1>3, <1>4, <1>7 DEF Cursor
  <2>2. timers' = [rest EXCEPT ![here] = t]
    BY <1>3, <2>1 DEF Reschedule
  <2>3. rest[here] \in Record /\ rest[here].owner \in Owner /\ rest[here].interval \in Nat \ {0}
    BY <1>2, <2>1, PoolParts
  <2> DEFINE d == rest[here].owner
  <2>4. t \in Record /\ t.owner = d /\ t.interval = rest[here].interval /\ t.left = n
    BY <1>1, <2>3 DEF Record
  <2>5. d \in Owner /\ d # o
    BY <1>2, <2>1, <2>3
  <2>6. View(rest, d) = [interval |-> rest[here].interval, left |-> rest[here].left]
    BY <1>2, <2>1, ViewIs
  <2>7. /\ Pool([rest EXCEPT ![here] = t]) /\ Len([rest EXCEPT ![here] = t]) = Len(rest)
        /\ View([rest EXCEPT ![here] = t], t.owner) = [interval |-> t.interval, left |-> t.left]
        /\ \A q : q # t.owner => View([rest EXCEPT ![here] = t], q) = View(rest, q)
    <3> HIDE DEF t, rest, here
    <3> QED  BY <1>2, <2>1, <2>4, ReplacedView
  <2>8. /\ Pool(timers') /\ Len(timers') = Len(rest)
        /\ View(timers', d) = [interval |-> rest[here].interval, left |-> n]
        /\ \A q : q # d => View(timers', q) = View(rest, q)
    <3> HIDE DEF t, rest, here
    <3> QED  BY <2>2, <2>4, <2>7
  <2>9. Kept
    <3>1. current' \in 1 .. Len(rest)
      BY <1>3, <1>5, <1>7 DEF Cursor
    <3> QED  BY <2>8, <3>1 DEF Kept, Cursor
  <2>10. /\ Now[d] = [interval |-> rest[here].interval, left |-> rest[here].left]
         /\ Now[d] # Abstract!Off
         /\ [Now[d] EXCEPT !.left = Now[o].interval] = [interval |-> rest[here].interval, left |-> n]
    <3>1. Now[d] = View(rest, d)
      BY <1>2, <2>5 DEF Now
    <3> QED  BY <1>1, <2>3, <2>6, <3>1 DEF Abstract!Off
  <2>11. Once(Now, Then, o, {d})
    <3> HIDE DEF d, rest, here
    <3>1. \A q \in Owner : q # o /\ q # d => View(timers', q) = Now[q]
      BY <1>2, <2>8 DEF Now
    <3>2. View(timers', o) = Abstract!Off
      BY <1>2, <2>5, <2>8
    <3> QED  BY <2>5, <2>8, <2>10, <3>1, <3>2 DEF Then, Once
  <2>12. \A p, q \in {d} : p = q /\ Now[p] # Abstract!Off
    BY <2>10
  <2>13. {d} \in SUBSET (Owner \ {o})
    BY <2>5
  <2> HIDE DEF d
  <2> QED  BY <1>1, <2>9, <2>11, <2>12, <2>13, FireOnceIs
<1> QED  BY <1>6, <1>7

LEMMA FiresStep ==
    ASSUME Pool(timers), Cursor(timers, current), NEW o \in Owner, Fires(o)
    PROVE  Kept /\ (Abstract!Fire(o) \/ Abstract!FireOnce(o))
<1>1. current \in 1 .. Len(timers) /\ timers[current].owner = o /\ timers[current].left = 0
  BY DEF Fires, Cursor
<1>2. PICK pool \in AfterCallback(o) :
        /\ timers'  = Reschedule(pool, CursorIn(pool, current), timers[current].interval)
        /\ current' = CursorIn(pool, CursorIn(pool, current) + 1)
  BY DEF Fires
<1>3. CASE pool = timers
  <2>1. CursorIn(timers, current) = current
    BY <1>1, PoolParts DEF CursorIn
  <2> QED  BY <1>1, <1>2, <1>3, <2>1, FireStep
<1>4. CASE pool = WithoutAt(current)
  BY <1>1, <1>2, <1>4, FireOnceStep
<1> QED  BY <1>2, <1>3, <1>4 DEF AfterCallback

LEMMA PassesStep ==
    ASSUME Pool(timers), Cursor(timers, current), Passes
    PROVE  Kept /\ UNCHANGED [o \in Owner |-> TimerOf(o)]
<1>1. timers' = timers /\ current' = CursorIn(timers, current + 1) /\ current \in 1 .. Len(timers)
  BY DEF Passes, Cursor
<1>2. current' \in 1 .. Len(timers)
  BY <1>1, PoolParts DEF CursorIn
<1>3. Then = Now
  BY <1>1 DEF Now, Then
<1> QED  BY <1>1, <1>2, <1>3, NowThen DEF Kept, Cursor

\* A tick takes one from what is left of every timer.
LEMMA MillisStep ==
    ASSUME Pool(timers), Cursor(timers, current), Millis
    PROVE  Kept /\ Abstract!Elapse
<1> DEFINE k == Len(timers)
           Less(x) == IF x = 0 THEN 0 ELSE x - 1
<1>1. /\ timers' = [i \in 1 .. k |-> [timers[i] EXCEPT !.left = Less(timers[i].left)]]
      /\ current' = current
  BY PoolParts DEF Millis
<1>2. \A t \in Record : /\ [t EXCEPT !.left = Less(t.left)] \in Record
                        /\ [t EXCEPT !.left = Less(t.left)].owner = t.owner
                        /\ [t EXCEPT !.left = Less(t.left)].interval = t.interval
                        /\ [t EXCEPT !.left = Less(t.left)].left = Less(t.left)
  BY DEF Record
<1>3. k \in Nat /\ \A i \in 1 .. k : timers[i] \in Record
  BY PoolParts
<1>4. \A i \in 1 .. k : /\ timers'[i] \in Record /\ timers'[i].owner = timers[i].owner
                       /\ timers'[i].interval = timers[i].interval
                       /\ timers'[i].left = Less(timers[i].left)
  BY <1>1, <1>2, <1>3
<1>5. timers' \in Seq(Record) /\ Len(timers') = k
  <2>1. timers' \in [1 .. k -> Record]
    BY <1>1, <1>4
  <2> QED  BY <1>3, <2>1, SeqDef, LenProperties
<1>6. Pool(timers') /\ Cursor(timers', current')
  <2>1. Cursor(timers', current')
    BY <1>1, <1>3, <1>5, EmptySeq DEF Cursor
  <2> QED  BY <1>4, <1>5, <2>1 DEF Pool
<1>7. ASSUME NEW o \in Owner
      PROVE  View(timers', o) = [Now[o] EXCEPT !.left = Less(Now[o].left)]
  <2>1. CASE \E i \in 1 .. k : timers[i].owner = o
    <3>1. PICK i \in 1 .. k : timers[i].owner = o
      BY <2>1
    <3>2. View(timers', timers'[i].owner) = [interval |-> timers'[i].interval, left |-> timers'[i].left]
      BY <1>5, <1>6, <3>1, ViewIs
    <3>3. Now[o] = [interval |-> timers[i].interval, left |-> timers[i].left]
      BY <3>1, ViewIs DEF Now
    <3> QED  BY <1>4, <3>1, <3>2, <3>3
  <2>2. CASE \A i \in 1 .. k : timers[i].owner # o
    <3>1. \A i \in 1 .. Len(timers') : timers'[i].owner # o
      BY <1>4, <1>5, <2>2
    <3>2. View(timers', o) = Abstract!Off
      BY <1>6, <3>1, ViewIs
    <3>3. Now[o] = Abstract!Off
      BY <2>2, ViewIs DEF Now
    <3> QED  BY <3>2, <3>3 DEF Abstract!Off
  <2> QED  BY <2>1, <2>2
<1>8. Then = [o \in Owner |-> [Now[o] EXCEPT !.left = Less(Now[o].left)]]
  BY <1>7 DEF Then
<1> QED  BY <1>6, <1>8, NowThen DEF Abstract!Elapse, Kept
-----------------------------------------------------------------------------
\* Every step keeps the pool and is a step of TimerSet, or none.
LEMMA PoolStep ==
    ASSUME Pool(timers), Cursor(timers, current), TimersNext
    PROVE  Kept /\ (Abstract!TimerNext \/ UNCHANGED [o \in Owner |-> TimerOf(o)])
<1>1. CASE \E o \in Owner, n \in Interval : SoftwareTimerAdd(o, n) \/ SoftwareTimerChange(o, n)
  BY <1>1, AddStep, ChangeStep DEF Abstract!TimerNext
<1>2. CASE \E o \in Owner : SoftwareTimerDelete(o)
  BY <1>2, DeleteStep DEF Abstract!TimerNext
<1>3. CASE \E o \in Owner : Fires(o)
  BY <1>3, FiresStep DEF Abstract!TimerNext
<1>4. CASE Passes
  BY <1>4, PassesStep
<1>5. CASE Millis
  BY <1>5, MillisStep DEF Abstract!TimerNext
<1> QED  BY <1>1, <1>2, <1>3, <1>4, <1>5 DEF TimersNext, SoftwareTimerRun

\* The pool starts empty, with every timer off.
LEMMA PoolStart == TimersInit => Pool(timers) /\ Cursor(timers, current) /\ Abstract!TimerInit
<1> SUFFICES ASSUME TimersInit  PROVE  Pool(timers) /\ Cursor(timers, current) /\ Abstract!TimerInit
  OBVIOUS
<1>1. timers = << >> /\ current = 1 /\ timers \in Seq(Record) /\ Len(timers) = 0
  BY EmptySeq DEF TimersInit
<1>2. Pool(timers) /\ Cursor(timers, current)
  BY <1>1, TimersAssumption DEF Pool, Cursor
<1>3. \A o : View(timers, o) = Abstract!Off
  BY <1>1, <1>2, ViewIs
<1>4. Now = [o \in Owner |-> Abstract!Off]
  BY <1>3 DEF Now
<1> QED  BY <1>2, <1>4, NowThen DEF Abstract!TimerInit

\* Whatever is added, deleted and changed, by callbacks too, an owner has one
\* timer at most and s_timer_current is in the pool (softwaretimers.cpp).
THEOREM TimersCorrect == TimersSpec => []TimersTypeOK
<1>1. TimersInit => TimersTypeOK
  BY PoolStart, InPools
<1>2. TimersTypeOK /\ [TimersNext]_timerVars => TimersTypeOK'
  <2>1. TimersTypeOK /\ TimersNext => TimersTypeOK'
    BY PoolStep, InPools DEF Kept
  <2>2. TimersTypeOK /\ UNCHANGED timerVars => TimersTypeOK'
    BY InPools DEF timerVars
  <2> QED  BY <2>1, <2>2
<1> QED  BY <1>1, <1>2, PTL DEF TimersSpec

\* The pool of softwaretimers.cpp, with its timers that change places and its
\* cursor, does what TimerSet promises each owner.
THEOREM ActsAsSet == TimersSpec => ActsAsTimerSet
<1>1. TimersInit => Abstract!TimerInit
  BY PoolStart
<1>2. TimersTypeOK /\ [TimersNext]_timerVars => [Abstract!TimerNext]_[o \in Owner |-> TimerOf(o)]
  <2>1. TimersTypeOK /\ TimersNext => [Abstract!TimerNext]_[o \in Owner |-> TimerOf(o)]
    BY PoolStep, InPools
  <2>2. UNCHANGED timerVars => UNCHANGED [o \in Owner |-> TimerOf(o)]
    BY NowThen DEF timerVars, Now, Then
  <2> QED  BY <2>1, <2>2
<1> QED  BY <1>1, <1>2, TimersCorrect, PTL DEF TimersSpec, ActsAsTimerSet, Abstract!TimerSpec
=============================================================================
