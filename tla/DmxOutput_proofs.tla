-------------------------- MODULE DmxOutput_proofs --------------------------
(***************************************************************************)
(* Theorems of DmxOutput, for any number of ports, any frames and any      *)
(* order of the calls and the interrupts.  Types says what the steps left  *)
(* of a call can be and which may follow which.  TurnsInv is about what    *)
(* has the line, BuffersInv about what is in the buffers, StopsInv about   *)
(* what becomes of a port that is stopped; all three relate a port to the  *)
(* step the main loop is at, since an interrupt may come before it.        *)
(***************************************************************************)
EXTENDS DmxOutput, TLAPS, SequenceTheorems, WellFoundedInduction

Styles == {"kDelta", "kConstant"}

\* The steps of the main loop, and which of them occur in a scenario.
AllSteps ==
    [op : {"DataEnable", "DataDisable", "Drain", "StartDmxOutput", "RdmTransmit", "Halt", "Resume",
           "TakeBuffer", "StartSendStyleDirect", "Sync", "Start", "Stop"}, port : Port, arg : {""}]
      \cup [op : {"SetPortDirection"}, port : Port, arg : BOOLEAN]
      \cup [op : {"SetOutputStyle"}, port : Port, arg : Styles]
      \cup [op : {"CopyHead", "CopyTail", "Fill", "Clear"}, port : Port, arg : Frames]

Legal(s) ==
    /\ s.op \in {"Stop", "RdmTransmit"} => Occurs("rdm")
    /\ s.op \in {"Fill", "Clear"} => Occurs("fill")
    /\ s.op = "Sync" => Occurs("sync")
    /\ ~Occurs("style") => /\ s.op \notin {"Halt", "Resume"}
                           /\ s.op = "SetOutputStyle" => s.arg = "kDelta"

Steps == {s \in AllSteps : Legal(s)}
Done  == Step("end", 0, "")
AnyStep == Steps \cup {Done}

\* What may come after a step: the rest of what it is part of, or something new.
Begins == {"TakeBuffer", "StartSendStyleDirect", "Start", "Sync", "Fill", "Halt", "Resume", "end"}
Waits  == {"DataDisable", "Drain"}
Parts  == {"TakeBuffer", "CopyHead", "Clear", "Stop", "StartSendStyleDirect", "RdmTransmit", "Halt"} \cup Waits

Is(s, ops, p) == s.op \in ops /\ s.port = p
Off(s, p)     == Is(s, {"SetPortDirection"}, p) /\ s.arg = FALSE

Follows(s, next) ==
    /\ s.op = "TakeBuffer" => Is(next, {"CopyHead"}, s.port)
    /\ s.op = "CopyHead" => next = Step("CopyTail", s.port, s.arg)
    /\ s.op \in Waits => \/ Is(next, {"DataEnable", "Clear", "RdmTransmit"}, s.port)
                         \/ Off(next, s.port)
                         \/ next.op \in {"Halt", "Resume"}
    /\ s.op = "Clear" => Is(next, {"DataEnable"}, s.port)
    /\ s.op = "Stop" => Off(next, s.port)
    /\ Off(s, s.port) => Is(next, {"RdmTransmit"}, s.port) \/ Off(next, s.port)
    /\ s.op = "StartSendStyleDirect" => Is(next, {"Start"}, s.port)
    /\ s.op = "RdmTransmit" => next = Done
    /\ s.op = "Halt" => next.op \in {"Halt", "Resume"}
    /\ s.op \notin Parts /\ ~Off(s, s.port) => next.op \in Begins

Nth(t, i, next)  == IF i <= Len(t) THEN t[i] ELSE next
Chained(t, next) == \A i \in 1 .. Len(t) : Follows(t[i], Nth(t, i + 1, next))

\* The step to come, the one after it, and all that is left.
Cur   == Nth(todo, 1, Done)
After == Nth(todo, 2, Done)
Left  == {todo[i] : i \in 1 .. Len(todo)}

Wire  == [kind : {"none", "dmx", "rdm"}, index : {0, 1}, head : Frames, copying : BOOLEAN]
Frame == [head : Frames, tail : Frames]

Variables ==
    /\ port_state \in [Port -> {"kIdle", "kTx", "kRx"}] /\ direction \in [Port -> {"kInput", "kOutput"}]
    /\ output_style \in [Port -> Styles] /\ has_continuous_output \in BOOLEAN
    /\ state \in [Port -> {"kIdle", "kDmxInter", "kDmxBreak", "kDmxMab"}]
    /\ rdm \in [Port -> {"kIdle", "kBreak", "kMab", "kDirection"}]
    /\ timer \subseteq Port /\ wire \in [Port -> Wire] /\ data \in [Port -> [{0, 1} -> Frame]]
    /\ write_index \in [Port -> {0, 1}] /\ read_index \in [Port -> {0, 1}]
    /\ data_pending \subseteq Port /\ started \subseteq Port /\ scenario \in Scenarios
    /\ ~Occurs("style") => \A p \in Port : output_style[p] = "kDelta"

Types == Variables /\ todo \in Seq(Steps) /\ Chained(todo, Done)
-----------------------------------------------------------------------------
(* The calls, as sequences of steps.                                       *)
LEMMA Numbers == NumPorts \in Nat /\ NumPorts # 0 /\ Port \subseteq Nat
BY OutputAssumption DEF Port

LEMMA StepFields ==
    ASSUME NEW s \in Steps
    PROVE  /\ s.port \in Port /\ s = Step(s.op, s.port, s.arg) /\ s.op # "end"
           /\ s.op = "SetPortDirection" => s.arg \in BOOLEAN
           /\ s.op = "SetOutputStyle" => s.arg \in Styles
           /\ s.op \in {"CopyHead", "CopyTail", "Fill", "Clear"} => s.arg \in Frames
           /\ Legal(s)
BY DEF Steps, AllSteps, Step

LEMMA NthIs ==
    ASSUME NEW t \in Seq(Steps), NEW i \in Nat \ {0}, NEW next \in AnyStep
    PROVE  Nth(t, i, next) \in AnyStep
BY DEF Nth, AnyStep

\* Two sequences of steps, one after the other.
LEMMA ChainedConcat ==
    ASSUME NEW s \in Seq(Steps), NEW t \in Seq(Steps), NEW next,
           Chained(s, Nth(t, 1, next)), Chained(t, next)
    PROVE  Chained(s \o t, next)
<1> DEFINE u == s \o t
<1>1. /\ Len(u) = Len(s) + Len(t) /\ Len(s) \in Nat /\ Len(t) \in Nat
      /\ \A i \in 1 .. Len(u) : u[i] = IF i <= Len(s) THEN s[i] ELSE t[i - Len(s)]
  BY ConcatProperties
<1> SUFFICES ASSUME NEW i \in 1 .. Len(u)  PROVE Follows(u[i], Nth(u, i + 1, next))
  BY DEF Chained
<1> HIDE DEF u
<1>2. CASE i <= Len(s)
  <2>1. u[i] = s[i] /\ i \in 1 .. Len(s)
    BY <1>1, <1>2
  <2>2. Nth(u, i + 1, next) = Nth(s, i + 1, Nth(t, 1, next))
    BY <1>1, <1>2 DEF Nth
  <2> QED  BY <2>1, <2>2 DEF Chained
<1>3. CASE i > Len(s)
  <2> DEFINE j == i - Len(s)
  <2>1. u[i] = t[j] /\ j \in 1 .. Len(t)
    BY <1>1, <1>3
  <2>2. Nth(u, i + 1, next) = Nth(t, j + 1, next)
    BY <1>1, <1>3 DEF Nth
  <2> QED  BY <2>1, <2>2 DEF Chained
<1> QED  BY <1>1, <1>2, <1>3

\* Sequences of steps of T that begin with, and may be followed by, one of ops.
Programs(T, ops) ==
    {t \in Seq(T) : /\ t # <<>> => t[1].op \in ops
                    /\ \A next \in AnyStep : next.op \in ops => Chained(t, next)}

LEMMA ProgramsConcat ==
    ASSUME NEW T, T \subseteq Steps, NEW ops, NEW s \in Programs(T, ops), NEW t \in Programs(T, ops)
    PROVE  s \o t \in Programs(T, ops)
<1> DEFINE u == s \o t
<1>1. s \in Seq(T) /\ t \in Seq(T) /\ s \in Seq(Steps) /\ t \in Seq(Steps)
  BY DEF Programs
<1>2. /\ u \in Seq(T) /\ Len(u) = Len(s) + Len(t) /\ Len(s) \in Nat /\ Len(t) \in Nat
      /\ \A i \in 1 .. Len(u) : u[i] = IF i <= Len(s) THEN s[i] ELSE t[i - Len(s)]
  BY <1>1, ConcatProperties
<1>3. u # <<>> => u[1].op \in ops
  BY <1>1, <1>2 DEF Programs
<1>4. ASSUME NEW next \in AnyStep, next.op \in ops  PROVE Chained(u, next)
  <2>1. Nth(t, 1, next) \in AnyStep
    BY <1>1, NthIs
  <2>2. Nth(t, 1, next).op \in ops
    BY <1>1, <1>4 DEF Programs, Nth
  <2>3. Chained(s, Nth(t, 1, next)) /\ Chained(t, next)
    BY <1>4, <2>1, <2>2 DEF Programs
  <2> QED  BY <1>1, <2>3, ChainedConcat
<1> QED  BY <1>2, <1>3, <1>4 DEF Programs

\* Induction up to n, for a set of numbers.
LEMMA SetInduction ==
    ASSUME NEW n \in Nat, NEW S, 1 \in S, \A i \in 1 .. n - 1 : i \in S => i + 1 \in S
    PROVE  1 .. n \subseteq S
<1> DEFINE T == {i \in 1 .. n : i \notin S}
<1> SUFFICES ASSUME T # {} PROVE FALSE
  OBVIOUS
<1>0. T \subseteq Nat
  OBVIOUS
<1>1. PICK i \in T : \A j \in T : ~ (<<j, i>> \in OpToRel(<, Nat))
  BY <1>0, NatLessThanWellFounded, WFMin
<1>2. \A j \in T : ~ (j < i)
  BY <1>0, <1>1 DEF OpToRel
<1> QED  BY <1>2, i # 1 /\ i - 1 \in 1 .. n - 1

\* A call made of one for each port.
LEMMA FlattenIs ==
    ASSUME NEW C, \A s, t \in C : s \o t \in C, NEW n \in Nat \ {0}, NEW seqs \in [1 .. n -> C]
    PROVE  FlattenSeq(seqs) \in C
<1> DEFINE Part(f, i) == IF i = 1 THEN seqs[i] ELSE f[i - 1] \o seqs[i]
           Defined(f, k) == f = [i \in 1 .. k |-> Part(f, i)]
           S == {k \in 1 .. n : \E f : Defined(f, k)}
<1>0. n \in Nat /\ n >= 1 /\ n \in 1 .. n
  OBVIOUS
<1>1. 1 \in S
  <2> DEFINE f == [i \in 1 .. 1 |-> seqs[1]]
  <2>1. Defined(f, 1)
    OBVIOUS
  <2> HIDE DEF f
  <2>2. \E g : Defined(g, 1)
    BY <2>1
  <2> HIDE DEF Defined
  <2> QED  BY <2>2, <1>0
<1>2. ASSUME NEW k \in 1 .. n - 1, k \in S  PROVE k + 1 \in S
  <2>1. PICK f : Defined(f, k)
    BY <1>2
  <2> DEFINE g == [i \in 1 .. k + 1 |-> IF i = k + 1 THEN f[k] \o seqs[k + 1] ELSE f[i]]
  <2>2. \A i \in 1 .. k : f[i] = Part(f, i)
    BY <2>1
  <2>3. \A i \in 1 .. k + 1 : g[i] = Part(g, i)
    BY <2>2, <1>0
  <2>4. Defined(g, k + 1)
    <3> HIDE DEF g
    <3> QED  BY <2>3 DEF g
  <2> HIDE DEF g
  <2>5. \E h : Defined(h, k + 1)
    BY <2>4
  <2> HIDE DEF Defined
  <2> QED  BY <2>5, <1>0
<1>3. n \in S
  <2> HIDE DEF S, Defined
  <2> QED  BY <1>0, <1>1, <1>2, SetInduction
<1>4. PICK f : Defined(f, n)
  BY <1>3
<1> DEFINE flatten == CHOOSE g : g = [i \in 1 .. n |-> Part(g, i)]
<1>5. flatten = [i \in 1 .. n |-> Part(flatten, i)]
  BY <1>4
<1>6. FlattenSeq(seqs) = flatten[n]
  <2>1. Len(seqs) = n
    OBVIOUS
  <2> QED  BY <2>1, <1>0 DEF FlattenSeq
<1>7. flatten[1] = seqs[1] /\ \A k \in 1 .. n - 1 : flatten[k + 1] = flatten[k] \o seqs[k + 1]
  <2> HIDE DEF flatten
  <2>1. \A i \in 1 .. n : flatten[i] = Part(flatten, i)
    <3> HIDE DEF Part
    <3> QED  BY <1>5
  <2>2. flatten[1] = seqs[1]
    BY <1>0, <2>1
  <2>3. ASSUME NEW k \in 1 .. n - 1  PROVE flatten[k + 1] = flatten[k] \o seqs[k + 1]
    <3>1. flatten[k + 1] = Part(flatten, k + 1)
      BY <1>0, <2>1
    <3>2. k + 1 # 1 /\ (k + 1) - 1 = k
      OBVIOUS
    <3> QED  BY <3>1, <3>2
  <2> QED  BY <2>2, <2>3
<1> HIDE DEF flatten, Defined, S, Part
<1> DEFINE R == {k \in 1 .. n : flatten[k] \in C}
<1>8. 1 \in R
  BY <1>0, <1>7
<1>9. ASSUME NEW k \in 1 .. n - 1, k \in R  PROVE k + 1 \in R
  <2>1. flatten[k] \in C /\ seqs[k + 1] \in C /\ k + 1 \in 1 .. n
    BY <1>0, <1>9
  <2>2. flatten[k] \o seqs[k + 1] \in C
    BY <2>1
  <2> QED  BY <1>7, <2>1, <2>2
<1>10. n \in R
  <2> HIDE DEF R
  <2> QED  BY <1>0, <1>8, <1>9, SetInduction
<1> QED  BY <1>6, <1>10
-----------------------------------------------------------------------------
(* What is left to do, after a step.                                       *)
Moved(steps) ==
    /\ todo' \in Seq(Steps) /\ Chained(todo', Done)
    /\ Cur' = Nth(steps, 1, After)
    /\ Len(steps) >= 1 => After' = Nth(steps, 2, After)
    /\ \A s \in Left' : s \in Left \/ \E i \in 1 .. Len(steps) : s = steps[i]
    /\ \A s \in Left : s = Cur \/ s \in Left'

LEMMA CurIs ==
    ASSUME todo \in Seq(Steps), Chained(todo, Done), todo # <<>>
    PROVE  /\ Cur = Head(todo) /\ Cur \in Steps /\ Cur \in Left
           /\ After \in AnyStep /\ Follows(Cur, After) /\ (After # Done => After \in Left)
<1>1. Len(todo) \in Nat /\ Len(todo) >= 1 /\ todo[1] \in Steps
  OBVIOUS
<1>2. Cur = todo[1] /\ Head(todo) = todo[1]
  BY <1>1 DEF Cur, Nth
<1>3. After \in AnyStep
  BY NthIs DEF After, AnyStep
<1>4. Follows(todo[1], Nth(todo, 1 + 1, Done))
  BY <1>1 DEF Chained
<1>5. After # Done => After \in Left
  BY <1>1 DEF After, Nth, Left
<1> QED  BY <1>1, <1>2, <1>3, <1>4, <1>5 DEF Left, After

LEMMA ThenIs ==
    ASSUME todo \in Seq(Steps), Chained(todo, Done), todo # <<>>,
           NEW steps \in Seq(Steps), Chained(steps, After), Then(steps)
    PROVE  Moved(steps)
<1> DEFINE rest == Tail(todo)
<1>1. /\ Len(todo) \in Nat /\ Len(todo) >= 1 /\ rest \in Seq(Steps) /\ Len(rest) = Len(todo) - 1
      /\ \A i \in 1 .. Len(rest) : rest[i] = todo[i + 1]
  BY HeadTailProperties
<1>2. todo' = steps \o rest
  BY DEF Then
<1> HIDE DEF rest
<1>3. Nth(rest, 1, Done) = After
  BY <1>1 DEF Nth, After
<1>4. Chained(rest, Done)
  <2> SUFFICES ASSUME NEW i \in 1 .. Len(rest)  PROVE Follows(rest[i], Nth(rest, i + 1, Done))
    BY DEF Chained
  <2>1. Follows(todo[i + 1], Nth(todo, (i + 1) + 1, Done)) /\ rest[i] = todo[i + 1]
    BY <1>1 DEF Chained
  <2>2. Nth(rest, i + 1, Done) = Nth(todo, (i + 1) + 1, Done)
    BY <1>1 DEF Nth
  <2> QED  BY <2>1, <2>2
<1>5. todo' \in Seq(Steps) /\ Chained(todo', Done)
  <2>1. Chained(steps, Nth(rest, 1, Done))
    BY <1>3
  <2>2. Chained(steps \o rest, Done)
    BY <1>1, <1>4, <2>1, ChainedConcat
  <2>3. steps \o rest \in Seq(Steps)
    BY <1>1, ConcatProperties
  <2> QED  BY <1>2, <2>2, <2>3
<1>6. /\ Len(todo') = Len(steps) + Len(rest) /\ Len(steps) \in Nat
      /\ \A i \in 1 .. Len(todo') : todo'[i] = IF i <= Len(steps) THEN steps[i] ELSE rest[i - Len(steps)]
  <2> DEFINE u == steps \o rest
  <2>1. /\ Len(u) = Len(steps) + Len(rest)
        /\ \A i \in 1 .. Len(steps) + Len(rest) : u[i] = IF i <= Len(steps) THEN steps[i] ELSE rest[i - Len(steps)]
    BY <1>1, ConcatProperties
  <2>2. todo' = u /\ Len(steps) \in Nat
    BY <1>2
  <2> HIDE DEF u
  <2> QED  BY <2>1, <2>2
<1>7. Cur' = Nth(steps, 1, After)
  BY <1>1, <1>3, <1>6 DEF Cur, Nth
<1>8. Len(steps) >= 1 => After' = Nth(steps, 2, After)
  <2> SUFFICES ASSUME Len(steps) >= 1  PROVE Nth(todo', 2, Done) = Nth(steps, 2, After)
    BY DEF After
  <2> QED  BY <1>1, <1>3, <1>6 DEF Nth
<1>9. ASSUME NEW s \in Left'  PROVE s \in Left \/ \E i \in 1 .. Len(steps) : s = steps[i]
  <2>1. PICK i \in 1 .. Len(todo') : s = todo'[i]
    BY DEF Left
  <2>2. CASE i <= Len(steps)
    BY <1>6, <2>1, <2>2
  <2>3. CASE i > Len(steps)
    <3> DEFINE j == i - Len(steps)
    <3>1. j \in 1 .. Len(rest) /\ s = rest[j]
      BY <1>1, <1>6, <2>1, <2>3
    <3>2. s = todo[j + 1] /\ j + 1 \in 1 .. Len(todo)
      BY <1>1, <3>1, SMTT(30)
    <3> HIDE DEF j
    <3> QED  BY <3>2 DEF Left
  <2> QED  BY <1>6, <2>2, <2>3
<1>10. ASSUME NEW s \in Left, s # Cur  PROVE s \in Left'
  <2>1. PICK i \in 1 .. Len(todo) : s = todo[i]
    BY DEF Left
  <2>2. i # 1
    BY <1>1, <1>10, <2>1 DEF Cur, Nth
  <2> DEFINE k == Len(steps) + (i - 1)
  <2>3. k \in 1 .. Len(todo') /\ k > Len(steps) /\ k - Len(steps) = i - 1 /\ i - 1 \in 1 .. Len(rest)
    BY <1>1, <1>6, <2>1, <2>2
  <2>4. s = todo'[k]
    <3>1. todo'[k] = rest[k - Len(steps)]
      BY <1>6, <2>3
    <3>2. rest[i - 1] = todo[(i - 1) + 1] /\ (i - 1) + 1 = i
      BY <1>1, <2>3
    <3> QED  BY <2>1, <2>3, <3>1, <3>2
  <2> HIDE DEF k
  <2> QED  BY <2>3, <2>4 DEF Left
<1> QED  BY <1>5, <1>7, <1>8, <1>9, <1>10 DEF Moved

LEMMA Joined ==
    ASSUME NEW s \in Steps, NEW t \in Steps
    PROVE  <<s>> \o <<t>> = <<s, t>>
<1>1. <<s>> \in Seq(Steps) /\ <<t>> \in Seq(Steps) /\ <<s, t>> \in Seq(Steps)
  OBVIOUS
<1>2. /\ <<s>> \o <<t>> \in Seq(Steps) /\ Len(<<s>> \o <<t>>) = 2
      /\ \A i \in 1 .. 2 : (<<s>> \o <<t>>)[i] = <<s, t>>[i]
  BY <1>1, ConcatProperties
<1> QED  BY <1>1, <1>2, SeqEqual

LEMMA NoStep == Chained(<<>>, After) /\ <<>> \in Seq(Steps) /\ Len(<<>>) = 0
BY DEF Chained

LEMMA OneStep ==
    ASSUME NEW s \in Steps, NEW next, Follows(s, next)
    PROVE  <<s>> \in Seq(Steps) /\ Chained(<<s>>, next)
BY DEF Chained, Nth

LEMMA TwoSteps ==
    ASSUME NEW s \in Steps, NEW t \in Steps, NEW next, Follows(s, t), Follows(t, next)
    PROVE  <<s, t>> \in Seq(Steps) /\ Chained(<<s, t>>, next)
BY DEF Chained, Nth

LEMMA ThreeSteps ==
    ASSUME NEW s \in Steps, NEW t \in Steps, NEW u \in Steps, NEW next, Follows(s, t), Follows(t, u), Follows(u, next)
    PROVE  <<s, t, u>> \in Seq(Steps) /\ Chained(<<s, t, u>>, next)
BY DEF Chained, Nth

\* No step, one or two.
LEMMA MovedIs ==
    /\ Moved(<<>>) => Cur' = After /\ \A s \in Left' : s \in Left
    /\ \A s : Moved(<<s>>) => Cur' = s /\ After' = After /\ \A u \in Left' : u \in Left \/ u = s
    /\ \A s, t : Moved(<<s, t>>) => Cur' = s /\ After' = t /\ \A u \in Left' : u \in Left \/ u = s \/ u = t
    /\ \A s, t, u : Moved(<<s, t, u>>) => Cur' = s /\ After' = t
                                          /\ \A v \in Left' : v \in Left \/ v = s \/ v = t \/ v = u
BY DEF Moved, Nth
-----------------------------------------------------------------------------
(* The steps that each step leaves to do.                                  *)
LEMMA Made ==
    ASSUME NEW p \in Port
    PROVE  /\ \A op \in {"DataEnable", "DataDisable", "Drain", "StartDmxOutput", "TakeBuffer",
                         "StartSendStyleDirect", "Start"} : Step(op, p, "") \in Steps
           /\ \A enable \in BOOLEAN : Step("SetPortDirection", p, enable) \in Steps
           /\ Occurs("sync") => Step("Sync", p, "") \in Steps
           /\ Occurs("rdm") => Step("Stop", p, "") \in Steps /\ Step("RdmTransmit", p, "") \in Steps
           /\ Occurs("style") => Step("Halt", p, "") \in Steps /\ Step("Resume", p, "") \in Steps
           /\ \A style \in Styles : Occurs("style") \/ style = "kDelta" =>
                 Step("SetOutputStyle", p, style) \in Steps
           /\ \A v \in Frames : /\ Step("CopyHead", p, v) \in Steps /\ Step("CopyTail", p, v) \in Steps
                                /\ Occurs("fill") => Step("Fill", p, v) \in Steps /\ Step("Clear", p, v) \in Steps
BY DEF Steps, AllSteps, Step, Legal

\* The step the main loop is at.
At(op, p, arg) == Cur = Step(op, p, arg)

LEMMA NowIs ==
    ASSUME Types, NEW op, NEW p, Now(op, p)
    PROVE  /\ todo # <<>> /\ Cur.op = op /\ Cur.port = p /\ p \in Port /\ Cur \in Steps /\ Cur \in Left
           /\ At(op, p, Cur.arg) /\ Follows(Cur, After) /\ After \in AnyStep /\ (After # Done => After \in Left)
           /\ todo \in Seq(Steps) /\ Chained(todo, Done) /\ Head(todo) = Cur
           /\ (op = "SetPortDirection" => Cur.arg \in BOOLEAN) /\ (op = "SetOutputStyle" => Cur.arg \in Styles)
           /\ (op \in {"CopyHead", "CopyTail", "Fill", "Clear"} => Cur.arg \in Frames)
           /\ Legal(Cur)
<1>1. /\ todo # <<>> /\ todo \in Seq(Steps) /\ Chained(todo, Done)
      /\ Head(todo).op = op /\ Head(todo).port = p
  BY DEF Types, Variables, Now
<1>2. /\ Cur = Head(todo) /\ Cur \in Steps /\ Cur \in Left
      /\ After \in AnyStep /\ Follows(Cur, After) /\ (After # Done => After \in Left)
  BY <1>1, CurIs
<1> QED  BY <1>1, <1>2, StepFields DEF At

\* The end of a step.
LEMMA Ends ==
    ASSUME Types, NEW op, NEW p, Now(op, p), Then(<<>>)
    PROVE  Moved(<<>>)
BY NowIs, NoStep, ThenIs

\* A step that is replaced by one, after which the same may come.
LEMMA Goes ==
    ASSUME Types, NEW op, NEW p, Now(op, p), NEW s \in Steps, Follows(s, After), Then(<<s>>)
    PROVE  Moved(<<s>>)
BY NowIs, OneStep, ThenIs

LEMMA DirectionMoves ==
    ASSUME Types, NEW p, NEW enable, enable = Cur.arg, SetPortDirection(p, enable)
    PROVE  /\ enable \in BOOLEAN /\ p \in Port
           /\ enable = FALSE => Moved(<<Step("DataDisable", p, "")>>)
           /\ enable = TRUE /\ direction[p] # "kOutput" => Moved(<<Step("DataDisable", p, ""), Step("DataEnable", p, "")>>)
           /\ enable = TRUE /\ direction[p] = "kOutput" => Moved(<<Step("DataEnable", p, "")>>)
<1> DEFINE disable == Step("DataDisable", p, "")
           able    == Step("DataEnable", p, "")
<1>1. Now("SetPortDirection", p)
  BY DEF SetPortDirection
<1>2. /\ enable \in BOOLEAN /\ p \in Port /\ Follows(Cur, After) /\ Is(Cur, {"SetPortDirection"}, p)
      /\ todo \in Seq(Steps) /\ Chained(todo, Done) /\ todo # <<>>
  BY <1>1, NowIs DEF Is
<1>3. disable \in Steps /\ able \in Steps
  BY <1>2, Made
<1>4. ~enable => Follows(disable, After)
  BY <1>2 DEF Follows, Off, Is, Step, Waits, Parts
<1>5. enable => Follows(able, After) /\ Follows(disable, able)
  BY <1>2 DEF Follows, Off, Is, Step, Waits, Parts
<1>6. Then(If(direction[p] # "kOutput" \/ ~enable, <<disable>>) \o If(enable, <<able>>))
  BY DEF SetPortDirection
<1> HIDE DEF disable, able
<1>7. ASSUME ~enable  PROVE Moved(<<disable>>)
  <2>1. Then(<<disable>>)
    BY <1>3, <1>6, <1>7 DEF If
  <2> QED  BY <1>2, <1>3, <1>4, <1>7, <2>1, OneStep, ThenIs
<1>8. ASSUME enable, direction[p] # "kOutput"  PROVE Moved(<<disable, able>>)
  <2>1. <<disable>> \o <<able>> = <<disable, able>>
    BY <1>3, Joined
  <2>2. Then(<<disable, able>>)
    BY <1>3, <1>6, <1>8, <2>1 DEF If
  <2> QED  BY <1>2, <1>3, <1>5, <1>8, <2>2, TwoSteps, ThenIs
<1>9. ASSUME enable, direction[p] = "kOutput"  PROVE Moved(<<able>>)
  <2>1. Then(<<able>>)
    BY <1>3, <1>6, <1>9 DEF If
  <2> QED  BY <1>2, <1>3, <1>5, <1>9, <2>1, OneStep, ThenIs
<1> QED  BY <1>2, <1>7, <1>8, <1>9 DEF disable, able

\* A step that is part of nothing is followed by something new.
Single(s) == s.op \notin Parts /\ ~Off(s, s.port)

LEMMA Optional ==
    ASSUME Types, NEW op, NEW p, Now(op, p), After.op \in Begins,
           NEW s \in Steps, Single(s), NEW condition \in BOOLEAN, Then(If(condition, <<s>>))
    PROVE  IF condition THEN Moved(<<s>>) ELSE Moved(<<>>)
<1>1. Follows(s, After)
  BY DEF Follows, Single, Parts, Off, Is, Waits
<1>2. CASE condition
  BY <1>1, <1>2, Goes DEF If
<1>3. CASE ~condition
  BY <1>3, Ends DEF If
<1> QED  BY <1>2, <1>3

LEMMA NewAfter ==
    ASSUME Types, NEW op, NEW p, Now(op, p), op \notin Parts \/ op = "StartSendStyleDirect", ~Off(Cur, p)
    PROVE  After.op \in Begins
BY NowIs DEF Follows, Parts, Off, Is, Waits, Begins

LEMMA EnableMoves ==
    ASSUME Types, NEW p, DataEnable(p)
    PROVE  /\ p \in Port
           /\ IF direction[p] = "kOutput" THEN Moved(<<Step("SetOutputStyle", p, output_style[p])>>) ELSE Moved(<<>>)
<1>1. Now("DataEnable", p) /\ p \in Port /\ Cur.op = "DataEnable"
  BY NowIs DEF DataEnable
<1> DEFINE s == Step("SetOutputStyle", p, output_style[p])
<1>2. s \in Steps
  BY <1>1, Made DEF Types, Variables
<1>3. After.op \in Begins
  BY <1>1, NewAfter DEF Parts, Off, Is, Waits
<1>4. Single(s)
  BY DEF Single, Parts, Off, Is, Waits, Step
<1>5. Follows(s, After)
  BY <1>3, <1>4 DEF Follows, Single, Parts, Off, Is, Waits
<1>6. direction[p] = "kOutput" => Then(<<s>>)
  BY DEF DataEnable
<1>7. direction[p] # "kOutput" => Then(<<>>)
  BY DEF DataEnable
<1> HIDE DEF s
<1> QED  BY <1>1, <1>2, <1>5, <1>6, <1>7, Goes, Ends DEF s

LEMMA DisableMoves ==
    ASSUME Types, NEW p, DataDisable(p)
    PROVE  /\ p \in Port
           /\ IF port_state[p] # "kIdle" /\ direction[p] = "kOutput"
              THEN Moved(<<Step("Drain", p, "")>>) ELSE Moved(<<>>)
<1>1. Now("DataDisable", p) /\ p \in Port /\ Cur.op = "DataDisable" /\ Cur.port = p /\ Follows(Cur, After)
  BY NowIs DEF DataDisable
<1> DEFINE s == Step("Drain", p, "")
<1>2. s \in Steps
  BY <1>1, Made
<1>3. Follows(s, After)
  BY <1>1 DEF Follows, Parts, Off, Is, Waits, Step
<1>4. Then(If(port_state[p] # "kIdle" /\ direction[p] = "kOutput", <<s>>))
  BY DEF DataDisable
<1> HIDE DEF s
<1>5. CASE port_state[p] # "kIdle" /\ direction[p] = "kOutput"
  BY <1>1, <1>2, <1>3, <1>4, <1>5, Goes DEF If, s
<1>6. CASE ~(port_state[p] # "kIdle" /\ direction[p] = "kOutput")
  BY <1>1, <1>4, <1>6, Ends DEF If
<1> QED  BY <1>1, <1>5, <1>6

\* Those that end.
LEMMA LastMoves ==
    ASSUME Types, NEW p, NEW v,
           \/ Drain(p) \/ StartDmxOutput(p) \/ RdmTransmit(p) \/ TakeBuffer(p) \/ CopyHead(p, v) \/ CopyTail(p, v)
           \/ Clear(p, v)
    PROVE  Moved(<<>>)
BY Ends DEF Drain, StartDmxOutput, RdmTransmit, TakeBuffer, CopyHead, CopyTail, Clear

LEMMA HaltMoves ==
    ASSUME Types, NEW p, Halt(p)
    PROVE  p \in Port /\ IF IsContinuous(p) THEN Moved(<<Step("DataDisable", p, "")>>) ELSE Moved(<<>>)
<1>1. Now("Halt", p) /\ p \in Port /\ Cur.op = "Halt" /\ Cur.port = p /\ Follows(Cur, After)
  <2>1. Now("Halt", p)
    BY DEF Halt
  <2> QED  BY <2>1, NowIs
<1> DEFINE s == Step("DataDisable", p, "")
<1>2. s \in Steps
  BY <1>1, Made
<1>3. Follows(s, After)
  BY <1>1 DEF Follows, Parts, Off, Is, Waits, Step
<1>4. Then(If(IsContinuous(p), <<s>>))
  BY DEF Halt
<1> HIDE DEF s
<1>5. CASE IsContinuous(p)
  BY <1>1, <1>2, <1>3, <1>4, <1>5, Goes DEF If, s
<1>6. CASE ~IsContinuous(p)
  BY <1>1, <1>4, <1>6, Ends DEF If
<1> QED  BY <1>1, <1>5, <1>6

\* Those that start the output or the port, or not.
LEMMA StartMoves ==
    ASSUME Types, NEW p
    PROVE  LET start == Step("StartDmxOutput", p, "")
               able  == Step("SetPortDirection", p, TRUE)
           IN  /\ Resume(p) => p \in Port /\ IF IsContinuous(p) THEN Moved(<<start>>) ELSE Moved(<<>>)
               /\ StartSendStyleDirect(p) => p \in Port /\ IF MayStart(p) THEN Moved(<<start>>) ELSE Moved(<<>>)
               /\ Sync(p) => p \in Port /\ IF p \in data_pending /\ MayStart(p) THEN Moved(<<start>>) ELSE Moved(<<>>)
               /\ Start(p) => p \in Port /\ IF p \notin started THEN Moved(<<able>>) ELSE Moved(<<>>)
<1> DEFINE start == Step("StartDmxOutput", p, "")
           able  == Step("SetPortDirection", p, TRUE)
<1>1. Single(start) /\ Single(able)
  BY DEF Single, Parts, Off, Is, Waits, Step
<1>2. p \in Port => start \in Steps /\ able \in Steps
  BY Made
<1>3. ASSUME NEW op \in {"Resume", "StartSendStyleDirect", "Sync", "Start"}, Now(op, p)
      PROVE  p \in Port /\ After.op \in Begins
  BY <1>3, NowIs, NewAfter DEF Parts, Off, Is, Waits
<1> HIDE DEF start, able
<1>4. ASSUME NEW op \in {"Resume", "StartSendStyleDirect", "Sync", "Start"}, Now(op, p),
             NEW s \in {start, able}, NEW condition \in BOOLEAN, Then(If(condition, <<s>>))
      PROVE  p \in Port /\ IF condition THEN Moved(<<s>>) ELSE Moved(<<>>)
  BY <1>1, <1>2, <1>3, <1>4, Optional
<1>5. ASSUME Resume(p)  PROVE p \in Port /\ IF IsContinuous(p) THEN Moved(<<start>>) ELSE Moved(<<>>)
  <2> DEFINE condition == IsContinuous(p)
  <2>1. Now("Resume", p) /\ Then(If(condition, <<start>>))
    BY <1>5 DEF Resume, start
  <2>2. condition \in BOOLEAN
    BY DEF Resume, IsContinuous
  <2> HIDE DEF condition
  <2>3. p \in Port /\ IF condition THEN Moved(<<start>>) ELSE Moved(<<>>)
    BY <1>4, <2>1, <2>2
  <2> QED  BY <2>3 DEF condition
<1>6. ASSUME StartSendStyleDirect(p)  PROVE p \in Port /\ IF MayStart(p) THEN Moved(<<start>>) ELSE Moved(<<>>)
  <2> DEFINE condition == MayStart(p)
  <2>1. Now("StartSendStyleDirect", p) /\ Then(If(condition, <<start>>))
    BY <1>6 DEF StartSendStyleDirect, start
  <2>2. condition \in BOOLEAN
    BY DEF StartSendStyleDirect, MayStart
  <2> HIDE DEF condition
  <2>3. p \in Port /\ IF condition THEN Moved(<<start>>) ELSE Moved(<<>>)
    BY <1>4, <2>1, <2>2
  <2> QED  BY <2>3 DEF condition
<1>7. ASSUME Sync(p)  PROVE p \in Port /\ IF p \in data_pending /\ MayStart(p) THEN Moved(<<start>>) ELSE Moved(<<>>)
  <2> DEFINE condition == p \in data_pending /\ MayStart(p)
  <2>1. Now("Sync", p) /\ Then(If(condition, <<start>>))
    BY <1>7 DEF Sync, start
  <2>2. condition \in BOOLEAN
    BY DEF Sync, MayStart
  <2> HIDE DEF condition
  <2>3. p \in Port /\ IF condition THEN Moved(<<start>>) ELSE Moved(<<>>)
    BY <1>4, <2>1, <2>2
  <2> QED  BY <2>3 DEF condition
<1>8. ASSUME Start(p)  PROVE p \in Port /\ IF p \notin started THEN Moved(<<able>>) ELSE Moved(<<>>)
  <2> DEFINE condition == p \notin started
  <2>1. Now("Start", p) /\ Then(If(condition, <<able>>))
    BY <1>8 DEF Start, able
  <2>2. condition \in BOOLEAN
    BY DEF Start
  <2> HIDE DEF condition
  <2>3. p \in Port /\ IF condition THEN Moved(<<able>>) ELSE Moved(<<>>)
    BY <1>4, <2>1, <2>2
  <2> QED  BY <2>3 DEF condition
<1> QED  BY <1>5, <1>6, <1>7, <1>8 DEF start, able

LEMMA FillMoves ==
    ASSUME Types, NEW p, NEW v, v = Cur.arg, Fill(p, v)
    PROVE  /\ p \in Port /\ v \in Frames
           /\ IF direction[p] = "kOutput"
              THEN Moved(<<Step("DataDisable", p, ""), Step("Clear", p, v), Step("DataEnable", p, "")>>)
              ELSE Moved(<<>>)
<1> DEFINE disable == Step("DataDisable", p, "")
           clear   == Step("Clear", p, v)
           able    == Step("DataEnable", p, "")
<1>1. Now("Fill", p)
  BY DEF Fill
<1>2. /\ p \in Port /\ v \in Frames /\ todo \in Seq(Steps) /\ Chained(todo, Done) /\ todo # <<>>
      /\ Cur.op = "Fill" /\ Legal(Cur)
  BY <1>1, NowIs
<1>3. disable \in Steps /\ clear \in Steps /\ able \in Steps
  BY <1>2, Made DEF Legal
<1>4. After.op \in Begins
  BY <1>1, <1>2, NewAfter DEF Parts, Off, Is, Waits
<1>5. Follows(disable, clear) /\ Follows(clear, able) /\ Follows(able, After)
  BY <1>4 DEF Follows, Parts, Off, Is, Waits, Step
<1>6. Then(If(direction[p] = "kOutput", <<disable, clear, able>>))
  BY DEF Fill
<1> HIDE DEF disable, clear, able
<1>7. ASSUME direction[p] = "kOutput"  PROVE Moved(<<disable, clear, able>>)
  <2>1. Then(<<disable, clear, able>>)
    BY <1>6, <1>7 DEF If
  <2> QED  BY <1>2, <1>3, <1>5, <2>1, ThreeSteps, ThenIs
<1>8. ASSUME direction[p] # "kOutput"  PROVE Moved(<<>>)
  <2>1. Then(<<>>)
    BY <1>6, <1>8 DEF If
  <2> QED  BY <1>1, <2>1, Ends
<1> QED  BY <1>2, <1>7, <1>8 DEF disable, clear, able

LEMMA StopMoves ==
    ASSUME Types, NEW p, Stop(p)
    PROVE  p \in Port /\ IF p \in started THEN Moved(<<Step("SetPortDirection", p, FALSE)>>) ELSE Moved(<<>>)
<1> DEFINE s == Step("SetPortDirection", p, FALSE)
<1>1. Now("Stop", p)
  BY DEF Stop
<1>2. p \in Port /\ Cur.op = "Stop" /\ Cur.port = p /\ Follows(Cur, After)
  BY <1>1, NowIs
<1>3. s \in Steps
  BY <1>2, Made
<1>4. Follows(s, After)
  BY <1>2 DEF Follows, Parts, Off, Is, Waits, Step
<1>5. Then(If(p \in started, <<s>>))
  BY DEF Stop
<1> HIDE DEF s
<1>6. CASE p \in started
  BY <1>1, <1>2, <1>3, <1>4, <1>5, <1>6, Goes DEF If, s
<1>7. CASE p \notin started
  BY <1>1, <1>2, <1>5, <1>7, Ends DEF If
<1> QED  BY <1>6, <1>7

Loops == {"Halt", "Resume"}
Looping(steps) ==
    /\ steps \in Seq(Steps) /\ Len(steps) >= 1
    /\ \A i \in 1 .. Len(steps) : steps[i].op \in Loops

LEMMA StyleMoves ==
    ASSUME Types, NEW p, NEW style, style = Cur.arg, SetOutputStyle(p, style)
    PROVE  /\ p \in Port /\ style \in Styles /\ (~Occurs("style") => style = "kDelta")
           /\ style = "kDelta" => Moved(<<>>)
           /\ style # "kDelta" /\ has_continuous_output => \E steps : Moved(steps) /\ Looping(steps)
           /\ style # "kDelta" /\ ~has_continuous_output =>
                 IF direction[p] = "kOutput" THEN Moved(<<Step("StartDmxOutput", p, "")>>) ELSE Moved(<<>>)
<1>1. Now("SetOutputStyle", p)
  BY DEF SetOutputStyle
<1>2. /\ p \in Port /\ style \in Styles /\ Cur.op = "SetOutputStyle" /\ Legal(Cur)
      /\ todo \in Seq(Steps) /\ Chained(todo, Done) /\ todo # <<>>
      /\ After \in AnyStep /\ has_continuous_output \in BOOLEAN
  BY <1>1, NowIs DEF Types, Variables
<1>3. After.op \in Begins
  BY <1>1, <1>2, NewAfter DEF Parts, Off, Is, Waits
<1>4. ASSUME style = "kDelta"  PROVE Moved(<<>>)
  <2>1. Then(<<>>)
    BY <1>4 DEF SetOutputStyle
  <2> QED  BY <1>1, <2>1, Ends
<1>5. ASSUME style # "kDelta", ~has_continuous_output
      PROVE  IF direction[p] = "kOutput" THEN Moved(<<Step("StartDmxOutput", p, "")>>) ELSE Moved(<<>>)
  <2> DEFINE s == Step("StartDmxOutput", p, "")
             condition == direction[p] = "kOutput"
  <2>1. Then(If(condition, <<s>>))
    BY <1>5 DEF SetOutputStyle
  <2>2. s \in Steps /\ Single(s)
    BY <1>2, Made DEF Single, Parts, Off, Is, Waits, Step
  <2>3. condition \in BOOLEAN
    OBVIOUS
  <2> HIDE DEF s, condition
  <2>4. IF condition THEN Moved(<<s>>) ELSE Moved(<<>>)
    BY <1>1, <1>3, <2>1, <2>2, <2>3, Optional
  <2> QED  BY <2>4 DEF s, condition
<1>6. ASSUME style # "kDelta", has_continuous_output
      PROVE  \E steps : Moved(steps) /\ Looping(steps)
  <2> DEFINE halts   == FlattenSeq([i \in 1 .. NumPorts |-> <<Step("Halt", i - 1, "")>>])
             resumes == FlattenSeq([i \in 1 .. NumPorts |-> <<Step("Resume", i - 1, "")>>])
             T == {s \in Steps : s.op \in Loops}
             C == Programs(T, Loops) \ {<<>>}
  <2>1. Then(halts \o resumes)
    BY <1>6 DEF SetOutputStyle, ForEachPort
  <2>2. Occurs("style")
    BY <1>2, <1>6 DEF Legal
  <2>3. \A i \in 1 .. NumPorts : i - 1 \in Port
    BY Numbers DEF Port
  <2>4. \A i \in 1 .. NumPorts : Step("Halt", i - 1, "") \in T /\ Step("Resume", i - 1, "") \in T
    BY <2>2, <2>3, Made DEF Step, Loops
  <2>5. \A s \in T : s \in Steps /\ (s.op = "Halt" => \A next \in AnyStep : next.op \in Loops => Follows(s, next))
                     /\ (s.op = "Resume" => \A next \in AnyStep : next.op \in Begins => Follows(s, next))
    BY DEF Follows, Parts, Off, Is, Waits, Loops
  <2>6. halts \in C
    <3>1. \A s, t \in C : s \o t \in C
      <4> SUFFICES ASSUME NEW s \in C, NEW t \in C  PROVE s \o t \in C
        OBVIOUS
      <4>1. s \o t \in Programs(T, Loops)
        BY ProgramsConcat
      <4>2. s \in Seq(T) /\ t \in Seq(T) /\ s # <<>>
        BY DEF Programs
      <4>3. s \o t # <<>>
        BY <4>2, ConcatEqualIffEmpty
      <4> QED  BY <4>1, <4>3
    <3>2. \A i \in 1 .. NumPorts : <<Step("Halt", i - 1, "")>> \in C
      <4> SUFFICES ASSUME NEW i \in 1 .. NumPorts  PROVE <<Step("Halt", i - 1, "")>> \in C
        OBVIOUS
      <4> DEFINE s == Step("Halt", i - 1, "")
      <4>1. s \in T /\ s.op = "Halt"
        BY <2>4 DEF Step
      <4> HIDE DEF s
      <4>2. \A next \in AnyStep : next.op \in Loops => Chained(<<s>>, next)
        BY <2>5, <4>1, OneStep
      <4>3. <<s>> \in Seq(T) /\ <<s>> # <<>> /\ <<s>>[1].op \in Loops
        BY <4>1 DEF Loops
      <4>4. <<s>> \in C
        BY <4>2, <4>3 DEF Programs
      <4> QED  BY <4>4 DEF s
    <3> DEFINE seqs == [i \in 1 .. NumPorts |-> <<Step("Halt", i - 1, "")>>]
    <3> HIDE DEF C
    <3>3. seqs \in [1 .. NumPorts -> C]
      BY <3>2
    <3> HIDE DEF seqs
    <3>4. FlattenSeq(seqs) \in C
      BY <3>1, <3>3, Numbers, FlattenIs
    <3> QED  BY <3>4 DEF seqs
  <2>7. resumes \in Programs(T, Begins) \ {<<>>}
    <3> DEFINE E == Programs(T, Begins) \ {<<>>}
    <3>1. \A s, t \in E : s \o t \in E
      <4> SUFFICES ASSUME NEW s \in E, NEW t \in E  PROVE s \o t \in E
        OBVIOUS
      <4>1. s \o t \in Programs(T, Begins)
        BY ProgramsConcat
      <4>2. s \in Seq(T) /\ t \in Seq(T) /\ s # <<>>
        BY DEF Programs
      <4>3. s \o t # <<>>
        BY <4>2, ConcatEqualIffEmpty
      <4> QED  BY <4>1, <4>3
    <3>2. \A i \in 1 .. NumPorts : <<Step("Resume", i - 1, "")>> \in E
      <4> SUFFICES ASSUME NEW i \in 1 .. NumPorts  PROVE <<Step("Resume", i - 1, "")>> \in E
        OBVIOUS
      <4> DEFINE s == Step("Resume", i - 1, "")
      <4>1. s \in T /\ s.op = "Resume"
        BY <2>4 DEF Step
      <4> HIDE DEF s
      <4>2. \A next \in AnyStep : next.op \in Begins => Chained(<<s>>, next)
        BY <2>5, <4>1, OneStep
      <4>3. <<s>> \in Seq(T) /\ <<s>> # <<>> /\ <<s>>[1].op \in Begins
        BY <4>1 DEF Begins
      <4>4. <<s>> \in E
        BY <4>2, <4>3 DEF Programs
      <4> QED  BY <4>4 DEF s
    <3> DEFINE seqs == [i \in 1 .. NumPorts |-> <<Step("Resume", i - 1, "")>>]
    <3> HIDE DEF E
    <3>3. seqs \in [1 .. NumPorts -> E]
      BY <3>2
    <3> HIDE DEF seqs
    <3>4. FlattenSeq(seqs) \in E
      BY <3>1, <3>3, Numbers, FlattenIs
    <3> QED  BY <3>4 DEF seqs, E
  <2> HIDE DEF halts, resumes
  <2>8. /\ halts \in Seq(T) /\ halts # <<>> /\ resumes \in Seq(T) /\ resumes # <<>>
        /\ \A next \in AnyStep : next.op \in Loops => Chained(halts, next)
        /\ Chained(resumes, After)
    BY <1>2, <1>3, <2>6, <2>7 DEF Programs
  <2>9. /\ halts \in Seq(Steps) /\ resumes \in Seq(Steps) /\ Len(halts) \in Nat /\ Len(halts) >= 1 /\ Len(resumes) \in Nat
        /\ Nth(resumes, 1, After) \in AnyStep /\ Nth(resumes, 1, After).op \in Loops
    BY <2>8 DEF Nth, AnyStep
  <2>10. Chained(halts \o resumes, After)
    BY <2>8, <2>9, ChainedConcat
  <2> DEFINE steps == halts \o resumes
  <2>11. steps \in Seq(T) /\ steps \in Seq(Steps) /\ Len(steps) >= 1
    BY <2>8, <2>9, ConcatProperties
  <2> HIDE DEF steps
  <2>12. Looping(steps)
    BY <2>11 DEF Looping
  <2>13. Moved(steps)
    BY <1>2, <2>1, <2>10, <2>11, ThenIs DEF steps
  <2> QED  BY <2>12, <2>13
<1>7. ~Occurs("style") => style = "kDelta"
  BY <1>2 DEF Legal
<1> QED  BY <1>2, <1>4, <1>5, <1>6, <1>7
-----------------------------------------------------------------------------
(* The calls.                                                              *)
LEMMA ScenarioFields ==
    ASSUME scenario \in Scenarios
    PROVE  scenario.ports \subseteq Port /\ scenario.values \subseteq Value /\ scenario.values \subseteq Frames
BY OutputAssumption DEF Frames

\* Sequences of one step and of more.
LEMMA Programmed ==
    ASSUME NEW T, T \subseteq Steps
    PROVE  /\ <<>> \in Programs(T, Begins)
           /\ \A s \in T : s.op \in Begins /\ Single(s) => <<s>> \in Programs(T, Begins)
           /\ \A s, t, u \in T : s.op \in Begins /\ Follows(s, t) /\ Follows(t, u) /\ Single(u) =>
                 <<s, t, u>> \in Programs(T, Begins)
           /\ \A s, t \in T : s.op \in Begins /\ Follows(s, t) /\ Single(t) => <<s, t>> \in Programs(T, Begins)
<1>1. \A s \in Steps, next \in AnyStep : Single(s) /\ next.op \in Begins => Follows(s, next)
  BY DEF Follows, Single, Parts, Off, Is, Waits
<1>2. <<>> \in Programs(T, Begins)
  BY DEF Programs, Chained
<1>3. ASSUME NEW s \in T, s.op \in Begins, Single(s)  PROVE <<s>> \in Programs(T, Begins)
  <2>1. \A next \in AnyStep : next.op \in Begins => Chained(<<s>>, next)
    BY <1>1, <1>3, OneStep
  <2>2. <<s>> \in Seq(T) /\ <<s>>[1] = s
    OBVIOUS
  <2> QED  BY <1>3, <2>1, <2>2 DEF Programs
<1>4. ASSUME NEW s \in T, NEW t \in T, NEW u \in T, s.op \in Begins, Follows(s, t), Follows(t, u), Single(u)
      PROVE  <<s, t, u>> \in Programs(T, Begins)
  <2>1. \A next \in AnyStep : next.op \in Begins => Chained(<<s, t, u>>, next)
    BY <1>1, <1>4, ThreeSteps
  <2>2. <<s, t, u>> \in Seq(T) /\ <<s, t, u>>[1] = s
    OBVIOUS
  <2> QED  BY <1>4, <2>1, <2>2 DEF Programs
<1>5. ASSUME NEW s \in T, NEW t \in T, s.op \in Begins, Follows(s, t), Single(t)
      PROVE  <<s, t>> \in Programs(T, Begins)
  <2>1. \A next \in AnyStep : next.op \in Begins => Chained(<<s, t>>, next)
    BY <1>1, <1>5, TwoSteps
  <2>2. <<s, t>> \in Seq(T) /\ <<s, t>>[1] = s
    OBVIOUS
  <2> QED  BY <1>5, <2>1, <2>2 DEF Programs
<1> QED  BY <1>2, <1>3, <1>4, <1>5

\* One part for each port.
LEMMA ForEach ==
    ASSUME NEW T, T \subseteq Steps, NEW seqs, \A p \in Port : seqs[p] \in Programs(T, Begins)
    PROVE  FlattenSeq([i \in 1 .. NumPorts |-> seqs[i - 1]]) \in Programs(T, Begins)
<1>1. \A i \in 1 .. NumPorts : i - 1 \in Port
  BY Numbers DEF Port
<1> DEFINE C == Programs(T, Begins)
           each == [i \in 1 .. NumPorts |-> seqs[i - 1]]
<1>2. \A s, t \in C : s \o t \in C
  BY ProgramsConcat
<1> HIDE DEF C
<1>3. each \in [1 .. NumPorts -> C]
  BY <1>1 DEF C
<1> HIDE DEF each
<1>4. FlattenSeq(each) \in C
  BY <1>2, <1>3, Numbers, FlattenIs
<1> QED  BY <1>4 DEF C, each

\* A call that begins.
Called ==
    /\ todo = <<>> /\ todo' \in Seq(Steps) /\ Chained(todo', Done)
    /\ UNCHANGED <<ports, styles, sending, buffers, started, scenario>>
    /\ Cur'.op \in Begins \cup {"Stop", "SetOutputStyle"}
    /\ \A s \in Left' : s.op = "Sync" \/ Free(s.port)

Freed == {s \in Steps : s.op = "Sync" \/ Free(s.port)}

LEMMA CalledIs ==
    ASSUME NEW program \in Programs(Freed, Begins), Call(program)
    PROVE  Called
<1>1. program \in Seq(Freed) /\ program \in Seq(Steps) /\ Len(program) \in Nat
      /\ (program # <<>> => program[1].op \in Begins)
  BY DEF Programs, Freed
<1>2. Done \in AnyStep /\ Done.op \in Begins
  BY DEF Done, AnyStep, Step, Begins
<1>3. Chained(program, Done)
  BY <1>2 DEF Programs
<1>4. todo' = program /\ todo = <<>> /\ UNCHANGED <<ports, styles, sending, buffers, started, scenario>>
  BY DEF Call
<1>5. Cur'.op \in Begins
  BY <1>1, <1>2, <1>4 DEF Cur, Nth
<1>6. \A s \in Left' : s \in Freed
  BY <1>1, <1>4 DEF Left
<1> QED  BY <1>1, <1>3, <1>4, <1>5, <1>6 DEF Called, Freed

LEMMA SetDataIs ==
    ASSUME NEW p \in Port, Free(p), NEW v \in Frames
    PROVE  SetData(p, v) \in Programs(Freed, Begins)
<1> DEFINE s == Step("TakeBuffer", p, "")
           t == Step("CopyHead", p, v)
           u == Step("CopyTail", p, v)
<1>1. s \in Freed /\ t \in Freed /\ u \in Freed
  BY Made DEF Freed, Step
<1>2. s.op \in Begins /\ Follows(s, t) /\ Follows(t, u) /\ Single(u)
  BY DEF Follows, Single, Parts, Off, Is, Waits, Step, Begins
<1> HIDE DEF s, t, u
<1>3. <<s, t, u>> \in Programs(Freed, Begins)
  BY <1>1, <1>2, Programmed DEF Freed
<1> QED  BY <1>3 DEF SetData, s, t, u

LEMMA DmxCalled ==
    ASSUME Types, NEW p \in scenario.ports, NEW v \in scenario.values, HandleDmx(p, v)
    PROVE  Called
<1> DEFINE s == Step("StartSendStyleDirect", p, "")
           t == Step("Start", p, "")
<1>1. p \in Port /\ v \in Frames /\ Free(p)
  BY ScenarioFields DEF Types, Variables, HandleDmx
<1>2. s \in Freed /\ t \in Freed
  BY <1>1, Made DEF Freed, Step
<1>3. s.op \in Begins /\ Follows(s, t) /\ Single(t)
  BY DEF Follows, Single, Parts, Off, Is, Waits, Step, Begins
<1>4. <<s, t>> \in Programs(Freed, Begins)
  <2> HIDE DEF s, t
  <2> QED  BY <1>2, <1>3, Programmed DEF Freed
<1>5. SetData(p, v) \o <<s, t>> \in Programs(Freed, Begins)
  <2> HIDE DEF s, t
  <2> QED  BY <1>1, <1>4, SetDataIs, ProgramsConcat DEF Freed
<1>6. Call(SetData(p, v) \o <<s, t>>)
  BY DEF HandleDmx
<1> QED  BY <1>5, <1>6, CalledIs

LEMMA SyncCalled ==
    ASSUME Types, NEW some \in SUBSET scenario.ports, NEW v \in scenario.values, HandleSync(some, v)
    PROVE  Called
<1>1. some \subseteq Port /\ v \in Frames /\ (\A p \in some : Free(p)) /\ Occurs("sync") /\ Freed \subseteq Steps
  BY ScenarioFields DEF Types, Variables, HandleSync, Freed
<1>2. \A i \in 1 .. NumPorts : i - 1 \in Port
  BY Numbers DEF Port
<1> DEFINE D == [p \in Port |-> If(p \in some, SetData(p, v))]
           S == [p \in Port |-> <<Step("Sync", p, "")>>]
           T == [p \in Port |-> If(p \in some, <<Step("Start", p, "")>>)]
           P == Programs(Freed, Begins)
<1>3. ASSUME NEW p \in Port  PROVE D[p] \in P /\ S[p] \in P /\ T[p] \in P
  <2>1. D[p] \in P
    BY <1>1, Programmed, SetDataIs DEF If
  <2>2. Step("Sync", p, "") \in Freed /\ Single(Step("Sync", p, "")) /\ Step("Sync", p, "").op \in Begins
    BY <1>1, Made DEF Freed, Step, Single, Parts, Off, Is, Waits, Begins
  <2>3. S[p] \in P
    BY <1>1, <2>2, Programmed
  <2>4. p \in some => Step("Start", p, "") \in Freed /\ Single(Step("Start", p, "")) /\ Step("Start", p, "").op \in Begins
    BY <1>1, Made DEF Freed, Step, Single, Parts, Off, Is, Waits, Begins
  <2>5. T[p] \in P
    BY <1>1, <2>4, Programmed DEF If
  <2> QED  BY <2>1, <2>3, <2>5
<1> DEFINE d == FlattenSeq([i \in 1 .. NumPorts |-> D[i - 1]])
           s == FlattenSeq([i \in 1 .. NumPorts |-> S[i - 1]])
           t == FlattenSeq([i \in 1 .. NumPorts |-> T[i - 1]])
<1>4. d \in P /\ s \in P /\ t \in P
  <2> HIDE DEF D, S, T
  <2> QED  BY <1>1, <1>3, ForEach
<1>5. d \o s \o t \in P
  <2> HIDE DEF d, s, t
  <2>1. d \o s \in P
    BY <1>1, <1>4, ProgramsConcat
  <2> QED  BY <1>1, <1>4, <2>1, ProgramsConcat
<1>6. /\ ForEachPort(LAMBDA p : If(p \in some, SetData(p, v))) = d
      /\ ForEachPort(LAMBDA p : <<Step("Sync", p, "")>>) = s
      /\ ForEachPort(LAMBDA p : If(p \in some, <<Step("Start", p, "")>>)) = t
  <2>1. /\ [i \in 1 .. NumPorts |-> If(i - 1 \in some, SetData(i - 1, v))] = [i \in 1 .. NumPorts |-> D[i - 1]]
        /\ [i \in 1 .. NumPorts |-> <<Step("Sync", i - 1, "")>>] = [i \in 1 .. NumPorts |-> S[i - 1]]
        /\ [i \in 1 .. NumPorts |-> If(i - 1 \in some, <<Step("Start", i - 1, "")>>)]
             = [i \in 1 .. NumPorts |-> T[i - 1]]
    BY <1>2
  <2> HIDE DEF D, S, T
  <2> QED  BY <2>1 DEF ForEachPort
<1> HIDE DEF d, s, t
<1>7. Call(d \o s \o t)
  BY <1>6 DEF HandleSync
<1> QED  BY <1>5, <1>7, CalledIs

LEMMA RdmCalled ==
    ASSUME Types, NEW p \in scenario.ports, HandleRdm(p)
    PROVE  Called
<1> DEFINE s == Step("Stop", p, "")
           t == Step("SetPortDirection", p, FALSE)
           u == Step("RdmTransmit", p, "")
<1>1. p \in Port /\ Free(p) /\ Occurs("rdm")
  BY ScenarioFields DEF Types, Variables, HandleRdm
<1>2. s \in Freed /\ t \in Freed /\ u \in Freed
  BY <1>1, Made DEF Freed, Step
<1>3. Follows(s, t) /\ Follows(t, u) /\ Follows(u, Done) /\ s.op = "Stop"
  BY DEF Follows, Parts, Off, Is, Waits, Step, Done
<1>4. todo = <<>> /\ todo' = <<s, t, u>> /\ UNCHANGED <<ports, styles, sending, buffers, started, scenario>>
  BY DEF HandleRdm, Call
<1> HIDE DEF s, t, u
<1>5. <<s, t, u>> \in Seq(Steps) /\ Chained(<<s, t, u>>, Done)
  BY <1>2, <1>3, ThreeSteps DEF Freed
<1>6. Cur' = s /\ \A x \in Left' : x = s \/ x = t \/ x = u
  BY <1>4 DEF Cur, Left, Nth
<1> QED  BY <1>2, <1>3, <1>4, <1>5, <1>6 DEF Called, Freed

LEMMA StyleCalled ==
    ASSUME Types, NEW p \in scenario.ports, NEW style \in Styles, HandleStyle(p, style)
    PROVE  Called
<1> DEFINE s == Step("SetOutputStyle", p, style)
<1>1. p \in Port /\ Free(p) /\ Occurs("style")
  BY ScenarioFields DEF Types, Variables, HandleStyle
<1>2. s \in Freed
  BY <1>1, Made DEF Freed, Step
<1>3. Follows(s, Done) /\ s.op = "SetOutputStyle"
  BY DEF Follows, Parts, Off, Is, Waits, Step, Done, Begins
<1>4. todo = <<>> /\ todo' = <<s>> /\ UNCHANGED <<ports, styles, sending, buffers, started, scenario>>
  BY DEF HandleStyle, Call
<1> HIDE DEF s
<1>5. <<s>> \in Seq(Steps) /\ Chained(<<s>>, Done)
  BY <1>2, <1>3, OneStep DEF Freed
<1>6. Cur' = s /\ \A x \in Left' : x = s
  BY <1>4 DEF Cur, Left, Nth
<1> QED  BY <1>2, <1>3, <1>4, <1>5, <1>6 DEF Called, Freed

LEMMA FillCalled ==
    ASSUME Types, NEW v \in {Zero, FullOn}, HandleDataLoss(v)
    PROVE  Called
<1>1. v \in Frames /\ (\A p \in Port : Free(p)) /\ Occurs("fill") /\ Freed \subseteq Steps
  BY DEF HandleDataLoss, Frames, Freed
<1>2. \A i \in 1 .. NumPorts : i - 1 \in Port
  BY Numbers DEF Port
<1> DEFINE F == [p \in Port |-> <<Step("Fill", p, v)>>]
           P == Programs(Freed, Begins)
           f == FlattenSeq([i \in 1 .. NumPorts |-> F[i - 1]])
<1>3. ASSUME NEW p \in Port  PROVE F[p] \in P
  <2>1. Step("Fill", p, v) \in Freed /\ Single(Step("Fill", p, v)) /\ Step("Fill", p, v).op \in Begins
    BY <1>1, Made DEF Freed, Step, Single, Parts, Off, Is, Waits, Begins
  <2> QED  BY <1>1, <2>1, Programmed
<1>4. f \in P
  <2> HIDE DEF F
  <2> QED  BY <1>1, <1>3, ForEach
<1>5. ForEachPort(LAMBDA p : <<Step("Fill", p, v)>>) = f
  <2>1. [i \in 1 .. NumPorts |-> <<Step("Fill", i - 1, v)>>] = [i \in 1 .. NumPorts |-> F[i - 1]]
    BY <1>2
  <2> HIDE DEF F
  <2> QED  BY <2>1 DEF ForEachPort
<1> HIDE DEF f
<1>6. Call(f)
  BY <1>5 DEF HandleDataLoss
<1> QED  BY <1>4, <1>6, CalledIs

LEMMA CallsIs == ASSUME Types, Calls  PROVE Called
BY DmxCalled, SyncCalled, RdmCalled, StyleCalled, FillCalled DEF Calls, Styles
-----------------------------------------------------------------------------
(* Types.                                                                  *)
Main(p, arg) ==
    \/ SetPortDirection(p, arg) \/ DataEnable(p) \/ DataDisable(p) \/ Drain(p)
    \/ StartDmxOutput(p) \/ RdmTransmit(p)
    \/ SetOutputStyle(p, arg) \/ Halt(p) \/ Resume(p)
    \/ TakeBuffer(p) \/ CopyHead(p, arg) \/ CopyTail(p, arg)
    \/ StartSendStyleDirect(p) \/ Sync(p)
    \/ Fill(p, arg) \/ Clear(p, arg)
    \/ Start(p) \/ Stop(p)

LEMMA MainIs ==
    ASSUME Types, MainStep
    PROVE  \E p \in Port, arg \in {Cur.arg} : p = Cur.port /\ arg = Cur.arg /\ Main(p, arg) /\ scenario' = scenario
<1>1. Cur = Head(todo) /\ Cur \in Steps
  BY CurIs DEF Types, MainStep
<1>2. Cur.port \in Port
  BY <1>1, StepFields
<1>3. Main(Cur.port, Cur.arg) /\ scenario' = scenario
  BY <1>1 DEF MainStep, Main
<1> QED  BY <1>2, <1>3

\* Whatever the main loop does is done by a call that moves on.
LEMMA MainMoves ==
    ASSUME Types, NEW p, NEW arg, arg = Cur.arg, Main(p, arg)
    PROVE  todo' \in Seq(Steps) /\ Chained(todo', Done) /\ \A s \in Left : s = Cur \/ s \in Left'
<1>1. CASE SetPortDirection(p, arg)
  BY <1>1, DirectionMoves DEF Moved
<1>2. CASE DataEnable(p)
  BY <1>2, EnableMoves DEF Moved
<1>3. CASE DataDisable(p)
  BY <1>3, DisableMoves DEF Moved
<1>4. CASE SetOutputStyle(p, arg)
  BY <1>4, StyleMoves DEF Moved
<1>5. CASE Halt(p)
  BY <1>5, HaltMoves DEF Moved
<1>6. CASE Resume(p) \/ StartSendStyleDirect(p) \/ Sync(p) \/ Start(p)
  BY <1>6, StartMoves DEF Moved
<1>7. CASE Fill(p, arg)
  BY <1>7, FillMoves DEF Moved
<1>8. CASE Stop(p)
  BY <1>8, StopMoves DEF Moved
<1>9. CASE \/ Drain(p) \/ StartDmxOutput(p) \/ RdmTransmit(p) \/ TakeBuffer(p) \/ CopyHead(p, arg)
           \/ CopyTail(p, arg) \/ Clear(p, arg)
  BY <1>9, LastMoves DEF Moved
<1> QED  BY <1>1, <1>2, <1>3, <1>4, <1>5, <1>6, <1>7, <1>8, <1>9 DEF Main

LEMMA QuietIs == Quiet \in Wire /\ [Quiet EXCEPT !.kind = "rdm"] \in Wire
BY DEF Quiet, Wire, Frames

\* What each interrupt of an RDM request may change.
LEMMA RdmTimerIs ==
    ASSUME NEW p, RdmTimer(p), rdm[p] \in {"kIdle", "kBreak", "kMab", "kDirection"}
    PROVE  /\ timer' = timer \/ timer' = timer \ {p}
           /\ rdm' = rdm \/ rdm' = [rdm EXCEPT ![p] = "kMab"] \/ rdm' = [rdm EXCEPT ![p] = "kIdle"]
           /\ wire' = wire \/ wire' = [wire EXCEPT ![p] = [Quiet EXCEPT !.kind = "rdm"]]
           /\ \/ UNCHANGED ports
              \/ /\ direction' = [direction EXCEPT ![p] = "kInput"]
                 /\ port_state' = [port_state EXCEPT ![p] = "kRx"]
           /\ UNCHANGED <<state, buffers>>
<1>1. CASE rdm[p] = "kIdle"
  <2>1. timer' = timer \ {p} /\ UNCHANGED <<rdm, wire, ports>>
    BY <1>1 DEF RdmTimer
  <2> QED  BY <2>1 DEF RdmTimer
<1>2. CASE rdm[p] = "kBreak"
  <2>1. rdm' = [rdm EXCEPT ![p] = "kMab"] /\ UNCHANGED <<timer, wire, ports>>
    BY <1>2 DEF RdmTimer
  <2> QED  BY <2>1 DEF RdmTimer
<1>3. CASE rdm[p] = "kMab"
  <2>1. /\ timer' = timer \ {p} /\ wire' = [wire EXCEPT ![p] = [Quiet EXCEPT !.kind = "rdm"]]
        /\ UNCHANGED <<rdm, ports>>
    BY <1>3 DEF RdmTimer
  <2> QED  BY <2>1 DEF RdmTimer
<1>4. CASE rdm[p] = "kDirection"
  <2>1. /\ timer' = timer \ {p} /\ rdm' = [rdm EXCEPT ![p] = "kIdle"]
        /\ direction' = [direction EXCEPT ![p] = "kInput"] /\ port_state' = [port_state EXCEPT ![p] = "kRx"]
        /\ UNCHANGED wire
    BY <1>4 DEF RdmTimer
  <2> QED  BY <2>1 DEF RdmTimer
<1> QED  BY <1>1, <1>2, <1>3, <1>4

\* And each of the output.
LEMMA DmxTimerIs ==
    ASSUME NEW p, DmxTimer(p), state[p] \in {"kIdle", "kDmxInter", "kDmxBreak", "kDmxMab"}
    PROVE  /\ state' = state \/ state' = [state EXCEPT ![p] = "kDmxBreak"] \/ state' = [state EXCEPT ![p] = "kDmxMab"]
           /\ timer' = timer \/ timer' = timer \ {p}
           /\ UNCHANGED <<wire, buffers>> \/ DmaStart(p)
           /\ UNCHANGED <<rdm, ports>>
<1>1. CASE state[p] = "kDmxInter"
  <2>1. state' = [state EXCEPT ![p] = "kDmxBreak"] /\ UNCHANGED <<timer, wire, buffers>>
    BY <1>1 DEF DmxTimer
  <2> QED  BY <2>1 DEF DmxTimer
<1>2. CASE state[p] = "kDmxBreak"
  <2>1. state' = [state EXCEPT ![p] = "kDmxMab"] /\ UNCHANGED <<timer, wire, buffers>>
    BY <1>2 DEF DmxTimer
  <2> QED  BY <2>1 DEF DmxTimer
<1>3. CASE state[p] = "kDmxMab"
  <2>1. timer' = timer \ {p} /\ DmaStart(p) /\ UNCHANGED state
    BY <1>3 DEF DmxTimer
  <2> QED  BY <2>1 DEF DmxTimer
<1> QED  BY <1>1, <1>2, <1>3 DEF DmxTimer

LEMMA TypesKept ==
    ASSUME Types, [Next]_vars
    PROVE  Types' /\ Steps' = Steps /\ scenario' = scenario
<1> USE QuietIs
<1>1. CASE Calls
  <2>1. Called
    BY <1>1, CallsIs
  <2>2. Variables' /\ Steps' = Steps /\ scenario' = scenario
    BY <2>1 DEF Called, Types, Variables, Steps, Legal, Occurs, ports, styles, sending, buffers
  <2> QED  BY <2>1, <2>2 DEF Called, Types
<1>2. CASE MainStep
  <2>1. PICK p \in Port, arg \in {Cur.arg} : p = Cur.port /\ arg = Cur.arg /\ Main(p, arg) /\ scenario' = scenario
    BY <1>2, MainIs
  <2>2. todo' \in Seq(Steps) /\ Chained(todo', Done)
    BY <2>1, MainMoves
  <2>3. Steps' = Steps /\ scenario' = scenario
    BY <2>1 DEF Steps, Legal, Occurs
  <2>4. Variables /\ Occurs("style") \in BOOLEAN
    BY DEF Types, Occurs
  <2> USE DEF ports, styles, sending, buffers
  <2>5. ASSUME SetPortDirection(p, arg)  PROVE Variables'
    BY <2>1, <2>4, <2>5 DEF Variables, SetPortDirection, Occurs
  <2>6. ASSUME DataEnable(p)  PROVE Variables'
    <3>1. /\ port_state' \in [Port -> {"kIdle", "kTx", "kRx"}]
          /\ state' \in [Port -> {"kIdle", "kDmxInter", "kDmxBreak", "kDmxMab"}]
      <4>1. port_state' = [port_state EXCEPT ![p] = IF direction[p] = "kOutput" THEN "kTx" ELSE "kRx"]
        BY <2>6, Zenon DEF DataEnable
      <4>2. state' = [state EXCEPT ![p] = "kIdle"] \/ state' = state
        BY <2>6, Zenon DEF DataEnable
      <4> QED  BY <2>1, <2>4, <4>1, <4>2 DEF Variables
    <3>2. UNCHANGED <<direction, styles, rdm, timer, wire, buffers, started>>
      BY <2>6 DEF DataEnable
    <3> QED  BY <2>1, <2>4, <3>1, <3>2 DEF Variables, Occurs
  <2>7. ASSUME DataDisable(p)  PROVE Variables'
    BY <2>1, <2>4, <2>7 DEF Variables, DataDisable, Occurs
  <2>8. ASSUME Drain(p)  PROVE Variables'
    BY <2>1, <2>4, <2>8 DEF Variables, Drain, Occurs
  <2>9. ASSUME StartDmxOutput(p)  PROVE Variables'
    BY <2>1, <2>4, <2>9 DEF Variables, StartDmxOutput, Occurs
  <2>10. ASSUME RdmTransmit(p)  PROVE Variables'
    BY <2>1, <2>4, <2>10 DEF Variables, RdmTransmit, Occurs
  <2>11. ASSUME SetOutputStyle(p, arg)  PROVE Variables'
    <3>1. arg \in Styles /\ (~Occurs("style") => arg = "kDelta")
      <4>1. Now("SetOutputStyle", p)
        BY <2>11, Zenon DEF SetOutputStyle
      <4>2. Cur.op = "SetOutputStyle" /\ Cur.arg \in Styles /\ Legal(Cur)
        BY <4>1, NowIs
      <4> QED  BY <2>1, <4>2 DEF Legal
    <3>2. output_style' = [output_style EXCEPT ![p] = arg]
      BY <2>11 DEF SetOutputStyle
    <3>3. has_continuous_output' \in BOOLEAN
      BY <2>11, Zenon DEF SetOutputStyle
    <3>4. UNCHANGED <<ports, sending, buffers, started>>
      BY <2>11 DEF SetOutputStyle
    <3> QED  BY <2>1, <2>4, <3>1, <3>2, <3>3, <3>4 DEF Variables, Occurs
  <2>12. ASSUME Halt(p)  PROVE Variables'
    BY <2>1, <2>4, <2>12 DEF Variables, Halt, Occurs
  <2>13. ASSUME Resume(p)  PROVE Variables'
    BY <2>1, <2>4, <2>13 DEF Variables, Resume, Occurs
  <2>14. ASSUME TakeBuffer(p)  PROVE Variables'
    <3>1. 1 - read_index[p] \in {0, 1}
      BY <2>1, <2>4 DEF Variables
    <3>2. /\ write_index' = [write_index EXCEPT ![p] = 1 - read_index[p]]
          /\ data_pending' = data_pending \cup {p}
          /\ UNCHANGED <<ports, styles, sending, data, read_index, started>>
      BY <2>14 DEF TakeBuffer
    <3> QED  BY <2>1, <2>4, <3>1, <3>2 DEF Variables, Occurs
  <2>15. ASSUME CopyHead(p, arg)  PROVE Variables'
    <3>1. arg \in Frames
      <4>1. Now("CopyHead", p)
        BY <2>15 DEF CopyHead
      <4> QED  BY <2>1, <4>1, NowIs
    <3>2. data' = [data EXCEPT ![p][write_index[p]].head = arg]
      BY <2>15 DEF CopyHead
    <3>3. data' \in [Port -> [{0, 1} -> Frame]]
      <4>1. /\ data \in [Port -> [{0, 1} -> Frame]] /\ write_index[p] \in {0, 1}
        BY <2>1, <2>4 DEF Variables
      <4> QED  BY <2>1, <3>1, <3>2, <4>1, SMT DEF Frame
    <3>4. UNCHANGED <<ports, styles, sending, write_index, read_index, data_pending, started>>
      BY <2>15 DEF CopyHead
    <3> QED  BY <2>1, <2>4, <3>3, <3>4 DEF Variables, Occurs
  <2>16. ASSUME CopyTail(p, arg)  PROVE Variables'
    <3>1. arg \in Frames
      <4>1. Now("CopyTail", p)
        BY <2>16 DEF CopyTail
      <4> QED  BY <2>1, <4>1, NowIs
    <3>2. data' = [data EXCEPT ![p][write_index[p]].tail = arg]
      BY <2>16 DEF CopyTail
    <3>3. data' \in [Port -> [{0, 1} -> Frame]]
      <4>1. /\ data \in [Port -> [{0, 1} -> Frame]] /\ write_index[p] \in {0, 1}
        BY <2>1, <2>4 DEF Variables
      <4> QED  BY <2>1, <3>1, <3>2, <4>1, SMT DEF Frame
    <3>4. UNCHANGED <<ports, styles, sending, write_index, read_index, data_pending, started>>
      BY <2>16 DEF CopyTail
    <3> QED  BY <2>1, <2>4, <3>3, <3>4 DEF Variables, Occurs
  <2>17. ASSUME StartSendStyleDirect(p)  PROVE Variables'
    BY <2>1, <2>4, <2>17 DEF Variables, StartSendStyleDirect, Occurs
  <2>18. ASSUME Sync(p)  PROVE Variables'
    BY <2>1, <2>4, <2>18 DEF Variables, Sync, Occurs
  <2>19. ASSUME Fill(p, arg)  PROVE Variables'
    BY <2>1, <2>4, <2>19 DEF Variables, Fill, Occurs
  <2>20. ASSUME Clear(p, arg)  PROVE Variables'
    <3>1. arg \in Frames
      <4>1. Now("Clear", p)
        BY <2>20 DEF Clear
      <4> QED  BY <2>1, <4>1, NowIs
    <3>2. data' = [data EXCEPT ![p][0] = [head |-> arg, tail |-> arg]]
      BY <2>20 DEF Clear
    <3>3. data' \in [Port -> [{0, 1} -> Frame]]
      <4>1. /\ data \in [Port -> [{0, 1} -> Frame]] /\ write_index[p] \in {0, 1}
        BY <2>1, <2>4 DEF Variables
      <4> QED  BY <2>1, <3>1, <3>2, <4>1, SMT DEF Frame
    <3>4. UNCHANGED <<ports, styles, sending, write_index, read_index, data_pending, started>>
      BY <2>20 DEF Clear
    <3> QED  BY <2>1, <2>4, <3>3, <3>4 DEF Variables, Occurs
  <2>21. ASSUME Start(p)  PROVE Variables'
    BY <2>1, <2>4, <2>21 DEF Variables, Start, Occurs
  <2>22. ASSUME Stop(p)  PROVE Variables'
    BY <2>1, <2>4, <2>22 DEF Variables, Stop, Occurs
  <2> QED  BY <2>1, <2>2, <2>3, <2>5, <2>6, <2>7, <2>8, <2>9, <2>10, <2>11, <2>12, <2>13, <2>14, <2>15, <2>16, <2>17, <2>18, <2>19, <2>20, <2>21, <2>22 DEF Main, Types
<1>3. ASSUME NEW p \in Port, Interrupt(p)  PROVE Types' /\ Steps' = Steps /\ scenario' = scenario
  <2>1. todo' = todo /\ scenario' = scenario /\ Steps' = Steps /\ UNCHANGED <<styles, started>>
    BY <1>3 DEF Interrupt, Steps, Legal, Occurs
  <2>2. Variables
    BY DEF Types
  <2>3. ASSUME DmxTimer(p)  PROVE Variables'
    <3>1. state' \in [Port -> {"kIdle", "kDmxInter", "kDmxBreak", "kDmxMab"}] /\ timer' \subseteq Port
      <4>1. /\ state' = state \/ state' = [state EXCEPT ![p] = "kDmxBreak"] \/ state' = [state EXCEPT ![p] = "kDmxMab"]
            /\ timer' = timer \/ timer' = timer \ {p}
        BY <2>2, <2>3, DmxTimerIs DEF Variables
      <4> QED  BY <2>2, <4>1 DEF Variables
    <3>2. wire' \in [Port -> Wire] /\ read_index' \in [Port -> {0, 1}]
          /\ UNCHANGED <<data, write_index, data_pending>>
      <4>1. ASSUME DmaStart(p)  PROVE  wire' \in [Port -> Wire] /\ read_index' \in [Port -> {0, 1}] /\ UNCHANGED <<data, write_index, data_pending>>
        <5> DEFINE index == write_index[p]
                   w == [kind |-> "dmx", index |-> index, head |-> data[p][index].head,
                         copying |-> Now("CopyHead", p) \/ Now("CopyTail", p)]
        <5>1. index \in {0, 1} /\ data[p][index] \in Frame
          BY <2>2 DEF Variables
        <5>2. w \in Wire
          <6>1. (Now("CopyHead", p) \/ Now("CopyTail", p)) \in BOOLEAN
            BY Zenon DEF Now
          <6> QED  BY <5>1, <6>1 DEF Wire, Frame
        <5>3. wire' = [wire EXCEPT ![p] = w] /\ read_index' = [read_index EXCEPT ![p] = index]
              /\ UNCHANGED <<data, write_index, data_pending>>
          BY <4>1 DEF DmaStart
        <5> HIDE DEF w
        <5> QED  BY <2>2, <5>1, <5>2, <5>3 DEF Variables
      <4>2. DmaStart(p) \/ UNCHANGED <<wire, buffers>>
        BY <2>2, <2>3, DmxTimerIs DEF Variables
      <4>3. ASSUME UNCHANGED <<wire, buffers>>
            PROVE  wire' \in [Port -> Wire] /\ read_index' \in [Port -> {0, 1}] /\ UNCHANGED <<data, write_index, data_pending>>
        BY <2>2, <4>3 DEF Variables, buffers
      <4> QED  BY <4>1, <4>2, <4>3
    <3>3. UNCHANGED <<rdm, ports>>
      BY <2>3 DEF DmxTimer
    <3> QED  BY <2>1, <2>2, <3>1, <3>2, <3>3 DEF Variables, ports, styles, Occurs
  <2>4. ASSUME RdmTimer(p)  PROVE Variables'
    <3>1. /\ timer' = timer \/ timer' = timer \ {p}
          /\ rdm' = rdm \/ rdm' = [rdm EXCEPT ![p] = "kMab"] \/ rdm' = [rdm EXCEPT ![p] = "kIdle"]
          /\ wire' = wire \/ wire' = [wire EXCEPT ![p] = [Quiet EXCEPT !.kind = "rdm"]]
          /\ \/ UNCHANGED ports
             \/ /\ direction' = [direction EXCEPT ![p] = "kInput"]
                /\ port_state' = [port_state EXCEPT ![p] = "kRx"]
          /\ UNCHANGED <<state, buffers>>
      <4>1. rdm[p] \in {"kIdle", "kBreak", "kMab", "kDirection"}
        BY <2>2 DEF Variables
      <4> QED  BY <2>4, <4>1, RdmTimerIs
    <3>3. wire' \in [Port -> Wire]
      <4>1. wire \in [Port -> Wire]
        BY <2>2 DEF Variables
      <4> QED  BY <3>1, <4>1, QuietIs
    <3>4. timer' \subseteq Port /\ rdm' \in [Port -> {"kIdle", "kBreak", "kMab", "kDirection"}]
      <4>1. timer \subseteq Port /\ rdm \in [Port -> {"kIdle", "kBreak", "kMab", "kDirection"}]
        BY <2>2 DEF Variables
      <4> QED  BY <3>1, <4>1
    <3>5. direction' \in [Port -> {"kInput", "kOutput"}] /\ port_state' \in [Port -> {"kIdle", "kTx", "kRx"}]
      <4>1. direction \in [Port -> {"kInput", "kOutput"}] /\ port_state \in [Port -> {"kIdle", "kTx", "kRx"}]
        BY <2>2 DEF Variables
      <4>2. \/ UNCHANGED <<direction, port_state>>
            \/ /\ direction' = [direction EXCEPT ![p] = "kInput"]
               /\ port_state' = [port_state EXCEPT ![p] = "kRx"]
        BY <3>1 DEF ports
      <4> QED  BY <4>1, <4>2
    <3> QED  BY <2>1, <2>2, <3>1, <3>3, <3>4, <3>5 DEF Variables, styles, buffers, Occurs
  <2>5. ASSUME DmaEnd(p)  PROVE Variables'
    <3>1. /\ state' \in [Port -> {"kIdle", "kDmxInter", "kDmxBreak", "kDmxMab"}] /\ timer' \subseteq Port
          /\ rdm' \in [Port -> {"kIdle", "kBreak", "kMab", "kDirection"}]
      <4>1. state' = state \/ state' = [state EXCEPT ![p] = "kIdle"] \/ state' = [state EXCEPT ![p] = "kDmxInter"]
        BY <2>5 DEF DmaEnd
      <4>2. timer' = timer \/ timer' = timer \cup {p}
        BY <2>5 DEF DmaEnd
      <4>3. rdm' = rdm \/ rdm' = [rdm EXCEPT ![p] = "kDirection"]
        BY <2>5 DEF DmaEnd
      <4> QED
        <5>1. state' \in [Port -> {"kIdle", "kDmxInter", "kDmxBreak", "kDmxMab"}]
          BY <2>2, <4>1 DEF Variables
        <5>2. rdm' \in [Port -> {"kIdle", "kBreak", "kMab", "kDirection"}]
          BY <2>2, <4>3 DEF Variables
        <5>3. timer' \subseteq Port
          BY <2>2, <4>2 DEF Variables
        <5> QED  BY <5>1, <5>2, <5>3
    <3>2. wire' \in [Port -> Wire] /\ UNCHANGED <<ports, buffers>>
      <4>1. wire' = [wire EXCEPT ![p] = Quiet] /\ UNCHANGED <<ports, buffers>>
        BY <2>5 DEF DmaEnd
      <4> QED  BY <2>2, <4>1 DEF Variables
    <3> QED  BY <2>1, <2>2, <3>1, <3>2 DEF Variables, ports, styles, buffers, Occurs
  <2> QED  BY <1>3, <2>1, <2>3, <2>4, <2>5 DEF Interrupt, Types
<1>4. CASE UNCHANGED vars
  <2>1. Variables' /\ Steps' = Steps /\ scenario' = scenario /\ todo' = todo
    BY <1>4 DEF vars, Types, Variables, Steps, Legal, Occurs, ports, styles, sending, buffers
  <2> QED  BY <2>1 DEF Types
<1> QED  BY <1>1, <1>2, <1>3, <1>4 DEF Next
-----------------------------------------------------------------------------
(* Requests in turns.                                                      *)
\* The calls leave a port alone while its request is out, and every style is delta.
Tame == (Occurs("rdm") => Occurs("turns")) /\ ~Occurs("style")

\* The main loop takes a port off the line, or is about to enable it.
Stopping(p) == \/ Off(Cur, p)
               \/ Is(Cur, Waits, p) /\ (Off(After, p) \/ Is(After, {"RdmTransmit"}, p))
Enabling(p) == \/ Is(Cur, {"DataEnable", "Clear"}, p)
               \/ Is(Cur, Waits, p) /\ Is(After, {"DataEnable", "Clear"}, p)
               \/ Is(Cur, {"SetPortDirection"}, p) /\ ~Off(Cur, p)

\* While a request is out, nothing else is: the port is stopped and its output idle.
RequestAlone(p) ==
    rdm[p] # "kIdle" =>
       /\ Occurs("rdm") /\ (p \in timer \/ wire[p].kind = "rdm")
       /\ state[p] = "kIdle" /\ port_state[p] = "kIdle" /\ direction[p] = "kOutput" /\ p \notin started

\* What the port has to do with its output being started.
PortIs(p) ==
    /\ direction[p] = "kOutput" =>
          p \in started \/ rdm[p] # "kIdle" \/ Stopping(p) \/ Is(Cur, {"RdmTransmit"}, p)
    /\ p \in started => direction[p] = "kOutput" \/ Is(Cur, {"SetPortDirection"}, p)
    /\ port_state[p] = "kTx" => p \in started \/ Stopping(p)
    /\ state[p] # "kIdle" => port_state[p] = "kTx" \/ Is(Cur, {"Drain"}, p)
    /\ wire[p].kind = "dmx" => state[p] = "kDmxMab"

\* And what the step to come finds.
FoundBy(p) ==
    /\ Is(Cur, {"StartDmxOutput"}, p) => port_state[p] = "kTx"
    /\ Is(Cur, {"DataEnable", "Clear", "RdmTransmit", "Drain"}, p) => port_state[p] = "kIdle"
    /\ Is(Cur, {"DataEnable", "Clear", "RdmTransmit", "Drain", "DataDisable"}, p) => direction[p] = "kOutput"
    /\ Is(Cur, {"SetPortDirection"}, p) /\ ~Off(Cur, p) => direction[p] = "kInput"
    /\ Enabling(p) => p \in started
    /\ Stopping(p) \/ Is(Cur, {"RdmTransmit"}, p) => p \notin started

TurnsAt(p) == RequestAlone(p) /\ PortIs(p) /\ FoundBy(p)

\* Nothing is to be done at a port whose request is out, but for ArtSync.
Claimed == \A s \in Left : s.op = "Sync" \/ rdm[s.port] = "kIdle"

TurnsInv == Tame => Claimed /\ \A p \in Port : TurnsAt(p)

\* A step that has nothing to do with a port.
SameAt(p) ==
    /\ port_state'[p] = port_state[p] /\ direction'[p] = direction[p] /\ state'[p] = state[p]
    /\ rdm'[p] = rdm[p] /\ (p \in timer' <=> p \in timer) /\ wire'[p] = wire[p]
    /\ (p \in started' <=> p \in started)

LEMMA MainAside ==
    ASSUME Types, NEW q \in Port, NEW arg, Main(q, arg), NEW p \in Port \ {q}
    PROVE  SameAt(p)
<1> USE DEF ports, styles, sending, buffers
<1>1. CASE SetPortDirection(q, arg) \/ DataEnable(q) \/ DataDisable(q) \/ Drain(q) \/ StartDmxOutput(q) \/ RdmTransmit(q)
  <2>1. CASE SetPortDirection(q, arg)
    BY <2>1 DEF Types, Variables, SameAt, SetPortDirection
  <2>2. CASE DataEnable(q)
    BY <2>2 DEF Types, Variables, SameAt, DataEnable
  <2>3. CASE DataDisable(q)
    BY <2>3 DEF Types, Variables, SameAt, DataDisable
  <2>4. CASE Drain(q)
    BY <2>4 DEF Types, Variables, SameAt, Drain
  <2>5. CASE StartDmxOutput(q)
    BY <2>5 DEF Types, Variables, SameAt, StartDmxOutput
  <2>6. CASE RdmTransmit(q)
    BY <2>6 DEF Types, Variables, SameAt, RdmTransmit
  <2> QED  BY <1>1, <2>1, <2>2, <2>3, <2>4, <2>5, <2>6
<1>2. CASE SetOutputStyle(q, arg) \/ Halt(q) \/ Resume(q) \/ TakeBuffer(q) \/ CopyHead(q, arg) \/ CopyTail(q, arg)
  BY <1>2, Zenon DEF Types, Variables, SameAt, SetOutputStyle, Halt, Resume, TakeBuffer, CopyHead, CopyTail
<1>3. CASE StartSendStyleDirect(q) \/ Sync(q) \/ Fill(q, arg) \/ Clear(q, arg) \/ Start(q) \/ Stop(q)
  BY <1>3 DEF Types, Variables, SameAt, StartSendStyleDirect, Sync, Fill, Clear, Start, Stop
<1> QED  BY <1>1, <1>2, <1>3 DEF Main

\* It changes nothing for that port, if it leaves the main loop at the same port, or at something new.
LEMMA TurnsAside ==
    ASSUME NEW p, NEW q, p # q, TurnsAt(p), SameAt(p), scenario' = scenario,
           Cur.port = q, Cur'.port = q \/ Cur'.op \in Begins
    PROVE  TurnsAt(p)'
<1>1. ~Stopping(p) /\ ~Is(Cur, {"RdmTransmit"}, p) /\ ~Is(Cur, {"SetPortDirection"}, p) /\ ~Is(Cur, {"Drain"}, p)
  BY DEF Stopping, Off, Is
<1>2. ~(Cur'.port = p /\ Cur'.op \notin Begins)
  OBVIOUS
<1>3. /\ ~Stopping(p)' /\ ~Enabling(p)'
      /\ \A ops : ops \cap Begins = {} => ~Is(Cur', ops, p)
  BY <1>2 DEF Stopping, Enabling, Off, Is, Begins, Waits
<1>4. RequestAlone(p)'
  BY DEF TurnsAt, RequestAlone, SameAt, Occurs
<1>5. PortIs(p)'
  BY <1>1, <1>3 DEF TurnsAt, PortIs, SameAt
<1>6. FoundBy(p)'
  BY <1>3 DEF FoundBy, Begins
<1> QED  BY <1>4, <1>5, <1>6 DEF TurnsAt

\* What the main loop knows of the port it is at.
Here(p) ==
    /\ Types /\ Tame /\ TurnsAt(p) /\ Cur.port = p /\ (Cur.op # "Sync" => rdm[p] = "kIdle")
    /\ scenario' = scenario

\* And what the step has to see to.
Kept(p) == TurnsAt(p)' /\ (Cur'.port = p \/ Cur'.op \in Begins)

\* The other steps that do nothing to a port.
Aside == Begins \cup {"CopyHead", "CopyTail", "SetOutputStyle"}

LEMMA HereIs ==
    ASSUME NEW p, Here(p), NEW op, Now(op, p)
    PROVE  /\ p \in Port /\ Variables /\ Cur.op = op /\ Cur.port = p /\ Follows(Cur, After) /\ Legal(Cur)
           /\ After = Done \/ Legal(After)
           /\ TurnsAt(p) /\ (op # "Sync" => rdm[p] = "kIdle") /\ ~Occurs("style") /\ scenario' = scenario
           /\ (op \notin Parts /\ ~Off(Cur, p) => After.op \in Begins)
<1>1. p \in Port /\ Cur.op = op /\ Cur.port = p /\ Follows(Cur, After) /\ Legal(Cur) /\ After \in AnyStep
  BY NowIs DEF Here
<1>2. After = Done \/ Legal(After)
  BY <1>1, StepFields DEF AnyStep
<1>3. op \notin Parts /\ ~Off(Cur, p) => After.op \in Begins
  BY <1>1 DEF Follows
<1> QED  BY <1>1, <1>2, <1>3 DEF Here, Types, Tame

\* Nothing changes, and the main loop goes on to a step that asks nothing of the port.
LEMMA AsideTurns ==
    ASSUME NEW p, Here(p), Cur.op \in Aside \cup {"StartSendStyleDirect"}, SameAt(p),
           Cur'.port = p \/ Cur'.op \in Begins, Cur'.op \in Aside
    PROVE  Kept(p)
<1>1. /\ ~Stopping(p) /\ ~Is(Cur, {"RdmTransmit"}, p) /\ ~Is(Cur, {"SetPortDirection"}, p) /\ ~Is(Cur, {"Drain"}, p)
      /\ ~Stopping(p)' /\ ~Enabling(p)'
      /\ \A ops : ops \cap Aside = {} => ~Is(Cur', ops, p)
  BY DEF Stopping, Enabling, Off, Is, Begins, Waits, Aside
<1>2. RequestAlone(p)' /\ scenario' = scenario /\ TurnsAt(p)
  BY DEF Here, TurnsAt, RequestAlone, SameAt, Occurs
<1>3. PortIs(p)'
  BY <1>1, <1>2 DEF TurnsAt, PortIs, SameAt
<1>4. FoundBy(p)'
  BY <1>1 DEF FoundBy, Aside, Begins
<1> QED  BY <1>2, <1>3, <1>4 DEF TurnsAt, Kept

LEMMA DirectionTurns ==
    ASSUME NEW p, Here(p), NEW enable, enable = Cur.arg, SetPortDirection(p, enable)
    PROVE  Kept(p)
<1>1. /\ Now("SetPortDirection", p) /\ direction' = [direction EXCEPT ![p] = "kOutput"] /\ Types
      /\ UNCHANGED <<port_state, styles, sending, buffers, started>>
  BY DEF SetPortDirection, Here
<1>2. /\ rdm[p] = "kIdle" /\ p \in Port /\ TurnsAt(p) /\ Follows(Cur, After) /\ Variables
      /\ Cur.port = p /\ Cur.op = "SetPortDirection"
  BY <1>1, HereIs
<1>3. direction'[p] = "kOutput"
  BY <1>1, <1>2 DEF Variables
<1>4. CASE enable = FALSE
  <2>1. Moved(<<Step("DataDisable", p, "")>>) /\ Cur.arg = FALSE
    BY <1>1, <1>4, DirectionMoves
  <2>2. Cur' = Step("DataDisable", p, "") /\ After' = After /\ Off(Cur, p)
    BY <1>2, <2>1, MovedIs DEF Off, Is
  <2>3. Stopping(p) /\ p \notin started /\ (Off(After, p) \/ Is(After, {"RdmTransmit"}, p))
    BY <1>2, <2>2 DEF Stopping, TurnsAt, FoundBy, Follows
  <2>4. Stopping(p)' /\ ~Enabling(p)' /\ p \notin started'
    BY <1>1, <2>2, <2>3 DEF Stopping, Enabling, Off, Is, Waits, Step
  <2> QED  BY <1>1, <1>2, <1>3, <2>2, <2>4 DEF Kept, TurnsAt, RequestAlone, PortIs, FoundBy, Is, Off, Step, sending
<1>5. CASE enable = TRUE
  <2>1. Cur.arg = TRUE /\ ~Off(Cur, p)
    BY <1>1, <1>5, DirectionMoves DEF Off
  <2>2. direction[p] # "kOutput" /\ p \in started
    BY <1>2, <2>1 DEF TurnsAt, FoundBy, Enabling, Is
  <2>3. Cur' = Step("DataDisable", p, "") /\ After' = Step("DataEnable", p, "")
    <3>1. Moved(<<Step("DataDisable", p, ""), Step("DataEnable", p, "")>>)
      BY <1>1, <1>5, <2>2, DirectionMoves
    <3> QED  BY <3>1, MovedIs
  <2>4. ~Stopping(p)' /\ p \in started'
    BY <1>1, <2>2, <2>3 DEF Stopping, Off, Is, Waits, Step
  <2> QED  BY <1>1, <1>2, <1>3, <2>3, <2>4 DEF Kept, TurnsAt, RequestAlone, PortIs, FoundBy, Is, Off, Step, sending
<1>6. enable = TRUE \/ enable = FALSE
  <2>1. Cur.arg \in BOOLEAN
    BY <1>1, NowIs
  <2> QED  BY <2>1
<1> QED  BY <1>4, <1>5, <1>6

LEMMA EnableTurns ==
    ASSUME NEW p, Here(p), DataEnable(p)
    PROVE  Kept(p)
<1>1. Now("DataEnable", p) /\ Types
  BY DEF DataEnable, Here
<1>2. /\ rdm[p] = "kIdle" /\ p \in Port /\ TurnsAt(p) /\ Variables /\ Cur.port = p /\ Cur.op = "DataEnable"
  BY <1>1, HereIs
<1>3. direction[p] = "kOutput" /\ port_state[p] = "kIdle" /\ p \in started /\ state[p] = "kIdle" /\ wire[p].kind # "dmx"
  BY <1>2 DEF TurnsAt, FoundBy, PortIs, Enabling, Is
<1>4. /\ port_state'[p] = "kTx" /\ state'[p] = "kIdle"
      /\ UNCHANGED <<direction, styles, rdm, timer, wire, buffers, started>>
  BY <1>2, <1>3 DEF DataEnable, Variables
<1>5. Moved(<<Step("SetOutputStyle", p, output_style[p])>>)
  BY <1>1, <1>3, EnableMoves
<1>6. Cur'.op = "SetOutputStyle" /\ Cur'.port = p
  BY <1>5, MovedIs DEF Step
<1>7. ~Stopping(p)' /\ ~Enabling(p)'
  BY <1>6 DEF Stopping, Enabling, Off, Is, Waits
<1> QED  BY <1>2, <1>3, <1>4, <1>6, <1>7 DEF Kept, TurnsAt, RequestAlone, PortIs, FoundBy, Is

\* The end of a wait: whatever it was for comes next.
LEMMA WaitTurns ==
    ASSUME NEW p, Here(p), NEW op \in Waits, Now(op, p), Cur' = After, p \in started' <=> p \in started,
           port_state'[p] = "kIdle", direction'[p] = "kOutput", state'[p] = "kIdle",
           rdm'[p] = rdm[p], direction[p] = "kOutput", wire'[p].kind # "dmx"
    PROVE  Kept(p)
<1>1. /\ rdm[p] = "kIdle" /\ TurnsAt(p) /\ Cur.op = op /\ Cur.port = p /\ Follows(Cur, After)
      /\ (After = Done \/ Legal(After)) /\ ~Occurs("style")
  BY HereIs DEF Waits
<1>2. After.op \notin {"Halt", "Resume"}
  <2>1. Done.op = "end"
    BY DEF Done, Step
  <2>2. Legal(After) => After.op \notin {"Halt", "Resume"}
    BY <1>1 DEF Legal
  <2> QED  BY <1>1, <2>1, <2>2
<1>3. Is(After, {"DataEnable", "Clear", "RdmTransmit"}, p) \/ Off(After, p)
  BY <1>1, <1>2 DEF Follows
<1>4. Is(Cur, Waits, p)
  BY <1>1 DEF Is
<1>5. (Enabling(p) => p \in started) /\ (Stopping(p) => p \notin started) /\ (p \in started \/ Stopping(p))
  BY <1>1, <1>4 DEF TurnsAt, FoundBy, PortIs, Is, Waits
<1>6. Is(After, {"DataEnable", "Clear"}, p) => p \in started'
  BY <1>4, <1>5 DEF Enabling
<1>7. Is(After, {"RdmTransmit"}, p) \/ Off(After, p) => p \notin started'
  BY <1>4, <1>5 DEF Stopping
<1>8. Enabling(p)' => Is(After, {"DataEnable", "Clear"}, p)
  BY <1>3 DEF Enabling, Is, Off, Waits
<1>9. Stopping(p)' <=> Off(After, p)
  BY <1>3 DEF Stopping, Is, Off, Waits
<1>10. PortIs(p)' /\ RequestAlone(p)'
  <2>1. p \in started' \/ Off(After, p) \/ Is(After, {"RdmTransmit"}, p)
    BY <1>3, <1>6 DEF Is
  <2> QED  BY <1>1, <1>9, <2>1 DEF PortIs, RequestAlone
<1>11. FoundBy(p)'
  BY <1>3, <1>6, <1>7, <1>8, <1>9 DEF FoundBy, Is, Off
<1> QED  BY <1>3, <1>10, <1>11 DEF Kept, TurnsAt, Is, Off

LEMMA DisableTurns ==
    ASSUME NEW p, Here(p), DataDisable(p)
    PROVE  Kept(p)
<1>1. /\ Now("DataDisable", p) /\ Types /\ port_state' = [port_state EXCEPT ![p] = "kIdle"]
      /\ UNCHANGED <<direction, styles, sending, buffers, started>>
  BY DEF DataDisable, Here
<1>2. rdm[p] = "kIdle" /\ p \in Port /\ TurnsAt(p) /\ Variables /\ Cur.port = p /\ Cur.op = "DataDisable"
  BY <1>1, HereIs
<1>3. direction[p] = "kOutput" /\ port_state'[p] = "kIdle"
  BY <1>1, <1>2 DEF TurnsAt, FoundBy, Is, Variables
<1>4. CASE port_state[p] = "kIdle"
  <2>1. Cur' = After
    BY <1>1, <1>4, DisableMoves, MovedIs
  <2>2. state[p] = "kIdle" /\ wire[p].kind # "dmx"
    BY <1>2, <1>4 DEF TurnsAt, PortIs, Is
  <2> QED  BY <1>1, <1>2, <1>3, <2>1, <2>2, WaitTurns DEF Waits, sending
<1>5. CASE port_state[p] # "kIdle"
  <2>1. Moved(<<Step("Drain", p, "")>>)
    BY <1>1, <1>3, <1>5, DisableMoves
  <2>2. Cur'.op = "Drain" /\ Cur'.port = p /\ After' = After
    <3>1. Cur' = Step("Drain", p, "") /\ After' = After
      BY <2>1, MovedIs
    <3> QED  BY <3>1 DEF Step
  <2>3. (Stopping(p)' <=> Stopping(p)) /\ (Enabling(p)' <=> Enabling(p))
    BY <1>2, <2>2 DEF Stopping, Enabling, Off, Is, Waits
  <2> QED  BY <1>1, <1>2, <1>3, <2>2, <2>3 DEF Kept, TurnsAt, RequestAlone, PortIs, FoundBy, Is, Off, sending
<1> QED  BY <1>4, <1>5

LEMMA DrainTurns ==
    ASSUME NEW p, Here(p), Drain(p)
    PROVE  Kept(p)
<1>1. /\ Now("Drain", p) /\ Types /\ state' = [state EXCEPT ![p] = "kIdle"]
      /\ UNCHANGED <<ports, styles, rdm, timer, wire, buffers, started>>
      /\ state[p] = "kIdle" \/ state[p] = "kDmxInter"
  BY DEF Drain, Here
<1>2. rdm[p] = "kIdle" /\ p \in Port /\ TurnsAt(p) /\ Variables /\ Cur.port = p /\ Cur.op = "Drain"
  BY <1>1, HereIs
<1>3. direction[p] = "kOutput" /\ port_state[p] = "kIdle" /\ state'[p] = "kIdle" /\ wire[p].kind # "dmx"
  BY <1>1, <1>2 DEF TurnsAt, FoundBy, PortIs, Is, Variables
<1>4. Cur' = After
  BY <1>1, LastMoves, MovedIs
<1> QED  BY <1>1, <1>2, <1>3, <1>4, WaitTurns DEF Waits, ports

LEMMA OutputTurns ==
    ASSUME NEW p, Here(p), StartDmxOutput(p)
    PROVE  Kept(p)
<1>1. /\ Now("StartDmxOutput", p) /\ Types /\ state' = [state EXCEPT ![p] = "kDmxBreak"] /\ wire[p] = Quiet
      /\ UNCHANGED <<ports, styles, rdm, wire, buffers, started>>
  BY DEF StartDmxOutput, Here
<1>2. /\ rdm[p] = "kIdle" /\ p \in Port /\ TurnsAt(p) /\ Variables /\ Cur.port = p /\ Cur.op = "StartDmxOutput"
      /\ After.op \in Begins
  <2>1. ~Off(Cur, p) /\ "StartDmxOutput" \notin Parts
    <3>1. Cur.op = "StartDmxOutput"
      BY <1>1, HereIs
    <3> QED  BY <3>1 DEF Off, Is, Parts, Waits
  <2> QED  BY <1>1, <2>1, HereIs
<1>3. Cur' = After
  BY <1>1, LastMoves, MovedIs
<1>4. port_state[p] = "kTx" /\ ~Stopping(p) /\ ~Stopping(p)' /\ ~Enabling(p)' /\ wire[p].kind = "none"
  BY <1>1, <1>2, <1>3 DEF TurnsAt, FoundBy, Stopping, Enabling, Off, Is, Waits, Begins, Quiet
<1> QED  BY <1>1, <1>2, <1>3, <1>4 DEF Kept, TurnsAt, RequestAlone, PortIs, FoundBy, Is, Begins, ports

LEMMA TransmitTurns ==
    ASSUME NEW p, Here(p), RdmTransmit(p)
    PROVE  Kept(p) /\ Cur' = Done
<1>1. /\ Now("RdmTransmit", p) /\ Types /\ timer' = timer \cup {p} /\ rdm' = [rdm EXCEPT ![p] = "kBreak"]
      /\ UNCHANGED <<ports, styles, state, wire, buffers, started>> /\ wire[p] = Quiet
  BY DEF RdmTransmit, Here
<1>2. /\ p \in Port /\ TurnsAt(p) /\ Variables /\ Cur.port = p /\ Cur.op = "RdmTransmit" /\ Follows(Cur, After)
      /\ Legal(Cur) /\ scenario' = scenario
  BY <1>1, HereIs
<1>3. Cur' = Done /\ Done.op = "end" /\ Occurs("rdm")'
  BY <1>1, <1>2, LastMoves, MovedIs DEF Follows, Done, Step, Legal, Occurs
<1>4. /\ port_state[p] = "kIdle" /\ direction[p] = "kOutput" /\ p \notin started /\ state[p] = "kIdle"
      /\ wire[p].kind = "none"
  BY <1>1, <1>2 DEF TurnsAt, FoundBy, PortIs, Is, Quiet
<1>5. ~Stopping(p)' /\ ~Enabling(p)'
  BY <1>3 DEF Stopping, Enabling, Off, Is, Waits
<1> QED  BY <1>1, <1>2, <1>3, <1>4, <1>5 DEF Kept, TurnsAt, RequestAlone, PortIs, FoundBy, Is, Begins, ports, Variables

\* The steps that are about the data, and the style.
LEMMA DataTurns ==
    ASSUME NEW p, Here(p), NEW arg, arg = Cur.arg,
           TakeBuffer(p) \/ CopyHead(p, arg) \/ CopyTail(p, arg) \/ SetOutputStyle(p, arg)
    PROVE  Kept(p)
<1>1. PICK op \in {"TakeBuffer", "CopyHead", "CopyTail", "SetOutputStyle"} : Now(op, p)
  BY DEF TakeBuffer, CopyHead, CopyTail, SetOutputStyle
<1>2. /\ Types /\ Cur.op = op /\ Cur.port = p /\ Follows(Cur, After) /\ ~Occurs("style")
      /\ (op \notin Parts /\ ~Off(Cur, p) => After.op \in Begins)
  BY <1>1, HereIs DEF Here
<1>3. Cur' = After
  <2>1. Moved(<<>>)
    BY <1>2, LastMoves, StyleMoves
  <2> QED  BY <2>1, MovedIs
<1>4. (After.port = p \/ After.op \in Begins) /\ After.op \in Aside
  BY <1>2 DEF Follows, Parts, Off, Is, Waits, Aside, Step
<1>5. SameAt(p)
  BY DEF SameAt, TakeBuffer, CopyHead, CopyTail, SetOutputStyle, ports, sending, styles, buffers
<1> QED  BY <1>2, <1>3, <1>4, <1>5, AsideTurns DEF Aside, Begins

\* The steps that may start the output.
LEMMA SendTurns ==
    ASSUME NEW p, Here(p), StartSendStyleDirect(p) \/ Sync(p)
    PROVE  Kept(p)
<1>1. PICK op \in {"StartSendStyleDirect", "Sync"} : Now(op, p)
  BY DEF StartSendStyleDirect, Sync
<1>2. /\ Types /\ Cur.op = op /\ Cur.port = p /\ Follows(Cur, After) /\ TurnsAt(p) /\ scenario' = scenario
      /\ (op \notin Parts /\ ~Off(Cur, p) => After.op \in Begins)
  BY <1>1, HereIs DEF Here
<1>3. SameAt(p)
  BY DEF SameAt, StartSendStyleDirect, Sync, ports, sending, styles, buffers
<1>4. (MayStart(p) /\ Moved(<<Step("StartDmxOutput", p, "")>>)) \/ Moved(<<>>)
  BY <1>2, StartMoves
<1>5. CASE Moved(<<>>)
  <2>1. Cur' = After
    BY <1>5, MovedIs
  <2>2. After.op \in Begins
    BY <1>2 DEF Follows, Parts, Off, Is, Waits, Begins
  <2> QED  BY <1>2, <1>3, <2>1, <2>2, AsideTurns DEF Aside, Begins
<1>6. CASE MayStart(p) /\ Moved(<<Step("StartDmxOutput", p, "")>>)
  <2>1. Cur'.op = "StartDmxOutput" /\ Cur'.port = p
    <3>1. Cur' = Step("StartDmxOutput", p, "")
      BY <1>6, MovedIs
    <3> QED  BY <3>1 DEF Step
  <2>2. port_state[p] = "kTx" /\ ~Stopping(p) /\ ~Stopping(p)' /\ ~Enabling(p)'
    BY <1>2, <1>6, <2>1 DEF MayStart, Stopping, Enabling, Off, Is, Waits
  <2>3. RequestAlone(p)' /\ PortIs(p)'
    BY <1>2, <1>3, <2>2 DEF TurnsAt, RequestAlone, PortIs, SameAt, Is, Occurs
  <2>4. FoundBy(p)'
    BY <1>3, <2>1, <2>2 DEF FoundBy, SameAt, Is
  <2> QED  BY <2>1, <2>3, <2>4 DEF Kept, TurnsAt
<1> QED  BY <1>4, <1>5, <1>6

LEMMA FillTurns ==
    ASSUME NEW p, Here(p), NEW arg, arg = Cur.arg, Fill(p, arg)
    PROVE  Kept(p)
<1>1. Now("Fill", p) /\ UNCHANGED <<ports, styles, sending, buffers, started>>
  BY DEF Fill
<1>2. /\ Types /\ Cur.op = "Fill" /\ Cur.port = p /\ TurnsAt(p) /\ rdm[p] = "kIdle" /\ After.op \in Begins
  <2>1. ~Off(Cur, p) /\ "Fill" \notin Parts
    <3>1. Cur.op = "Fill"
      BY <1>1, HereIs
    <3> QED  BY <3>1 DEF Off, Is, Parts, Waits
  <2> QED  BY <1>1, <2>1, HereIs DEF Here
<1>3. SameAt(p)
  BY <1>1 DEF SameAt, ports, sending
<1>4. CASE direction[p] # "kOutput"
  <2>1. Cur' = After
    BY <1>2, <1>4, FillMoves, MovedIs
  <2> QED  BY <1>2, <1>3, <2>1, AsideTurns DEF Aside, Begins
<1>5. CASE direction[p] = "kOutput"
  <2>1. Moved(<<Step("DataDisable", p, ""), Step("Clear", p, arg), Step("DataEnable", p, "")>>)
    BY <1>2, <1>5, FillMoves
  <2>2. Cur'.op = "DataDisable" /\ Cur'.port = p /\ After'.op = "Clear" /\ After'.port = p
    <3>1. Cur' = Step("DataDisable", p, "") /\ After' = Step("Clear", p, arg)
      BY <2>1, MovedIs
    <3> QED  BY <3>1 DEF Step
  <2>3. p \in started
    BY <1>2, <1>5 DEF TurnsAt, PortIs, Stopping, Off, Is, Waits
  <2>4. ~Stopping(p) /\ ~Stopping(p)'
    BY <1>2, <2>2 DEF Stopping, Off, Is, Waits
  <2>5. RequestAlone(p)' /\ PortIs(p)'
    BY <1>2, <1>3, <2>3, <2>4 DEF TurnsAt, RequestAlone, PortIs, SameAt, Is
  <2>6. FoundBy(p)'
    BY <1>3, <1>5, <2>2, <2>3, <2>4 DEF FoundBy, SameAt, Is
  <2> QED  BY <2>2, <2>5, <2>6 DEF Kept, TurnsAt
<1> QED  BY <1>4, <1>5

LEMMA ClearTurns ==
    ASSUME NEW p, Here(p), NEW arg, Clear(p, arg)
    PROVE  Kept(p)
<1>1. Now("Clear", p) /\ UNCHANGED <<ports, styles, sending, write_index, read_index, data_pending, started>> /\ Types
  BY DEF Clear, Here
<1>2. Cur.op = "Clear" /\ Cur.port = p /\ TurnsAt(p) /\ rdm[p] = "kIdle" /\ Follows(Cur, After)
  BY <1>1, HereIs
<1>3. Cur' = After /\ Is(After, {"DataEnable"}, p)
  BY <1>1, <1>2, LastMoves, MovedIs DEF Follows
<1>4. p \in started /\ ~Stopping(p) /\ ~Stopping(p)' /\ port_state[p] = "kIdle" /\ direction[p] = "kOutput"
  BY <1>2, <1>3 DEF TurnsAt, FoundBy, Stopping, Enabling, Off, Is, Waits
<1> QED  BY <1>1, <1>2, <1>3, <1>4 DEF Kept, TurnsAt, RequestAlone, PortIs, FoundBy, Is, ports, sending

LEMMA StartTurns ==
    ASSUME NEW p, Here(p), Start(p)
    PROVE  Kept(p)
<1>1. Now("Start", p) /\ started' = started \cup {p} /\ UNCHANGED <<ports, styles, sending, buffers>>
  BY DEF Start
<1>2. Types /\ Cur.op = "Start" /\ Cur.port = p /\ TurnsAt(p) /\ rdm[p] = "kIdle" /\ After.op \in Begins
  <2>1. ~Off(Cur, p) /\ "Start" \notin Parts
    <3>1. Cur.op = "Start"
      BY <1>1, HereIs
    <3> QED  BY <3>1 DEF Off, Is, Parts, Waits
  <2> QED  BY <1>1, <2>1, HereIs DEF Here
<1>3. CASE p \in started
  <2>1. Cur' = After
    BY <1>2, <1>3, StartMoves, MovedIs
  <2>2. SameAt(p)
    BY <1>1, <1>3 DEF SameAt, ports, sending
  <2> QED  BY <1>2, <2>1, <2>2, AsideTurns DEF Aside, Begins
<1>4. CASE p \notin started
  <2>1. Moved(<<Step("SetPortDirection", p, TRUE)>>)
    BY <1>2, <1>4, StartMoves
  <2>2. Cur'.op = "SetPortDirection" /\ Cur'.port = p /\ Cur'.arg = TRUE
    BY <2>1, MovedIs DEF Step
  <2>3. ~Stopping(p) /\ ~Stopping(p)'
    BY <1>2, <2>2 DEF Stopping, Off, Is, Waits
  <2>4. direction[p] = "kInput"
    <3>1. direction[p] # "kOutput" /\ p \in Port
      BY <1>1, <1>2, <1>4, <2>3, HereIs DEF TurnsAt, PortIs, Is
    <3> QED  BY <1>2, <3>1 DEF Types, Variables
  <2>5. RequestAlone(p)' /\ PortIs(p)'
    BY <1>1, <1>2, <2>2, <2>3 DEF TurnsAt, RequestAlone, PortIs, Is, ports, sending
  <2>6. FoundBy(p)'
    BY <1>1, <2>2, <2>3, <2>4 DEF FoundBy, Is, ports
  <2> QED  BY <2>2, <2>5, <2>6 DEF Kept, TurnsAt
<1> QED  BY <1>3, <1>4

LEMMA StopTurns ==
    ASSUME NEW p, Here(p), Stop(p)
    PROVE  Kept(p)
<1>1. Now("Stop", p) /\ started' = started \ {p} /\ UNCHANGED <<ports, styles, sending, buffers>>
  BY DEF Stop
<1>2. Types /\ Cur.op = "Stop" /\ Cur.port = p /\ TurnsAt(p) /\ rdm[p] = "kIdle" /\ Follows(Cur, After)
  BY <1>1, HereIs DEF Here
<1>3. Off(Cur', p)
  <2>1. Off(After, p)
    BY <1>2 DEF Follows
  <2>2. Off(Step("SetPortDirection", p, FALSE), p)
    BY DEF Off, Is, Step
  <2> QED  BY <1>2, <2>1, <2>2, StopMoves, MovedIs
<1>4. Stopping(p)' /\ ~Enabling(p)' /\ p \notin started'
  BY <1>1, <1>3 DEF Stopping, Enabling, Off, Is, Waits
<1>5. RequestAlone(p)' /\ PortIs(p)'
  BY <1>1, <1>2, <1>4 DEF TurnsAt, RequestAlone, PortIs, Is, ports, sending
<1>6. FoundBy(p)'
  BY <1>3, <1>4 DEF FoundBy, Is, Off
<1> QED  BY <1>3, <1>5, <1>6 DEF Kept, TurnsAt, Off, Is

LEMMA MainTurns ==
    ASSUME NEW p, Here(p), NEW arg, arg = Cur.arg, Main(p, arg)
    PROVE  Kept(p)
<1>1. ~Halt(p) /\ ~Resume(p)
  BY HereIs DEF Halt, Resume, Legal
<1> QED  BY <1>1, DirectionTurns, EnableTurns, DisableTurns, DrainTurns, OutputTurns, TransmitTurns, DataTurns,
            SendTurns, FillTurns, ClearTurns, StartTurns, StopTurns DEF Main

LEMMA InterruptAside ==
    ASSUME Types, NEW q \in Port, Interrupt(q), NEW p \in Port \ {q}
    PROVE  SameAt(p)
<1>1. UNCHANGED <<styles, started, todo, scenario>> /\ Variables
  BY DEF Interrupt, Types
<1>2. CASE DmxTimer(q)
  <2>1. \A f : wire' = [wire EXCEPT ![q] = f] => wire'[p] = wire[p]
    BY <1>1 DEF Variables
  <2>2. UNCHANGED <<wire, buffers>> \/ DmaStart(q)
    BY <1>1, <1>2, DmxTimerIs DEF Variables
  <2>3. wire'[p] = wire[p]
    BY <2>1, <2>2 DEF DmaStart
  <2>4. /\ state' = state \/ state' = [state EXCEPT ![q] = "kDmxBreak"] \/ state' = [state EXCEPT ![q] = "kDmxMab"]
        /\ timer' = timer \/ timer' = timer \ {q}
    BY <1>1, <1>2, DmxTimerIs DEF Variables
  <2>5. state'[p] = state[p] /\ (p \in timer' <=> p \in timer)
    BY <1>1, <2>4 DEF Variables
  <2>6. UNCHANGED <<rdm, ports>>
    BY <1>2 DEF DmxTimer
  <2> QED  BY <1>1, <2>3, <2>5, <2>6 DEF SameAt, ports
<1>3. CASE RdmTimer(q)
  <2>2. /\ timer' = timer \/ timer' = timer \ {q}
        /\ rdm' = rdm \/ rdm' = [rdm EXCEPT ![q] = "kMab"] \/ rdm' = [rdm EXCEPT ![q] = "kIdle"]
        /\ wire' = wire \/ wire' = [wire EXCEPT ![q] = [Quiet EXCEPT !.kind = "rdm"]]
        /\ \/ UNCHANGED ports
           \/ /\ direction' = [direction EXCEPT ![q] = "kInput"]
              /\ port_state' = [port_state EXCEPT ![q] = "kRx"]
        /\ UNCHANGED state
    <3>1. rdm[q] \in {"kIdle", "kBreak", "kMab", "kDirection"}
      BY <1>1 DEF Variables
    <3> QED  BY <1>3, <3>1, RdmTimerIs
  <2>3. wire'[p] = wire[p] /\ rdm'[p] = rdm[p] /\ (p \in timer' <=> p \in timer)
    BY <1>1, <2>2 DEF Variables
  <2>4. port_state'[p] = port_state[p] /\ direction'[p] = direction[p]
    BY <1>1, <2>2 DEF Variables, ports
  <2> QED  BY <1>1, <2>2, <2>3, <2>4 DEF SameAt
<1>4. CASE DmaEnd(q)
  <2>1. /\ state' = state \/ state' = [state EXCEPT ![q] = "kIdle"] \/ state' = [state EXCEPT ![q] = "kDmxInter"]
        /\ timer' = timer \/ timer' = timer \cup {q}
        /\ rdm' = rdm \/ rdm' = [rdm EXCEPT ![q] = "kDirection"]
        /\ wire' = [wire EXCEPT ![q] = Quiet] /\ UNCHANGED ports
    BY <1>4 DEF DmaEnd
  <2> QED  BY <1>1, <2>1 DEF Variables, SameAt, ports
<1> QED  BY <1>2, <1>3, <1>4 DEF Interrupt

\* No step is left for a port whose request is out, but for ArtSync.
LEMMA ClaimedAt ==
    ASSUME Types, Claimed, NEW p, rdm[p] # "kIdle"
    PROVE  Cur = Done \/ Cur.op = "Sync" \/ Cur.port # p
<1>1. CASE todo = <<>>
  BY <1>1 DEF Cur, Nth
<1>2. CASE todo # <<>>
  BY <1>2, CurIs DEF Types, Claimed
<1> QED  BY <1>1, <1>2

LEMMA InterruptTurns ==
    ASSUME Types, Tame, Claimed, NEW p \in Port, TurnsAt(p), Interrupt(p)
    PROVE  TurnsAt(p)' /\ (rdm[p] = "kIdle" => rdm'[p] = "kIdle")
<1>1. UNCHANGED <<styles, started, todo, scenario>> /\ Variables
  BY DEF Interrupt, Types
<1>2. /\ Cur' = Cur /\ After' = After /\ (Stopping(p)' <=> Stopping(p)) /\ (Enabling(p)' <=> Enabling(p))
      /\ (Occurs("rdm")' <=> Occurs("rdm"))
  BY <1>1 DEF Cur, After, Stopping, Enabling, Occurs
<1>3. CASE DmxTimer(p)
  <2>1. state[p] # "kIdle" /\ UNCHANGED <<rdm, ports>>
    BY <1>3 DEF DmxTimer
  <2>2. rdm[p] = "kIdle" /\ (wire[p].kind = "dmx" => state[p] = "kDmxMab")
    BY <2>1 DEF TurnsAt, RequestAlone, PortIs
  <2>3. state'[p] # "kIdle" /\ (wire'[p].kind = "dmx" => state'[p] = "kDmxMab")
    <3>1. CASE state[p] # "kDmxMab"
      <4>1. wire' = wire /\ (state' = [state EXCEPT ![p] = "kDmxBreak"] \/ state' = [state EXCEPT ![p] = "kDmxMab"])
        BY <1>1, <1>3, <3>1 DEF DmxTimer, Variables
      <4> QED  BY <1>1, <2>2, <3>1, <4>1 DEF Variables
    <3>2. CASE state[p] = "kDmxMab"
      BY <1>3, <3>2 DEF DmxTimer
    <3> QED  BY <3>1, <3>2
  <2>4. RequestAlone(p)' /\ PortIs(p)' /\ FoundBy(p)'
    BY <1>1, <1>2, <2>1, <2>2, <2>3 DEF TurnsAt, RequestAlone, PortIs, FoundBy, ports
  <2> QED  BY <2>1, <2>2, <2>4 DEF TurnsAt
<1>4. CASE RdmTimer(p)
  <2>1. p \in timer /\ state[p] = "kIdle" /\ state' = state
    BY <1>4 DEF RdmTimer
  <2>2. CASE rdm[p] = "kIdle"
    <3>1. UNCHANGED <<rdm, wire, ports>>
      BY <1>4, <2>2 DEF RdmTimer
    <3> QED  BY <1>1, <1>2, <2>1, <2>2, <3>1 DEF TurnsAt, RequestAlone, PortIs, FoundBy, ports
  <2>3. CASE rdm[p] = "kBreak"
    <3>1. UNCHANGED <<timer, wire, ports>> /\ rdm'[p] = "kMab"
      BY <1>1, <1>4, <2>3 DEF RdmTimer, Variables
    <3> QED  BY <1>1, <1>2, <2>1, <2>3, <3>1 DEF TurnsAt, RequestAlone, PortIs, FoundBy, ports
  <2>4. CASE rdm[p] = "kMab"
    <3>1. UNCHANGED <<rdm, ports>> /\ wire'[p].kind = "rdm"
      BY <1>1, <1>4, <2>4 DEF RdmTimer, Variables, Quiet
    <3> QED  BY <1>1, <1>2, <2>1, <2>4, <3>1 DEF TurnsAt, RequestAlone, PortIs, FoundBy, ports
  <2>5. CASE rdm[p] = "kDirection"
    <3>1. rdm'[p] = "kIdle" /\ direction'[p] = "kInput" /\ port_state'[p] = "kRx" /\ wire' = wire
      BY <1>1, <1>4, <2>5 DEF RdmTimer, Variables
    <3>2. Cur.op \in {"end", "Sync"} \/ Cur.port # p
      <4>1. Cur = Done \/ Cur.op = "Sync" \/ Cur.port # p
        BY <2>5, ClaimedAt
      <4>2. Done.op = "end"
        BY DEF Done, Step
      <4> QED  BY <4>1, <4>2
    <3>3. p \notin started /\ ~Stopping(p) /\ ~Enabling(p) /\ wire[p].kind # "dmx"
      BY <2>1, <2>5, <3>2 DEF TurnsAt, RequestAlone, PortIs, Stopping, Enabling, Off, Is, Waits
    <3>4. RequestAlone(p)' /\ PortIs(p)'
      BY <1>1, <1>2, <2>1, <3>1, <3>3 DEF RequestAlone, PortIs
    <3>5. FoundBy(p)'
      BY <1>1, <1>2, <3>2, <3>3 DEF FoundBy, Is
    <3> QED  BY <3>1, <3>4, <3>5 DEF TurnsAt
  <2> QED  BY <1>1, <2>2, <2>3, <2>4, <2>5 DEF Variables
<1>5. CASE DmaEnd(p)
  <2>1. wire'[p].kind = "none" /\ UNCHANGED ports
    BY <1>1, <1>5 DEF DmaEnd, Variables, Quiet
  <2>2. CASE rdm[p] = "kIdle"
    <3>1. /\ state' = state \/ state' = [state EXCEPT ![p] = "kIdle"] \/ state' = [state EXCEPT ![p] = "kDmxInter"]
          /\ rdm' = rdm
      BY <1>5, <2>2 DEF DmaEnd
    <3>2. state'[p] # "kIdle" => state[p] # "kIdle"
      <4>1. CASE state[p] # "kIdle"
        BY <4>1
      <4>2. CASE state[p] = "kIdle"
        BY <1>5, <2>2, <4>2 DEF DmaEnd
      <4> QED  BY <4>1, <4>2
    <3> QED  BY <1>1, <1>2, <2>1, <2>2, <3>1, <3>2 DEF TurnsAt, RequestAlone, PortIs, FoundBy, ports
  <2>3. CASE rdm[p] # "kIdle"
    <3>1. state[p] = "kIdle"
      BY <2>3 DEF TurnsAt, RequestAlone
    <3>2. rdm' = [rdm EXCEPT ![p] = "kDirection"] /\ timer' = timer \cup {p} /\ state' = state
      BY <1>5, <2>3, <3>1 DEF DmaEnd
    <3>3. rdm'[p] # "kIdle" /\ p \in timer'
      BY <1>1, <3>2 DEF Variables
    <3> QED  BY <1>1, <1>2, <2>1, <2>3, <3>1, <3>2, <3>3 DEF TurnsAt, RequestAlone, PortIs, FoundBy, ports
  <2> QED  BY <2>2, <2>3
<1> QED  BY <1>3, <1>4, <1>5 DEF Interrupt

\* A call claims only ports that have no request out.
LEMMA CallTurns ==
    ASSUME Types, Called, Tame, \A p \in Port : TurnsAt(p)
    PROVE  Claimed' /\ \A p \in Port : TurnsAt(p)'
<1>1. UNCHANGED <<ports, styles, sending, buffers, started, scenario>> /\ Cur = Done
  BY DEF Called, Cur, Nth
<1>2. UNCHANGED <<port_state, direction, state, rdm, timer, wire, started, scenario>>
  BY <1>1 DEF ports, sending
<1>3. ASSUME NEW p \in Port, Free(p)  PROVE rdm[p] = "kIdle"
  BY <1>3 DEF Free, Tame, TurnsAt, RequestAlone, Quiet
<1>4. Claimed'
  <2>1. \A s \in Left' : s \in Steps
    BY DEF Called, Left
  <2>2. \A s \in Left' : s.port \in Port
    BY <2>1, StepFields
  <2>3. \A s \in Left' : s.op = "Sync" \/ rdm[s.port] = "kIdle"
    BY <1>3, <2>2 DEF Called
  <2> QED  BY <1>2, <2>3 DEF Claimed
<1>5. ASSUME NEW p \in Port  PROVE TurnsAt(p)'
  <2>1. /\ ~Stopping(p) /\ ~Is(Cur, {"RdmTransmit"}, p) /\ ~Is(Cur, {"SetPortDirection"}, p) /\ ~Is(Cur, {"Drain"}, p)
    BY <1>1 DEF Stopping, Off, Is, Done, Step, Waits
  <2>2. Cur'.op \in Begins \cup {"Stop", "SetOutputStyle"}
    BY DEF Called
  <2>3. /\ ~Stopping(p)' /\ ~Enabling(p)' /\ \A ops : Cur'.op \in ops => ops \cap (Begins \cup {"Stop", "SetOutputStyle"}) # {}
    BY <2>2 DEF Stopping, Enabling, Off, Is, Begins, Waits
  <2>4. RequestAlone(p)' /\ PortIs(p)' /\ TurnsAt(p)
    BY <1>2, <2>1, <2>3 DEF TurnsAt, RequestAlone, PortIs, Occurs
  <2>5. FoundBy(p)'
    BY <2>2, <2>3 DEF FoundBy, Is, Begins
  <2> QED  BY <2>4, <2>5 DEF TurnsAt
<1> QED  BY <1>4, <1>5

\* What a step leaves to do is about the port it was about.
LEMMA MainLeft ==
    ASSUME Types, Tame, NEW p, NEW arg, arg = Cur.arg, Main(p, arg)
    PROVE  \A s \in Left' : s \in Left \/ (s.port = p /\ (Cur.op = "Sync" => MayStart(p)))
<1> DEFINE goal == \A s \in Left' : s \in Left \/ (s.port = p /\ (Cur.op = "Sync" => MayStart(p)))
<1>0. ASSUME Moved(<<>>)  PROVE goal
  <2> SUFFICES ASSUME NEW s \in Left'  PROVE s \in Left
    OBVIOUS
  <2> QED  BY <1>0, MovedIs
<1>1. ASSUME NEW op, Now(op, p), op # "Sync"  PROVE Cur.op # "Sync"
  BY <1>1, NowIs
<1>2. \A op, x : Step(op, p, x).port = p
  BY DEF Step
<1>3. CASE SetPortDirection(p, arg)
  <2>1. \/ Moved(<<Step("DataDisable", p, "")>>) \/ Moved(<<Step("DataDisable", p, ""), Step("DataEnable", p, "")>>)
        \/ Moved(<<Step("DataEnable", p, "")>>)
    <3>1. Cur.arg \in BOOLEAN
      BY <1>3, NowIs DEF SetPortDirection
    <3>2. CASE arg = TRUE /\ direction[p] # "kOutput"
      BY <1>3, <3>2, DirectionMoves
    <3>3. CASE arg = TRUE /\ direction[p] = "kOutput"
      BY <1>3, <3>3, DirectionMoves
    <3>4. CASE arg = FALSE
      BY <1>3, <3>4, DirectionMoves
    <3> QED  BY <3>1, <3>2, <3>3, <3>4
  <2>2. Cur.op # "Sync"
    BY <1>1, <1>3 DEF SetPortDirection
  <2>3. \A s \in Left' : s \in Left \/ s = Step("DataDisable", p, "") \/ s = Step("DataEnable", p, "")
    BY <2>1, MovedIs
  <2> QED  BY <1>2, <2>2, <2>3
<1>4. CASE DataEnable(p)
  <2>1. Moved(<<Step("SetOutputStyle", p, output_style[p])>>) \/ Moved(<<>>)
    BY <1>4, EnableMoves
  <2>2. Cur.op # "Sync"
    BY <1>1, <1>4 DEF DataEnable
  <2>3. \A s \in Left' : s \in Left \/ s = Step("SetOutputStyle", p, output_style[p])
    BY <2>1, MovedIs
  <2> QED  BY <1>2, <2>2, <2>3
<1>5. CASE DataDisable(p)
  <2>1. Moved(<<Step("Drain", p, "")>>) \/ Moved(<<>>)
    BY <1>5, DisableMoves
  <2>2. Cur.op # "Sync"
    BY <1>1, <1>5 DEF DataDisable
  <2>3. \A s \in Left' : s \in Left \/ s = Step("Drain", p, "")
    BY <2>1, MovedIs
  <2> QED  BY <1>2, <2>2, <2>3
<1>6. CASE SetOutputStyle(p, arg)
  <2>1. Moved(<<>>)
    BY <1>6, StyleMoves DEF Tame
  <2> QED  BY <1>0, <2>1
<1>7. CASE Halt(p) \/ Resume(p)
  <2>1. Cur.op \in {"Halt", "Resume"} /\ Legal(Cur)
    BY <1>7, NowIs DEF Halt, Resume
  <2> QED  BY <2>1 DEF Legal, Tame
<1>8. CASE StartSendStyleDirect(p) \/ Sync(p)
  <2>1. (Moved(<<Step("StartDmxOutput", p, "")>>) /\ MayStart(p)) \/ Moved(<<>>)
    BY <1>8, StartMoves
  <2>2. CASE Moved(<<>>)
    BY <1>0, <2>2
  <2>3. CASE Moved(<<Step("StartDmxOutput", p, "")>>) /\ MayStart(p)
    <3>1. \A s \in Left' : s \in Left \/ s = Step("StartDmxOutput", p, "")
      BY <2>3, MovedIs
    <3> QED  BY <1>2, <2>3, <3>1
  <2> QED  BY <2>1, <2>2, <2>3
<1>9. CASE Start(p)
  <2>1. Moved(<<Step("SetPortDirection", p, TRUE)>>) \/ Moved(<<>>)
    BY <1>9, StartMoves
  <2>2. Cur.op # "Sync"
    BY <1>1, <1>9 DEF Start
  <2>3. \A s \in Left' : s \in Left \/ s = Step("SetPortDirection", p, TRUE)
    BY <2>1, MovedIs
  <2> QED  BY <1>2, <2>2, <2>3
<1>10. CASE Stop(p)
  <2>1. Moved(<<Step("SetPortDirection", p, FALSE)>>) \/ Moved(<<>>)
    BY <1>10, StopMoves
  <2>2. Cur.op # "Sync"
    BY <1>1, <1>10 DEF Stop
  <2>3. \A s \in Left' : s \in Left \/ s = Step("SetPortDirection", p, FALSE)
    BY <2>1, MovedIs
  <2> QED  BY <1>2, <2>2, <2>3
<1>11. CASE Fill(p, arg)
  <2> DEFINE disable == Step("DataDisable", p, "")
             clear   == Step("Clear", p, arg)
             able    == Step("DataEnable", p, "")
  <2>1. Moved(<<disable, clear, able>>) \/ Moved(<<>>)
    BY <1>11, FillMoves
  <2>2. Cur.op # "Sync"
    BY <1>1, <1>11 DEF Fill
  <2>3. disable.port = p /\ clear.port = p /\ able.port = p
    BY <1>2
  <2> HIDE DEF disable, clear, able
  <2>4. \A s \in Left' : s \in Left \/ s = disable \/ s = clear \/ s = able
    BY <2>1, MovedIs
  <2> QED  BY <2>2, <2>3, <2>4
<1>12. CASE \/ Drain(p) \/ StartDmxOutput(p) \/ RdmTransmit(p) \/ TakeBuffer(p) \/ CopyHead(p, arg)
            \/ CopyTail(p, arg) \/ Clear(p, arg)
  BY <1>0, <1>12, LastMoves
<1> QED  BY <1>3, <1>4, <1>5, <1>6, <1>7, <1>8, <1>9, <1>10, <1>11, <1>12 DEF Main

\* Only RdmTransmit has a request sent.
LEMMA MainRdm ==
    ASSUME NEW p, NEW arg, Main(p, arg)
    PROVE  rdm' = rdm \/ RdmTransmit(p)
BY DEF Main, SetPortDirection, DataEnable, DataDisable, Drain, StartDmxOutput, SetOutputStyle, Halt, Resume, TakeBuffer,
   CopyHead, CopyTail, StartSendStyleDirect, Sync, Fill, Clear, Start, Stop, sending

LEMMA MainClaims ==
    ASSUME NEW p, Here(p), Claimed, NEW arg, arg = Cur.arg, Main(p, arg)
    PROVE  Claimed'
<1>1. CASE RdmTransmit(p)
  <2>1. Cur' = Done /\ Types
    BY <1>1, TransmitTurns DEF Here
  <2>2. Moved(<<>>)
    BY <1>1, <2>1, LastMoves
  <2>3. todo' \in Seq(Steps) /\ Nth(todo', 1, Done) = Done
    BY <2>1, <2>2 DEF Moved, Cur
  <2>4. todo' = <<>>
    <3>1. \A i \in 1 .. Len(todo') : todo'[i] # Done
      <4>1. \A s \in Steps : s.op # "end"
        BY StepFields
      <4>2. Done.op = "end"
        BY DEF Done, Step
      <4>3. \A i \in 1 .. Len(todo') : todo'[i] \in Steps
        BY <2>3
      <4> QED  BY <4>1, <4>2, <4>3
    <3> QED  BY <2>3, <3>1 DEF Nth
  <2> QED  BY <2>4 DEF Claimed, Left
<1>2. CASE rdm' = rdm
  <2>1. \A s \in Left' : s \in Left \/ (s.port = p /\ (Cur.op = "Sync" => MayStart(p)))
    BY MainLeft DEF Here
  <2>2. Cur.op # "Sync" => rdm[p] = "kIdle"
    BY DEF Here
  <2>3. MayStart(p) => rdm[p] = "kIdle"
    BY DEF MayStart, Here, TurnsAt, RequestAlone
  <2> QED  BY <1>2, <2>1, <2>2, <2>3 DEF Claimed
<1> QED  BY <1>1, <1>2, MainRdm

LEMMA MainStepTurns ==
    ASSUME Types, Tame, Claimed, \A p \in Port : TurnsAt(p), MainStep
    PROVE  Claimed' /\ \A p \in Port : TurnsAt(p)'
<1>1. PICK q \in Port, arg \in {Cur.arg} : q = Cur.port /\ arg = Cur.arg /\ Main(q, arg) /\ scenario' = scenario
  BY MainIs
<1>2. Cur.op # "Sync" => rdm[q] = "kIdle"
  BY <1>1, CurIs DEF Claimed, MainStep, Types
<1>3. Here(q)
  BY <1>1, <1>2 DEF Here
<1>4. Kept(q)
  BY <1>1, <1>3, MainTurns
<1>5. ASSUME NEW p \in Port, p # q  PROVE TurnsAt(p)'
  <2>1. SameAt(p)
    BY <1>1, <1>5, MainAside
  <2> QED  BY <1>1, <1>4, <1>5, <2>1, TurnsAside DEF Kept
<1>6. Claimed'
  BY <1>1, <1>3, MainClaims
<1> QED  BY <1>4, <1>5, <1>6 DEF Kept

LEMMA InterruptStepTurns ==
    ASSUME Types, Tame, Claimed, \A p \in Port : TurnsAt(p), NEW q \in Port, Interrupt(q)
    PROVE  Claimed' /\ \A p \in Port : TurnsAt(p)'
<1>1. UNCHANGED <<todo, scenario>>
  BY DEF Interrupt
<1>2. TurnsAt(q)' /\ (rdm[q] = "kIdle" => rdm'[q] = "kIdle")
  BY InterruptTurns
<1>3. ASSUME NEW p \in Port, p # q  PROVE TurnsAt(p)' /\ rdm'[p] = rdm[p]
  <2>1. SameAt(p) /\ Cur' = Cur /\ After' = After
    BY <1>1, <1>3, InterruptAside DEF Cur, After
  <2>2. (Stopping(p)' <=> Stopping(p)) /\ (Enabling(p)' <=> Enabling(p)) /\ (Occurs("rdm")' <=> Occurs("rdm"))
    BY <1>1, <2>1 DEF Stopping, Enabling, Occurs
  <2> QED  BY <2>1, <2>2 DEF SameAt, TurnsAt, RequestAlone, PortIs, FoundBy
<1>4. Claimed'
  <2>1. Left' = Left
    BY <1>1 DEF Left
  <2>2. \A s \in Left : s.port \in Port
    BY StepFields DEF Types, Left
  <2> QED  BY <1>2, <1>3, <2>1, <2>2 DEF Claimed
<1> QED  BY <1>2, <1>3, <1>4

LEMMA TurnsStep == Types /\ TurnsInv /\ [Next]_vars => TurnsInv'
<1> SUFFICES ASSUME Types, TurnsInv, [Next]_vars, Tame'  PROVE Claimed' /\ \A p \in Port : TurnsAt(p)'
  BY DEF TurnsInv
<1>1. scenario' = scenario
  BY TypesKept
<1>2. Tame /\ Claimed /\ \A p \in Port : TurnsAt(p)
  BY <1>1 DEF Tame, Occurs, TurnsInv
<1>3. CASE Calls
  BY <1>2, <1>3, CallsIs, CallTurns
<1>4. CASE MainStep
  BY <1>2, <1>4, MainStepTurns
<1>5. CASE \E p \in Port : Interrupt(p)
  BY <1>2, <1>5, InterruptStepTurns
<1>6. CASE UNCHANGED vars
  BY <1>2, <1>6 DEF vars, ports, styles, sending, buffers, Claimed, TurnsAt, RequestAlone, PortIs, FoundBy, Stopping,
                    Enabling, Cur, After, Left, Occurs, Nth, Is, Off
<1> QED  BY <1>3, <1>4, <1>5, <1>6 DEF Next

LEMMA TypesStart == Init => Types
<1> SUFFICES ASSUME Init  PROVE Types
  OBVIOUS
<1>1. todo \in Seq(Steps) /\ Chained(todo, Done)
  BY DEF Init, Chained
<1>2. Zero \in Frames
  BY DEF Frames
<1>3. Variables
  BY <1>2, QuietIs DEF Init, Variables, Styles, Frame
<1> QED  BY <1>1, <1>3 DEF Types

LEMMA TurnsStart == Init => TurnsInv
<1> SUFFICES ASSUME Init  PROVE TurnsInv
  OBVIOUS
<1>1. Cur = Done /\ Done.op = "end" /\ Left = {}
  BY DEF Init, Cur, Nth, Done, Step, Left
<1>2. ASSUME NEW p \in Port  PROVE TurnsAt(p)
  <2>1. ~Stopping(p) /\ ~Enabling(p)
    BY <1>1 DEF Stopping, Enabling, Off, Is, Waits
  <2>2. /\ port_state[p] = "kIdle" /\ direction[p] = "kInput" /\ state[p] = "kIdle" /\ rdm[p] = "kIdle"
        /\ wire[p].kind = "none" /\ p \notin started
    BY DEF Init, Quiet
  <2> QED  BY <1>1, <2>1, <2>2 DEF TurnsAt, RequestAlone, PortIs, FoundBy, Is
<1> QED  BY <1>1, <1>2 DEF TurnsInv, Claimed

\* Every variable keeps its type, and the steps left of a call of the main loop are in the order of
\* the code: whatever an interrupt does in between, a copy is finished before the DMA is set up, a wait
\* is followed by what waited for it.
THEOREM TypesHold == Spec => []Types
<1>1. Types /\ [Next]_vars => Types'
  BY TypesKept
<1> QED  BY <1>1, TypesStart, PTL DEF Spec

\* What a port is and what the call of the main loop that has it still has to do agree: a request has
\* the port for itself, when no request is out where a call is made.
THEOREM TurnsHold == Spec => [](Types /\ TurnsInv)
<1>1. Types /\ TurnsInv /\ [Next]_vars => TurnsInv'
  BY TurnsStep
<1> QED  BY <1>1, TypesHold, TurnsStart, PTL DEF Spec

\* LineNotShared: with every style delta, and no request out where a call is made, the output and a
\* request never use the line together.
THEOREM LineIsNotShared == Spec => []LineNotShared
<1>1. Types /\ TurnsInv => LineNotShared
  BY DEF TurnsInv, Tame, TurnsAt, RequestAlone, LineNotShared
<1> QED  BY <1>1, TurnsHold, PTL

\* StartedIsOnLine, without changes of style: a port that is started drives the line when no call is
\* under way.  With changes of style TLC checks it on instances.
THEOREM StartedPortsAreOnLine == Spec => [](Occurs("style") \/ StartedIsOnLine)
<1>1. ASSUME Types, TurnsInv, ~Occurs("style")  PROVE StartedIsOnLine
  <2> SUFFICES ASSUME Occurs("turns"), todo = <<>>, NEW p \in started  PROVE direction[p] = "kOutput"
    BY DEF StartedIsOnLine
  <2>1. p \in Port /\ TurnsAt(p)
    BY <1>1 DEF TurnsInv, Tame, Types, Variables
  <2>2. Cur.op = "end"
    BY DEF Cur, Nth, Done, Step
  <2> QED  BY <2>1, <2>2 DEF TurnsAt, PortIs, Is
<1>2. Types /\ TurnsInv => Occurs("style") \/ StartedIsOnLine
  BY <1>1
<1> QED  BY <1>2, TurnsHold, PTL

\* EnabledOnce, without changes of style: DataEnable finds the port idle, as its assertion says,
\* Blackout included.  With changes of style TLC checks it on instances.
THEOREM PortsAreEnabledOnce == Spec => [](Occurs("style") \/ EnabledOnce)
<1>1. ASSUME Types, TurnsInv, ~Occurs("style")  PROVE EnabledOnce
  <2> SUFFICES ASSUME Occurs("turns"), NEW p \in Port, Now("DataEnable", p)  PROVE port_state[p] = "kIdle"
    BY DEF EnabledOnce
  <2>1. TurnsAt(p)
    BY <1>1 DEF TurnsInv, Tame
  <2>2. Cur.op = "DataEnable" /\ Cur.port = p
    BY <1>1, NowIs
  <2> QED  BY <2>1, <2>2 DEF TurnsAt, FoundBy, Is
<1>2. Types /\ TurnsInv => Occurs("style") \/ EnabledOnce
  BY <1>1
<1> QED  BY <1>2, TurnsHold, PTL
-----------------------------------------------------------------------------
(* The two buffers.                                                        *)
Copies     == {"CopyHead", "CopyTail"}
Copying(p) == Is(Cur, Copies, p)

Whole(frame, head) == frame.head = head /\ frame.tail = head

\* The buffer on the line is the one that is read, and nothing is copied into it; the one that
\* is written holds one frame, except while it is copied.
BuffersAt(p) ==
    /\ wire[p].kind = "dmx" => wire[p].index = read_index[p]
    /\ wire[p].kind = "dmx" /\ ~wire[p].copying =>
          /\ Whole(data[p][wire[p].index], wire[p].head)
          /\ Copying(p) => wire[p].index # write_index[p]
    /\ ~Copying(p) => data[p][write_index[p]].head = data[p][write_index[p]].tail
    /\ Is(Cur, {"CopyTail"}, p) => data[p][write_index[p]].head = Cur.arg

Ordered    == (Occurs("rdm") => Occurs("turns")) /\ ~(Occurs("style") /\ Occurs("fill"))
BuffersInv == Ordered => \A p \in Port : BuffersAt(p)

SameBuffers(p) ==
    /\ wire'[p] = wire[p] /\ data'[p] = data[p]
    /\ write_index'[p] = write_index[p] /\ read_index'[p] = read_index[p]

LEMMA BuffersStay ==
    ASSUME NEW p, BuffersAt(p), SameBuffers(p), ~Copying(p), ~Copying(p)'
    PROVE  BuffersAt(p)'
BY DEF BuffersAt, SameBuffers, Copying, Is, Copies

\* A copy goes on from what it began with.
LEMMA NotCopying ==
    ASSUME Types, NEW p, NEW arg, arg = Cur.arg, Main(p, arg), ~TakeBuffer(p), ~CopyHead(p, arg)
    PROVE  Cur'.op \notin Copies
<1> DEFINE fresh == {"DataEnable", "DataDisable", "Drain", "StartDmxOutput", "SetOutputStyle", "SetPortDirection"} \cup Loops
           goal  == Cur'.op \notin Copies
<1>1. fresh \cap Copies = {}
  BY DEF Copies, Loops
<1>2. \A op \in fresh : \A x : Step(op, p, x).op \notin Copies
  BY <1>1 DEF Step
<1>3. ASSUME NEW op, Now(op, p), op \notin {"TakeBuffer", "CopyHead"}  PROVE After.op \notin Copies
  <2>1. Follows(Cur, After) /\ Cur.op = op /\ Cur.port = p
    BY <1>3, NowIs
  <2>2. Done.op = "end"
    BY DEF Done, Step
  <2> QED  BY <1>3, <2>1, <2>2 DEF Follows, Parts, Off, Is, Waits, Begins, Copies
<1>4. After.op \notin Copies
  BY <1>3 DEF Main, SetPortDirection, DataEnable, DataDisable, Drain, StartDmxOutput, RdmTransmit, SetOutputStyle, Halt,
              Resume, CopyTail, StartSendStyleDirect, Sync, Fill, Clear, Start, Stop
<1>5. ASSUME Moved(<<>>)  PROVE goal
  <2>1. Cur' = After
    BY <1>5, MovedIs
  <2> QED  BY <1>4, <2>1
<1>6. ASSUME NEW op \in fresh, NEW x, \/ Moved(<<Step(op, p, x)>>)
                                      \/ \E t : Moved(<<Step(op, p, x), t>>)
                                      \/ \E t, u : Moved(<<Step(op, p, x), t, u>>)
      PROVE  goal
  <2> DEFINE s == Step(op, p, x)
  <2>1. Cur' = s
    <3> HIDE DEF s
    <3>1. Moved(<<s>>) \/ (\E t : Moved(<<s, t>>)) \/ \E t, u : Moved(<<s, t, u>>)
      BY <1>6 DEF s
    <3> QED  BY <3>1, MovedIs
  <2> QED  BY <1>2, <2>1
<1> SUFFICES goal
  OBVIOUS
<1> HIDE DEF goal
<1>7. CASE SetPortDirection(p, arg)
  <2>1. Cur.arg \in BOOLEAN
    BY <1>7, NowIs DEF SetPortDirection
  <2>2. CASE arg = TRUE /\ direction[p] # "kOutput"
    <3>1. Moved(<<Step("DataDisable", p, ""), Step("DataEnable", p, "")>>)
      BY <1>7, <2>2, DirectionMoves
    <3> QED  BY <1>6, <3>1
  <2>3. CASE arg = TRUE /\ direction[p] = "kOutput"
    <3>1. Moved(<<Step("DataEnable", p, "")>>)
      BY <1>7, <2>3, DirectionMoves
    <3> QED  BY <1>6, <3>1
  <2>4. CASE arg = FALSE
    <3>1. Moved(<<Step("DataDisable", p, "")>>)
      BY <1>7, <2>4, DirectionMoves
    <3> QED  BY <1>6, <3>1
  <2> QED  BY <2>1, <2>2, <2>3, <2>4 DEF goal
<1>8. CASE DataEnable(p)
  <2>1. Moved(<<>>) \/ Moved(<<Step("SetOutputStyle", p, output_style[p])>>)
    BY <1>8, EnableMoves
  <2> QED  BY <1>5, <1>6, <2>1
<1>9. CASE DataDisable(p)
  <2>1. Moved(<<>>) \/ Moved(<<Step("Drain", p, "")>>)
    BY <1>9, DisableMoves
  <2> QED  BY <1>5, <1>6, <2>1
<1>10. CASE SetOutputStyle(p, arg)
  <2>1. \/ Moved(<<>>) \/ Moved(<<Step("StartDmxOutput", p, "")>>) \/ \E steps : Moved(steps) /\ Looping(steps)
    BY <1>10, StyleMoves
  <2>2. ASSUME NEW steps, Moved(steps), Looping(steps)  PROVE goal
    <3>1. Cur' = steps[1] /\ steps[1].op \in Loops
      BY <2>2 DEF Moved, Looping, Nth
    <3> QED  BY <1>1, <3>1 DEF goal
  <2> QED  BY <1>5, <1>6, <2>1, <2>2
<1>11. CASE Halt(p)
  <2>1. Moved(<<>>) \/ Moved(<<Step("DataDisable", p, "")>>)
    BY <1>11, HaltMoves
  <2> QED  BY <1>5, <1>6, <2>1
<1>12. CASE Resume(p) \/ StartSendStyleDirect(p) \/ Sync(p)
  <2>1. Moved(<<>>) \/ Moved(<<Step("StartDmxOutput", p, "")>>)
    BY <1>12, StartMoves
  <2> QED  BY <1>5, <1>6, <2>1
<1>13. CASE Start(p)
  <2>1. Moved(<<>>) \/ Moved(<<Step("SetPortDirection", p, TRUE)>>)
    BY <1>13, StartMoves
  <2> QED  BY <1>5, <1>6, <2>1
<1>14. CASE Stop(p)
  <2>1. Moved(<<>>) \/ Moved(<<Step("SetPortDirection", p, FALSE)>>)
    BY <1>14, StopMoves
  <2> QED  BY <1>5, <1>6, <2>1
<1>15. CASE Fill(p, arg)
  <2>1. \/ Moved(<<>>) \/ Moved(<<Step("DataDisable", p, ""), Step("Clear", p, arg), Step("DataEnable", p, "")>>)
    BY <1>15, FillMoves
  <2> QED  BY <1>5, <1>6, <2>1
<1>16. CASE Drain(p) \/ StartDmxOutput(p) \/ RdmTransmit(p) \/ CopyTail(p, arg) \/ Clear(p, arg)
  BY <1>5, <1>16, LastMoves
<1> QED  BY <1>7, <1>8, <1>9, <1>10, <1>11, <1>12, <1>13, <1>14, <1>15, <1>16 DEF Main, goal

LEMMA MainBuffers ==
    ASSUME NEW p, NEW arg, Main(p, arg)
    PROVE  /\ wire' = wire
           /\ \/ UNCHANGED <<data, write_index, read_index>>
              \/ TakeBuffer(p) \/ CopyHead(p, arg) \/ CopyTail(p, arg) \/ Clear(p, arg)
BY DEF Main, SetPortDirection, DataEnable, DataDisable, Drain, StartDmxOutput, RdmTransmit, SetOutputStyle, Halt, Resume,
   TakeBuffer, CopyHead, CopyTail, StartSendStyleDirect, Sync, Fill, Clear, Start, Stop, sending, buffers

LEMMA TakeKeeps ==
    ASSUME Types, NEW p, BuffersAt(p), TakeBuffer(p)
    PROVE  BuffersAt(p)' /\ Is(Cur', {"CopyHead"}, p)
<1>1. /\ Now("TakeBuffer", p) /\ write_index' = [write_index EXCEPT ![p] = 1 - read_index[p]]
      /\ UNCHANGED <<sending, data, read_index>>
  BY DEF TakeBuffer
<1>2. p \in Port /\ Follows(Cur, After) /\ Cur.op = "TakeBuffer" /\ Cur.port = p /\ Variables
  BY <1>1, NowIs DEF Types
<1>3. Cur' = After /\ Is(After, {"CopyHead"}, p)
  <2>1. Is(After, {"CopyHead"}, p)
    BY <1>2 DEF Follows
  <2> QED  BY <2>1, LastMoves, MovedIs
<1>4. write_index'[p] # read_index[p] /\ wire' = wire
  BY <1>1, <1>2 DEF Variables, sending
<1>5. ~Copying(p) /\ Copying(p)' /\ ~Is(Cur', {"CopyTail"}, p)
  BY <1>2, <1>3 DEF Copying, Is, Copies
<1> QED  BY <1>1, <1>3, <1>4, <1>5 DEF BuffersAt

LEMMA HeadKeeps ==
    ASSUME Types, NEW p, BuffersAt(p), NEW v, v = Cur.arg, CopyHead(p, v)
    PROVE  BuffersAt(p)' /\ Is(Cur', {"CopyTail"}, p)
<1> DEFINE w == write_index[p]
<1>1. /\ Now("CopyHead", p) /\ data' = [data EXCEPT ![p][w].head = v]
      /\ UNCHANGED <<sending, write_index, read_index>>
  BY DEF CopyHead
<1>2. p \in Port /\ Follows(Cur, After) /\ Cur.op = "CopyHead" /\ Cur.port = p /\ Variables
  BY <1>1, NowIs DEF Types
<1>3. Cur' = Step("CopyTail", p, v)
  <2>1. After = Step("CopyTail", p, v)
    BY <1>2 DEF Follows
  <2> QED  BY <2>1, LastMoves, MovedIs
<1>4. Cur'.op = "CopyTail" /\ Cur'.port = p /\ Cur'.arg = v
  BY <1>3 DEF Step
<1>5. wire' = wire
  BY <1>1 DEF sending
<1>6. w \in {0, 1} /\ data[p] \in [{0, 1} -> Frame] /\ wire[p].index \in {0, 1}
  BY <1>2 DEF Variables, Wire
<1>7. data'[p][w].head = v /\ \A i \in {0, 1} : i # w => data'[p][i] = data[p][i]
  BY <1>1, <1>2, <1>6 DEF Variables, Frame
<1>8. Copying(p) /\ Copying(p)' /\ Is(Cur', {"CopyTail"}, p)
  BY <1>2, <1>4 DEF Copying, Is, Copies
<1>9. /\ wire[p].kind = "dmx" => wire[p].index = read_index[p]
      /\ wire[p].kind = "dmx" /\ ~wire[p].copying =>
           Whole(data[p][wire[p].index], wire[p].head) /\ wire[p].index # w
  BY <1>8 DEF BuffersAt
<1> HIDE DEF w
<1>10. wire[p].kind = "dmx" /\ ~wire[p].copying => data'[p][wire[p].index] = data[p][wire[p].index]
  BY <1>6, <1>7, <1>9
<1> QED  BY <1>1, <1>4, <1>5, <1>7, <1>8, <1>9, <1>10 DEF BuffersAt, Whole, w

LEMMA TailKeeps ==
    ASSUME Types, NEW p, BuffersAt(p), NEW v, v = Cur.arg, CopyTail(p, v), ~Copying(p)'
    PROVE  BuffersAt(p)'
<1> DEFINE w == write_index[p]
<1>1. /\ Now("CopyTail", p) /\ data' = [data EXCEPT ![p][w].tail = v]
      /\ UNCHANGED <<sending, write_index, read_index>>
  BY DEF CopyTail
<1>2. p \in Port /\ Cur.op = "CopyTail" /\ Cur.port = p /\ Variables
  BY <1>1, NowIs DEF Types
<1>3. wire' = wire
  BY <1>1 DEF sending
<1>4. w \in {0, 1} /\ data[p] \in [{0, 1} -> Frame] /\ wire[p].index \in {0, 1}
  BY <1>2 DEF Variables, Wire
<1>5. /\ data'[p][w].tail = v /\ data'[p][w].head = data[p][w].head
      /\ \A i \in {0, 1} : i # w => data'[p][i] = data[p][i]
  BY <1>1, <1>2, <1>4 DEF Variables, Frame
<1>6. Copying(p) /\ Is(Cur, {"CopyTail"}, p) /\ ~Is(Cur', {"CopyTail"}, p)
  BY <1>2 DEF Copying, Is, Copies
<1>7. /\ wire[p].kind = "dmx" => wire[p].index = read_index[p]
      /\ wire[p].kind = "dmx" /\ ~wire[p].copying =>
           Whole(data[p][wire[p].index], wire[p].head) /\ wire[p].index # w
      /\ data[p][w].head = v
  BY <1>6 DEF BuffersAt
<1> HIDE DEF w
<1>8. wire[p].kind = "dmx" /\ ~wire[p].copying => data'[p][wire[p].index] = data[p][wire[p].index]
  BY <1>4, <1>5, <1>7
<1> QED  BY <1>1, <1>3, <1>5, <1>6, <1>7, <1>8 DEF BuffersAt, Whole, w

\* Blackout fills a buffer of a port that sends nothing.
LEMMA ClearKeeps ==
    ASSUME Types, TurnsInv, Ordered, NEW p, BuffersAt(p), NEW v, v = Cur.arg, Clear(p, v), ~Copying(p)'
    PROVE  BuffersAt(p)'
<1>1. /\ Now("Clear", p) /\ data' = [data EXCEPT ![p][0] = [head |-> v, tail |-> v]]
      /\ UNCHANGED <<sending, write_index, read_index>>
  BY DEF Clear
<1>2. p \in Port /\ Cur.op = "Clear" /\ Cur.port = p /\ Legal(Cur) /\ Variables
  BY <1>1, NowIs DEF Types
<1>3. wire' = wire /\ wire[p].kind # "dmx"
  <2>1. TurnsAt(p)
    BY <1>2 DEF Legal, Ordered, Tame, TurnsInv
  <2> QED  BY <1>1, <1>2, <2>1 DEF TurnsAt, FoundBy, PortIs, Is, sending
<1>4. write_index[p] \in {0, 1} /\ data[p] \in [{0, 1} -> Frame]
  BY <1>2 DEF Variables
<1>5. data'[p][0] = [head |-> v, tail |-> v] /\ data'[p][1] = data[p][1]
  BY <1>1, <1>2, <1>4 DEF Variables
<1>6. ~Copying(p) /\ ~Is(Cur', {"CopyTail"}, p)
  BY <1>2 DEF Copying, Is, Copies
<1>7. data'[p][write_index[p]].head = data'[p][write_index[p]].tail
  <2>1. data[p][write_index[p]].head = data[p][write_index[p]].tail
    BY <1>6 DEF BuffersAt
  <2> QED  BY <1>4, <1>5, <2>1
<1> QED  BY <1>1, <1>3, <1>6, <1>7 DEF BuffersAt

LEMMA MainStepBuffers ==
    ASSUME Types, TurnsInv, Ordered, \A p \in Port : BuffersAt(p), MainStep
    PROVE  \A p \in Port : BuffersAt(p)'
<1>1. PICK q \in Port, arg \in {Cur.arg} : q = Cur.port /\ arg = Cur.arg /\ Main(q, arg)
  BY MainIs
<1>2. Is(Cur', {"CopyHead", "CopyTail"}, q) \/ Cur'.op \notin Copies
  BY <1>1, NotCopying, TakeKeeps, HeadKeeps DEF Is
<1>3. Variables
  BY DEF Types
<1>4. ASSUME NEW p \in Port, p # q  PROVE BuffersAt(p)'
  <2>1. ~Copying(p) /\ ~Copying(p)'
    BY <1>1, <1>2, <1>4 DEF Copying, Is
  <2>2. wire' = wire
    BY <1>1, MainBuffers
  <2>3. data'[p] = data[p] /\ write_index'[p] = write_index[p] /\ read_index'[p] = read_index[p]
    <3>1. CASE UNCHANGED <<data, write_index, read_index>>
      BY <3>1
    <3>2. CASE TakeBuffer(q) \/ CopyHead(q, arg) \/ CopyTail(q, arg) \/ Clear(q, arg)
      BY <1>3, <1>4, <3>2 DEF TakeBuffer, CopyHead, CopyTail, Clear, Variables
    <3> QED  BY <1>1, <3>1, <3>2, MainBuffers
  <2>4. SameBuffers(p)
    BY <2>2, <2>3 DEF SameBuffers
  <2> QED  BY <2>1, <2>4, BuffersStay
<1>5. BuffersAt(q)'
  <2>1. CASE TakeBuffer(q) \/ CopyHead(q, arg)
    BY <1>1, <2>1, TakeKeeps, HeadKeeps
  <2>2. CASE ~TakeBuffer(q) /\ ~CopyHead(q, arg)
    <3>1. ~Copying(q)'
      BY <1>1, <2>2, NotCopying DEF Copying, Is
    <3>2. CASE CopyTail(q, arg) \/ Clear(q, arg)
      BY <1>1, <3>1, <3>2, TailKeeps, ClearKeeps
    <3>3. CASE ~CopyTail(q, arg) /\ ~Clear(q, arg)
      <4>1. ~Copying(q)
        <5>1. Cur.op \notin Copies
          <6>1. \A op : Now(op, q) => Cur.op = op
            BY NowIs
          <6> QED  BY <1>1, <2>2, <3>3, <6>1 DEF Main, SetPortDirection, DataEnable, DataDisable, Drain, StartDmxOutput,
                RdmTransmit, SetOutputStyle, Halt, Resume, StartSendStyleDirect, Sync, Fill, Start, Stop, Copies
        <5> QED  BY <5>1 DEF Copying, Is
      <4>2. SameBuffers(q)
        BY <1>1, <2>2, <3>3, MainBuffers DEF SameBuffers
      <4> QED  BY <3>1, <4>1, <4>2, BuffersStay
    <3> QED  BY <3>2, <3>3
  <2> QED  BY <2>1, <2>2
<1> QED  BY <1>4, <1>5

LEMMA InterruptBuffers ==
    ASSUME Types, NEW q \in Port, Interrupt(q), NEW p \in Port, BuffersAt(p)
    PROVE  BuffersAt(p)'
<1>1. todo' = todo /\ Variables
  BY DEF Interrupt, Types
<1>2. Cur' = Cur /\ (Copying(p)' <=> Copying(p))
  BY <1>1 DEF Cur, Copying
<1>3. CASE DmaStart(q)
  <2> DEFINE copying == Now("CopyHead", q) \/ Now("CopyTail", q)
             w == [kind |-> "dmx", index |-> write_index[q], head |-> data[q][write_index[q]].head, copying |-> copying]
  <2>1. wire' = [wire EXCEPT ![q] = w] /\ read_index' = [read_index EXCEPT ![q] = write_index[q]]
        /\ UNCHANGED <<data, write_index>>
    BY <1>3 DEF DmaStart
  <2>2. CASE p # q
    <3>1. wire'[p] = wire[p] /\ read_index'[p] = read_index[p]
      <4> HIDE DEF w
      <4> QED  BY <1>1, <2>1, <2>2 DEF Variables
    <3> QED  BY <1>2, <2>1, <3>1 DEF BuffersAt
  <2>3. CASE p = q
    <3>1. wire'[p] = w /\ read_index'[p] = write_index[p]
      <4> HIDE DEF w
      <4> QED  BY <1>1, <2>1, <2>3 DEF Variables
    <3>2. copying <=> Copying(p)
      <4>1. CASE todo = <<>>
        BY <4>1 DEF Now, Copying, Is, Copies, Cur, Nth, Done, Step
      <4>2. CASE todo # <<>>
        <5>1. Cur = Head(todo)
          BY <4>2, CurIs DEF Types
        <5> QED  BY <2>3, <4>2, <5>1 DEF Now, Copying, Is, Copies
      <4> QED  BY <4>1, <4>2
    <3>3. /\ wire'[p].index = write_index[p] /\ wire'[p].head = data[p][write_index[p]].head
          /\ wire'[p].copying = copying
      BY <2>3, <3>1
    <3>4. /\ ~Copying(p) => data[p][write_index[p]].head = data[p][write_index[p]].tail
          /\ Is(Cur, {"CopyTail"}, p) => data[p][write_index[p]].head = Cur.arg
      BY DEF BuffersAt
    <3> HIDE DEF w, copying
    <3> QED  BY <1>2, <2>1, <3>1, <3>2, <3>3, <3>4 DEF BuffersAt, Whole
  <2> QED  BY <2>2, <2>3
<1>4. CASE UNCHANGED <<wire, buffers>>
  BY <1>2, <1>4 DEF BuffersAt, buffers
<1>5. ASSUME NEW w, wire' = [wire EXCEPT ![q] = w], w.kind # "dmx", UNCHANGED buffers  PROVE BuffersAt(p)'
  <2>1. wire'[p] = wire[p] \/ wire'[p].kind # "dmx"
    BY <1>1, <1>5 DEF Variables
  <2>2. UNCHANGED <<data, write_index, read_index>>
    BY <1>5 DEF buffers
  <2> QED  BY <1>2, <2>1, <2>2 DEF BuffersAt
<1>6. CASE DmxTimer(q)
  BY <1>1, <1>3, <1>4, <1>6 DEF DmxTimer, Variables
<1>7. CASE RdmTimer(q)
  <2>1. \/ UNCHANGED <<wire, buffers>>
        \/ wire' = [wire EXCEPT ![q] = [Quiet EXCEPT !.kind = "rdm"]] /\ UNCHANGED buffers
    BY <1>1, <1>7 DEF RdmTimer, Variables
  <2>2. [Quiet EXCEPT !.kind = "rdm"].kind = "rdm"
    BY DEF Quiet
  <2> QED  BY <1>4, <1>5, <2>1, <2>2
<1>8. CASE DmaEnd(q)
  <2>1. wire' = [wire EXCEPT ![q] = Quiet] /\ UNCHANGED buffers
    BY <1>8 DEF DmaEnd
  <2>2. Quiet.kind = "none"
    BY DEF Quiet
  <2> QED  BY <1>5, <2>1, <2>2
<1> QED  BY <1>6, <1>7, <1>8 DEF Interrupt

LEMMA BuffersStep == Types /\ TurnsInv /\ BuffersInv /\ [Next]_vars => BuffersInv'
<1> SUFFICES ASSUME Types, TurnsInv, BuffersInv, [Next]_vars, Ordered'  PROVE \A p \in Port : BuffersAt(p)'
  BY DEF BuffersInv
<1>1. scenario' = scenario
  BY TypesKept
<1>2. Ordered /\ \A p \in Port : BuffersAt(p)
  BY <1>1 DEF Ordered, Occurs, BuffersInv
<1>3. CASE Calls
  <2>1. Called
    BY <1>3, CallsIs
  <2>2. UNCHANGED <<wire, data, write_index, read_index>>
    BY <2>1 DEF Called, sending, buffers
  <2>3. Cur = Done /\ Done.op = "end" /\ Cur'.op \in Begins \cup {"Stop", "SetOutputStyle"}
    <3>1. Cur = Done
      BY <2>1 DEF Called, Cur, Nth
    <3>2. Done.op = "end"
      BY DEF Done, Step
    <3> QED  BY <2>1, <3>1, <3>2 DEF Called
  <2>4. \A p \in Port : ~Copying(p) /\ ~Copying(p)' /\ SameBuffers(p)
    BY <2>2, <2>3 DEF Copying, Is, Copies, Begins, SameBuffers
  <2> QED  BY <1>2, <2>4, BuffersStay
<1>4. CASE MainStep
  BY <1>2, <1>4, MainStepBuffers
<1>5. CASE \E q \in Port : Interrupt(q)
  BY <1>2, <1>5, InterruptBuffers
<1>6. CASE UNCHANGED vars
  BY <1>2, <1>6 DEF vars, sending, buffers, BuffersAt, Copying, Cur, Nth, Is
<1> QED  BY <1>3, <1>4, <1>5, <1>6 DEF Next

LEMMA BuffersStart == Init => BuffersInv
<1> SUFFICES ASSUME Init, NEW p \in Port  PROVE BuffersAt(p)
  BY DEF BuffersInv
<1>1. Cur.op = "end"
  BY DEF Init, Cur, Nth, Done, Step
<1>2. wire[p].kind = "none"
  BY DEF Init, Quiet
<1>3. data[p][write_index[p]].head = data[p][write_index[p]].tail
  BY DEF Init
<1> QED  BY <1>1, <1>2, <1>3 DEF BuffersAt, Is

\* The buffer on the line is the one that is read and, unless its DMA began during a copy, holds
\* one frame as it was set; a copy that is under way goes to the other buffer.
THEOREM BuffersHold == Spec => []BuffersInv
<1>1. Types /\ TurnsInv /\ BuffersInv /\ [Next]_vars => BuffersInv'
  BY BuffersStep
<1> QED  BY <1>1, TurnsHold, BuffersStart, PTL DEF Spec

\* FrameWhole: a frame whose DMA starts while nothing is copied for the port goes out as it was set.
THEOREM FramesAreWhole == Spec => []FrameWhole
<1>1. BuffersInv => FrameWhole
  BY DEF BuffersInv, Ordered, BuffersAt, Whole, FrameWhole
<1> QED  BY <1>1, BuffersHold, PTL
-----------------------------------------------------------------------------
(* A port that is stopped, when requests may come at any time.             *)
WillStart(p) == \E s \in Left : Is(s, {"Start"}, p)

StopsAt(p) ==
    /\ port_state[p] = "kTx" => direction[p] = "kOutput"
    /\ state[p] # "kIdle" => port_state[p] # "kIdle" \/ Is(Cur, {"Drain"}, p)
    /\ state[p] # "kIdle" /\ Is(Cur, {"DataDisable"}, p) => direction[p] = "kOutput"
    /\ Is(Cur, {"StartDmxOutput"}, p) => port_state[p] # "kIdle"
    /\ state[p] # "kIdle" \/ Is(Cur, {"StartDmxOutput"}, p) =>
          p \in started \/ WillStart(p) \/ Off(Cur, p) \/ Is(Cur, Waits, p)
    /\ Is(Cur, {"Drain"}, p) => port_state[p] # "kTx"
    /\ ~Occurs("fill") => /\ port_state[p] = "kTx" => p \in started \/ Stopping(p)
                          /\ Enabling(p) => p \in started

\* A port that Blackout enables is not started by ArtSync then.
Apart    == ~Occurs("style") /\ ~(Occurs("sync") /\ Occurs("fill"))
StopsInv == Apart => \A p \in Port : StopsAt(p)

\* What the main loop knows of the port it is at, and what it has to see to.
Known(p) == /\ Types /\ Apart /\ StopsAt(p) /\ Cur.port = p /\ scenario' = scenario
            /\ WillStart(p) => WillStart(p)' \/ Cur.op = "Start"
Stops(p) == StopsAt(p)' /\ (Cur'.port = p \/ Cur'.op \in Begins)

LEMMA KnownIs ==
    ASSUME NEW p, Known(p), NEW op, Now(op, p)
    PROVE  /\ p \in Port /\ Variables /\ Cur.op = op /\ Cur.port = p /\ Follows(Cur, After) /\ Legal(Cur) /\ Types
           /\ After = Done \/ Legal(After)
           /\ StopsAt(p) /\ ~Occurs("style") /\ scenario' = scenario
           /\ (op \notin Parts /\ ~Off(Cur, p) => After.op \in Begins)
           /\ (After # Done => After \in Left) /\ (Occurs("fill")' <=> Occurs("fill"))
           /\ (op # "Start" /\ WillStart(p) => WillStart(p)')
<1>1. /\ p \in Port /\ Cur.op = op /\ Cur.port = p /\ Follows(Cur, After) /\ Legal(Cur) /\ After \in AnyStep
      /\ (After # Done => After \in Left)
  BY NowIs DEF Known
<1>2. After = Done \/ Legal(After)
  BY <1>1, StepFields DEF AnyStep
<1>3. op \notin Parts /\ ~Off(Cur, p) => After.op \in Begins
  BY <1>1 DEF Follows
<1> QED  BY <1>1, <1>2, <1>3 DEF Known, Types, Apart, Occurs

\* A step that has nothing to do with starting and stopping.
LEMMA AsideStops ==
    ASSUME NEW p, StopsAt(p), SameAt(p), scenario' = scenario, Cur.port = p => Cur.op \in Aside \cup {"StartSendStyleDirect", "RdmTransmit"},
           WillStart(p) => WillStart(p)' \/ p \in started, Cur'.port = p => Cur'.op \in Aside \cup {"Stop"}
    PROVE  StopsAt(p)'
<1>1. /\ ~Stopping(p) /\ ~Stopping(p)' /\ ~Enabling(p)' /\ ~Off(Cur, p) /\ ~Is(Cur, {"Drain"}, p) /\ ~Is(Cur, Waits, p)
      /\ ~Is(Cur', {"Drain"}, p) /\ ~Is(Cur', {"DataDisable"}, p) /\ ~Is(Cur', {"StartDmxOutput"}, p)
  BY DEF Stopping, Enabling, Off, Is, Begins, Waits, Aside
<1>2. /\ port_state'[p] = port_state[p] /\ direction'[p] = direction[p] /\ state'[p] = state[p]
      /\ (p \in started' <=> p \in started) /\ (Occurs("fill")' <=> Occurs("fill"))
  BY DEF SameAt, Occurs
<1>3. /\ port_state[p] = "kTx" => direction[p] = "kOutput"
      /\ state[p] # "kIdle" => port_state[p] # "kIdle"
      /\ state[p] # "kIdle" => p \in started \/ WillStart(p)'
      /\ ~Occurs("fill") => (port_state[p] = "kTx" => p \in started)
  BY <1>1 DEF StopsAt
<1> QED  BY <1>1, <1>2, <1>3 DEF StopsAt

LEMMA DirectionStops ==
    ASSUME NEW p, Known(p), NEW enable, enable = Cur.arg, SetPortDirection(p, enable)
    PROVE  Stops(p)
<1>1. /\ Now("SetPortDirection", p) /\ direction' = [direction EXCEPT ![p] = "kOutput"]
      /\ UNCHANGED <<port_state, styles, sending, buffers, started>>
  BY DEF SetPortDirection
<1>2. /\ p \in Port /\ StopsAt(p) /\ Follows(Cur, After) /\ Variables /\ Types
      /\ Cur.port = p /\ Cur.op = "SetPortDirection" /\ (Occurs("fill")' <=> Occurs("fill"))
      /\ (WillStart(p) => WillStart(p)')
  BY <1>1, KnownIs
<1>3. direction'[p] = "kOutput" /\ state' = state
  BY <1>1, <1>2 DEF Variables, sending
<1>4. CASE enable = FALSE
  <2>1. Moved(<<Step("DataDisable", p, "")>>)
    BY <1>2, <1>4, DirectionMoves
  <2>2. Cur' = Step("DataDisable", p, "") /\ After' = After
    BY <2>1, MovedIs
  <2>3. Cur'.op = "DataDisable" /\ Cur'.port = p /\ Off(Cur, p)
    BY <1>2, <1>4, <2>2 DEF Off, Is, Step
  <2>4. Off(After, p) \/ Is(After, {"RdmTransmit"}, p)
    BY <1>2, <2>3 DEF Follows
  <2>5. Stopping(p)' /\ ~Enabling(p)' /\ Is(Cur', Waits, p) /\ ~Is(Cur', {"Drain", "StartDmxOutput"}, p)
    BY <2>2, <2>3, <2>4 DEF Stopping, Enabling, Off, Is, Waits
  <2> QED  BY <1>1, <1>2, <1>3, <2>3, <2>5 DEF Stops, StopsAt, Is
<1>5. CASE enable = TRUE
  <2>1. Enabling(p) /\ ~Off(Cur, p) /\ ~Is(Cur, Waits, p) /\ ~Stopping(p)
    BY <1>2, <1>5 DEF Enabling, Stopping, Off, Is, Waits
  <2>2. \/ Cur' = Step("DataDisable", p, "") /\ After' = Step("DataEnable", p, "")
        \/ Cur' = Step("DataEnable", p, "")
    <3>1. CASE direction[p] # "kOutput"
      <4>1. Moved(<<Step("DataDisable", p, ""), Step("DataEnable", p, "")>>)
        BY <1>2, <1>5, <3>1, DirectionMoves
      <4> QED  BY <4>1, MovedIs
    <3>2. CASE direction[p] = "kOutput"
      <4>1. Moved(<<Step("DataEnable", p, "")>>)
        BY <1>2, <1>5, <3>2, DirectionMoves
      <4> QED  BY <4>1, MovedIs
    <3> QED  BY <3>1, <3>2
  <2>3. Cur'.op \in {"DataDisable", "DataEnable"} /\ Cur'.port = p
    <3>1. \A op : Step(op, p, "").op = op /\ Step(op, p, "").port = p
      BY DEF Step
    <3> QED  BY <2>2, <3>1
  <2>4. state[p] # "kIdle" => p \in started \/ WillStart(p)'
    BY <1>2, <2>1 DEF StopsAt
  <2>5. /\ port_state[p] = "kTx" => direction[p] = "kOutput"
        /\ state[p] # "kIdle" => port_state[p] # "kIdle"
        /\ ~Occurs("fill") => p \in started
    BY <1>2, <2>1 DEF StopsAt, Is
  <2> QED  BY <1>1, <1>2, <1>3, <2>3, <2>4, <2>5 DEF Stops, StopsAt, Is
<1>6. enable = TRUE \/ enable = FALSE
  <2>1. Cur.arg \in BOOLEAN
    BY <1>1, <1>2, NowIs
  <2> QED  BY <2>1
<1> QED  BY <1>4, <1>5, <1>6

LEMMA EnableStops ==
    ASSUME NEW p, Known(p), DataEnable(p)
    PROVE  Stops(p)
<1>1. Now("DataEnable", p)
  BY DEF DataEnable
<1>2. /\ p \in Port /\ StopsAt(p) /\ Variables /\ Types /\ Cur.port = p /\ Cur.op = "DataEnable"
      /\ (Occurs("fill")' <=> Occurs("fill")) /\ (WillStart(p) => WillStart(p)')
  BY <1>1, KnownIs
<1>3. UNCHANGED <<direction, started>>
  BY DEF DataEnable
<1>4. Enabling(p) /\ ~Off(Cur, p) /\ ~Is(Cur, Waits, p)
  BY <1>2 DEF Enabling, Off, Is, Waits
<1>5. CASE direction[p] = "kOutput"
  <2>1. port_state'[p] = "kTx" /\ state'[p] = "kIdle"
    BY <1>2, <1>5 DEF DataEnable, Variables
  <2>2. Moved(<<Step("SetOutputStyle", p, output_style[p])>>)
    BY <1>2, <1>5, EnableMoves
  <2>3. Cur'.op = "SetOutputStyle" /\ Cur'.port = p
    <3>1. Cur' = Step("SetOutputStyle", p, output_style[p])
      BY <2>2, MovedIs
    <3> QED  BY <3>1 DEF Step
  <2>4. ~Enabling(p)'
    BY <2>3 DEF Enabling, Is, Waits
  <2>5. ~Occurs("fill") => p \in started
    BY <1>2, <1>4 DEF StopsAt
  <2> QED  BY <1>2, <1>3, <1>5, <2>1, <2>3, <2>4, <2>5 DEF Stops, StopsAt, Is
<1>6. CASE direction[p] # "kOutput"
  <2>1. port_state'[p] = "kRx" /\ state' = state
    BY <1>2, <1>6 DEF DataEnable, Variables
  <2>2. Moved(<<>>)
    BY <1>2, <1>6, EnableMoves
  <2>3. Cur' = After
    BY <2>2, MovedIs
  <2>4. After.op \in Begins
    <3>1. Follows(Cur, After)
      BY <1>1, KnownIs
    <3> QED  BY <1>2, <3>1 DEF Follows, Off, Is, Parts, Waits
  <2>5. ~Enabling(p)'
    BY <2>3, <2>4 DEF Enabling, Is, Waits, Begins
  <2>6. state[p] # "kIdle" => p \in started \/ WillStart(p)'
    BY <1>2, <1>4 DEF StopsAt
  <2> QED  BY <1>2, <1>3, <1>6, <2>1, <2>3, <2>4, <2>5, <2>6 DEF Stops, StopsAt, Is, Begins
<1> QED  BY <1>5, <1>6

\* The end of a wait, with the output idle.
LEMMA WaitStops ==
    ASSUME NEW p, Known(p), NEW op \in Waits, Now(op, p), Cur' = After, p \in started' <=> p \in started,
           port_state'[p] # "kTx", state'[p] = "kIdle"
    PROVE  Stops(p)
<1>1. /\ StopsAt(p) /\ Cur.op = op /\ Cur.port = p /\ Follows(Cur, After) /\ (Occurs("fill")' <=> Occurs("fill"))
      /\ (After = Done \/ Legal(After)) /\ ~Occurs("style")
  BY KnownIs DEF Waits
<1>2. After.op \notin {"Halt", "Resume"}
  <2>1. Done.op = "end"
    BY DEF Done, Step
  <2>2. Legal(After) => After.op \notin {"Halt", "Resume"}
    BY <1>1 DEF Legal
  <2> QED  BY <1>1, <2>1, <2>2
<1>3. Is(After, {"DataEnable", "Clear", "RdmTransmit"}, p) \/ Off(After, p)
  BY <1>1, <1>2 DEF Follows
<1>4. Enabling(p)' => Enabling(p)
  BY <1>1, <1>3 DEF Enabling, Is, Off, Waits
<1>5. ~Occurs("fill") => (Enabling(p)' => p \in started')
  BY <1>1, <1>4 DEF StopsAt
<1> QED  BY <1>1, <1>3, <1>5 DEF Stops, StopsAt, Is, Off

LEMMA DisableStops ==
    ASSUME NEW p, Known(p), DataDisable(p)
    PROVE  Stops(p)
<1>1. /\ Now("DataDisable", p) /\ port_state' = [port_state EXCEPT ![p] = "kIdle"]
      /\ UNCHANGED <<direction, styles, sending, buffers, started>>
  BY DEF DataDisable
<1>2. /\ p \in Port /\ StopsAt(p) /\ Variables /\ Types /\ Cur.port = p /\ Cur.op = "DataDisable"
      /\ (Occurs("fill")' <=> Occurs("fill")) /\ (WillStart(p) => WillStart(p)')
  BY <1>1, KnownIs
<1>3. port_state'[p] = "kIdle" /\ state' = state
  BY <1>1, <1>2 DEF Variables, sending
<1>4. CASE port_state[p] # "kIdle" /\ direction[p] = "kOutput"
  <2>1. Moved(<<Step("Drain", p, "")>>)
    BY <1>2, <1>4, DisableMoves
  <2>2. Cur'.op = "Drain" /\ Cur'.port = p /\ After' = After
    <3>1. Cur' = Step("Drain", p, "") /\ After' = After
      BY <2>1, MovedIs
    <3> QED  BY <3>1 DEF Step
  <2>3. Enabling(p)' <=> Enabling(p)
    BY <1>2, <2>2 DEF Enabling, Off, Is, Waits
  <2>4. Is(Cur', Waits, p)
    BY <2>2 DEF Is, Waits
  <2>5. ~Occurs("fill") => (Enabling(p)' => p \in started)
    BY <1>2, <2>3 DEF StopsAt
  <2> QED  BY <1>1, <1>2, <1>3, <2>2, <2>4, <2>5 DEF Stops, StopsAt, Is
<1>5. CASE ~(port_state[p] # "kIdle" /\ direction[p] = "kOutput")
  <2>1. Moved(<<>>)
    BY <1>2, <1>5, DisableMoves
  <2>2. Cur' = After
    BY <2>1, MovedIs
  <2>3. state[p] = "kIdle"
    BY <1>2, <1>5 DEF StopsAt, Is
  <2> QED  BY <1>1, <1>3, <2>2, <2>3, WaitStops DEF Waits
<1> QED  BY <1>4, <1>5

LEMMA DrainStops ==
    ASSUME NEW p, Known(p), Drain(p)
    PROVE  Stops(p)
<1>1. Now("Drain", p) /\ state' = [state EXCEPT ![p] = "kIdle"] /\ UNCHANGED <<ports, started>>
  BY DEF Drain
<1>2. /\ p \in Port /\ StopsAt(p) /\ Variables /\ Types /\ Cur.port = p /\ Cur.op = "Drain"
      /\ Occurs("fill")' <=> Occurs("fill")
  BY <1>1, KnownIs
<1>3. state'[p] = "kIdle" /\ port_state'[p] # "kTx"
  BY <1>1, <1>2 DEF Variables, ports, StopsAt, Is
<1>4. Cur' = After
  BY <1>2, LastMoves, MovedIs
<1> QED  BY <1>1, <1>3, <1>4, WaitStops DEF Waits

LEMMA OutputStops ==
    ASSUME NEW p, Known(p), StartDmxOutput(p)
    PROVE  Stops(p)
<1>1. /\ Now("StartDmxOutput", p) /\ state' = [state EXCEPT ![p] = "kDmxBreak"] /\ UNCHANGED <<ports, started>>
  BY DEF StartDmxOutput
<1>2. /\ p \in Port /\ StopsAt(p) /\ Variables /\ Types /\ Cur.port = p /\ Cur.op = "StartDmxOutput"
      /\ (Occurs("fill")' <=> Occurs("fill")) /\ (WillStart(p) => WillStart(p)') /\ Follows(Cur, After)
  BY <1>1, KnownIs
<1>3. UNCHANGED <<port_state, direction>>
  BY <1>1 DEF ports
<1>4. Cur' = After
  BY <1>2, LastMoves, MovedIs
<1>5. After.op \in Begins /\ ~Off(Cur, p) /\ ~Is(Cur, Waits, p) /\ ~Stopping(p)
  BY <1>2 DEF Follows, Stopping, Off, Is, Parts, Waits
<1>6. ~Enabling(p)'
  BY <1>4, <1>5 DEF Enabling, Is, Waits, Begins
<1> QED  BY <1>1, <1>2, <1>3, <1>4, <1>5, <1>6 DEF Stops, StopsAt, Is, Begins

\* The steps that are about the data, the style and the request.
LEMMA DataStops ==
    ASSUME NEW p, Known(p), NEW arg, arg = Cur.arg,
           TakeBuffer(p) \/ CopyHead(p, arg) \/ CopyTail(p, arg) \/ SetOutputStyle(p, arg)
    PROVE  Stops(p)
<1>1. PICK op \in {"TakeBuffer", "CopyHead", "CopyTail", "SetOutputStyle"} : Now(op, p)
  BY DEF TakeBuffer, CopyHead, CopyTail, SetOutputStyle
<1>2. /\ StopsAt(p) /\ Types /\ Cur.port = p /\ Cur.op = op /\ ~Occurs("style") /\ scenario' = scenario
      /\ (WillStart(p) => WillStart(p)') /\ Follows(Cur, After)
  BY <1>1, KnownIs
<1>3. Cur' = After
  <2>1. Moved(<<>>)
    BY <1>2, LastMoves, StyleMoves
  <2> QED  BY <2>1, MovedIs
<1>4. (After.port = p \/ After.op \in Begins) /\ After.op \in Aside
  BY <1>2 DEF Follows, Parts, Off, Is, Waits, Aside, Step
<1>5. SameAt(p)
  BY DEF SameAt, TakeBuffer, CopyHead, CopyTail, SetOutputStyle, ports, sending, styles, buffers
<1>6. Cur.op \in Aside
  BY <1>2 DEF Aside, Begins
<1>7. StopsAt(p)'
  BY <1>2, <1>3, <1>4, <1>5, <1>6, AsideStops
<1> QED  BY <1>3, <1>4, <1>7 DEF Stops

LEMMA TransmitStops ==
    ASSUME NEW p, Known(p), RdmTransmit(p)
    PROVE  Stops(p)
<1>1. Now("RdmTransmit", p) /\ UNCHANGED <<ports, state, wire, started>>
  BY DEF RdmTransmit
<1>2. /\ p \in Port /\ StopsAt(p) /\ Variables /\ Types /\ Cur.port = p /\ Cur.op = "RdmTransmit"
      /\ (Occurs("fill")' <=> Occurs("fill")) /\ (WillStart(p) => WillStart(p)') /\ Follows(Cur, After)
  BY <1>1, KnownIs
<1>3. UNCHANGED <<port_state, direction>>
  BY <1>1 DEF ports
<1>4. Cur' = Done /\ Done.op = "end"
  <2>1. After = Done
    BY <1>2 DEF Follows
  <2>2. Cur' = After
    BY <1>2, LastMoves, MovedIs
  <2> QED  BY <2>1, <2>2 DEF Done, Step
<1>5. ~Off(Cur, p) /\ ~Is(Cur, Waits, p) /\ ~Stopping(p) /\ ~Enabling(p)'
  BY <1>2, <1>4 DEF Stopping, Enabling, Off, Is, Waits
<1> QED  BY <1>1, <1>2, <1>3, <1>4, <1>5 DEF Stops, StopsAt, Is, Begins

\* The steps that may start the output: of ArtDmx, which starts the port as well, and of ArtSync.
LEMMA SendStops ==
    ASSUME NEW p, Known(p), StartSendStyleDirect(p) \/ Sync(p)
    PROVE  Stops(p)
<1>1. PICK op \in {"StartSendStyleDirect", "Sync"} : Now(op, p) /\ (op = "StartSendStyleDirect" \/ Sync(p))
  BY DEF StartSendStyleDirect, Sync
<1>2. /\ StopsAt(p) /\ Types /\ Cur.port = p /\ Cur.op = op /\ scenario' = scenario /\ Legal(Cur) /\ p \in Port
      /\ (WillStart(p) => WillStart(p)') /\ Follows(Cur, After) /\ (After # Done => After \in Left)
  BY <1>1, KnownIs
<1>3. SameAt(p)
  BY DEF SameAt, StartSendStyleDirect, Sync, ports, sending, styles, buffers
<1>4. After.op \in Begins
  BY <1>2 DEF Follows, Parts, Off, Is, Waits, Begins
<1>5. (MayStart(p) /\ Moved(<<Step("StartDmxOutput", p, "")>>)) \/ Moved(<<>>)
  BY <1>2, StartMoves
<1>6. CASE Moved(<<>>)
  <2>1. Cur' = After
    BY <1>6, MovedIs
  <2>2. StopsAt(p)'
    BY <1>2, <1>3, <1>4, <2>1, AsideStops DEF Aside, Begins
  <2> QED  BY <1>4, <2>1, <2>2 DEF Stops
<1>7. CASE MayStart(p) /\ Moved(<<Step("StartDmxOutput", p, "")>>)
  <2>1. Cur'.op = "StartDmxOutput" /\ Cur'.port = p
    <3>1. Cur' = Step("StartDmxOutput", p, "")
      BY <1>7, MovedIs
    <3> QED  BY <3>1 DEF Step
  <2>2. port_state[p] = "kTx" /\ ~Stopping(p) /\ ~Off(Cur, p) /\ ~Is(Cur, Waits, p) /\ ~Enabling(p)'
    BY <1>2, <1>7, <2>1 DEF MayStart, Stopping, Enabling, Off, Is, Waits
  <2>3. p \in started \/ WillStart(p)'
    <3>1. CASE op = "StartSendStyleDirect"
      <4>1. Is(After, {"Start"}, p)
        BY <1>2, <3>1 DEF Follows
      <4>2. After # Done
        <5>1. Done.op = "end"
          BY DEF Done, Step
        <5> QED  BY <4>1, <5>1 DEF Is
      <4> QED  BY <1>2, <4>1, <4>2 DEF WillStart
    <3>2. CASE op = "Sync"
      <4>1. ~Occurs("fill")
        BY <1>2, <3>2 DEF Legal, Known, Apart
      <4> QED  BY <1>2, <2>2, <4>1 DEF StopsAt
    <3> QED  BY <3>1, <3>2
  <2>4. (Occurs("fill")' <=> Occurs("fill")) /\ (port_state[p] = "kTx" => direction[p] = "kOutput")
    BY <1>2 DEF Occurs, StopsAt
  <2>5. StopsAt(p)'
    <3>1. ~Occurs("fill") => p \in started
      BY <1>2, <2>2 DEF StopsAt
    <3> QED  BY <1>3, <2>1, <2>2, <2>3, <2>4, <3>1 DEF SameAt, StopsAt, Is
  <2> QED  BY <2>1, <2>5 DEF Stops
<1> QED  BY <1>5, <1>6, <1>7

LEMMA FillStops ==
    ASSUME NEW p, Known(p), NEW arg, arg = Cur.arg, Fill(p, arg)
    PROVE  Stops(p)
<1>1. Now("Fill", p) /\ UNCHANGED <<ports, styles, sending, buffers, started>>
  BY DEF Fill
<1>2. /\ StopsAt(p) /\ Types /\ Cur.port = p /\ Cur.op = "Fill" /\ scenario' = scenario /\ Legal(Cur)
      /\ (WillStart(p) => WillStart(p)') /\ Follows(Cur, After)
  BY <1>1, KnownIs
<1>3. SameAt(p)
  BY <1>1 DEF SameAt, ports, sending
<1>4. CASE direction[p] # "kOutput"
  <2>1. Cur' = After
    BY <1>2, <1>4, FillMoves, MovedIs
  <2>2. After.op \in Begins
    BY <1>2 DEF Follows, Parts, Off, Is, Waits
  <2>3. StopsAt(p)'
    BY <1>2, <1>3, <2>1, <2>2, AsideStops DEF Aside, Begins
  <2> QED  BY <2>1, <2>2, <2>3 DEF Stops
<1>5. CASE direction[p] = "kOutput"
  <2>1. Moved(<<Step("DataDisable", p, ""), Step("Clear", p, arg), Step("DataEnable", p, "")>>)
    BY <1>2, <1>5, FillMoves
  <2>2. Cur'.op = "DataDisable" /\ Cur'.port = p
    <3>1. Cur' = Step("DataDisable", p, "")
      BY <2>1, MovedIs
    <3> QED  BY <3>1 DEF Step
  <2>3. Occurs("fill")' /\ Is(Cur', Waits, p)
    BY <1>2, <2>2 DEF Legal, Occurs, Is, Waits
  <2>4. state[p] # "kIdle" => port_state[p] # "kIdle"
    BY <1>2 DEF StopsAt, Is
  <2>5. StopsAt(p)'
    BY <1>3, <1>5, <2>2, <2>3, <2>4 DEF SameAt, StopsAt, Is
  <2> QED  BY <2>2, <2>5 DEF Stops
<1> QED  BY <1>4, <1>5

LEMMA ClearStops ==
    ASSUME NEW p, Known(p), NEW arg, Clear(p, arg)
    PROVE  Stops(p)
<1>1. Now("Clear", p) /\ UNCHANGED <<ports, styles, sending, write_index, read_index, data_pending, started>>
  BY DEF Clear
<1>2. /\ StopsAt(p) /\ Types /\ Cur.port = p /\ Cur.op = "Clear" /\ scenario' = scenario /\ Legal(Cur)
      /\ (WillStart(p) => WillStart(p)') /\ Follows(Cur, After)
  BY <1>1, KnownIs
<1>3. Cur' = After /\ Is(After, {"DataEnable"}, p)
  BY <1>2, LastMoves, MovedIs DEF Follows
<1>4. Occurs("fill")' /\ ~Off(Cur, p) /\ ~Is(Cur, Waits, p)
  BY <1>2 DEF Legal, Occurs, Off, Is, Waits
<1> QED  BY <1>1, <1>2, <1>3, <1>4 DEF Stops, StopsAt, Is, ports, sending

LEMMA StartStops ==
    ASSUME NEW p, Known(p), Start(p)
    PROVE  Stops(p)
<1>1. Now("Start", p) /\ started' = started \cup {p} /\ UNCHANGED <<ports, styles, sending, buffers>>
  BY DEF Start
<1>2. /\ StopsAt(p) /\ Types /\ Cur.port = p /\ Cur.op = "Start" /\ scenario' = scenario /\ Follows(Cur, After)
      /\ (Occurs("fill")' <=> Occurs("fill"))
  BY <1>1, KnownIs
<1>3. CASE p \in started
  <2>1. Cur' = After
    BY <1>2, <1>3, StartMoves, MovedIs
  <2>2. SameAt(p)
    BY <1>1, <1>3 DEF SameAt, ports, sending
  <2>3. After.op \in Begins
    BY <1>2 DEF Follows, Parts, Off, Is, Waits
  <2>4. StopsAt(p)'
    BY <1>2, <1>3, <2>1, <2>2, <2>3, AsideStops DEF Aside, Begins
  <2> QED  BY <2>1, <2>3, <2>4 DEF Stops
<1>4. CASE p \notin started
  <2>1. Moved(<<Step("SetPortDirection", p, TRUE)>>)
    BY <1>2, <1>4, StartMoves
  <2>2. Cur'.op = "SetPortDirection" /\ Cur'.port = p
    <3>1. Cur' = Step("SetPortDirection", p, TRUE)
      BY <2>1, MovedIs
    <3> QED  BY <3>1 DEF Step
  <2> QED  BY <1>1, <1>2, <2>2 DEF Stops, StopsAt, Is, ports, sending
<1> QED  BY <1>3, <1>4

LEMMA StopStops ==
    ASSUME NEW p, Known(p), Stop(p)
    PROVE  Stops(p)
<1>1. Now("Stop", p) /\ UNCHANGED <<ports, styles, sending, buffers>>
  BY DEF Stop
<1>2. /\ StopsAt(p) /\ Types /\ Cur.port = p /\ Cur.op = "Stop" /\ Follows(Cur, After)
  BY <1>1, KnownIs
<1>3. Off(Cur', p)
  <2>1. Off(After, p)
    BY <1>2 DEF Follows
  <2>2. Off(Step("SetPortDirection", p, FALSE), p)
    BY DEF Off, Is, Step
  <2> QED  BY <1>2, <2>1, <2>2, StopMoves, MovedIs
<1>4. Stopping(p)' /\ ~Enabling(p)'
  BY <1>3 DEF Stopping, Enabling, Off, Is, Waits
<1>5. UNCHANGED <<port_state, direction, state>>
  BY <1>1 DEF ports, sending
<1>6. /\ port_state[p] = "kTx" => direction[p] = "kOutput"
      /\ state[p] # "kIdle" => port_state[p] # "kIdle"
  BY <1>2 DEF StopsAt, Is
<1> QED  BY <1>3, <1>4, <1>5, <1>6 DEF Stops, StopsAt, Off, Is

LEMMA MainStops ==
    ASSUME NEW p, Known(p), NEW arg, arg = Cur.arg, Main(p, arg)
    PROVE  Stops(p)
<1>1. ~Halt(p) /\ ~Resume(p)
  BY KnownIs DEF Halt, Resume, Legal
<1> QED  BY <1>1, DirectionStops, EnableStops, DisableStops, DrainStops, OutputStops, TransmitStops, DataStops,
            SendStops, FillStops, ClearStops, StartStops, StopStops DEF Main

LEMMA MainStepStops ==
    ASSUME Types, Apart, \A p \in Port : StopsAt(p), MainStep
    PROVE  \A p \in Port : StopsAt(p)'
<1>1. PICK q \in Port, arg \in {Cur.arg} : q = Cur.port /\ arg = Cur.arg /\ Main(q, arg) /\ scenario' = scenario
  BY MainIs
<1>2. \A s \in Left : s = Cur \/ s \in Left'
  BY <1>1, MainMoves
<1>3. ASSUME NEW p, WillStart(p)  PROVE WillStart(p)' \/ (p = q /\ Cur.op = "Start")
  <2>1. PICK s \in Left : Is(s, {"Start"}, p)
    BY <1>3 DEF WillStart
  <2>2. CASE s \in Left'
    BY <2>1, <2>2 DEF WillStart
  <2>3. CASE s = Cur
    BY <1>1, <2>1, <2>3 DEF Is
  <2> QED  BY <1>2, <2>2, <2>3
<1>4. Known(q)
  BY <1>1, <1>3 DEF Known
<1>5. Stops(q)
  BY <1>1, <1>4, MainStops
<1>6. ASSUME NEW p \in Port, p # q  PROVE StopsAt(p)'
  <2>1. SameAt(p)
    BY <1>1, <1>6, MainAside
  <2>2. Cur.port # p /\ (Cur'.port = p => Cur'.op \in Aside)
    BY <1>1, <1>5, <1>6 DEF Stops, Aside
  <2> QED  BY <1>1, <1>3, <1>6, <2>1, <2>2, AsideStops
<1> QED  BY <1>5, <1>6 DEF Stops

LEMMA InterruptStops ==
    ASSUME Types, Apart, NEW q \in Port, Interrupt(q), NEW p \in Port, StopsAt(p)
    PROVE  StopsAt(p)'
<1>1. UNCHANGED <<started, todo, scenario>> /\ Variables
  BY DEF Interrupt, Types
<1>2. /\ Cur' = Cur /\ After' = After /\ (Stopping(p)' <=> Stopping(p)) /\ (Enabling(p)' <=> Enabling(p))
      /\ (WillStart(p)' <=> WillStart(p)) /\ (Occurs("fill")' <=> Occurs("fill"))
  BY <1>1 DEF Cur, After, Left, Stopping, Enabling, WillStart, Occurs
<1>3. CASE p # q
  <2>1. SameAt(p)
    BY <1>3, InterruptAside
  <2> QED  BY <1>1, <1>2, <2>1 DEF SameAt, StopsAt
<1>4. CASE p = q
  <2>1. state'[p] # "kIdle" => state[p] # "kIdle"
    <3>1. CASE DmxTimer(p)
      BY <3>1 DEF DmxTimer
    <3>2. CASE RdmTimer(p)
      BY <3>2 DEF RdmTimer
    <3>3. CASE DmaEnd(p)
      <4>1. state[p] = "kIdle" => state' = state
        BY <3>3 DEF DmaEnd
      <4> QED  BY <4>1
    <3> QED  BY <1>4, <3>1, <3>2, <3>3 DEF Interrupt
  <2>2. \/ UNCHANGED <<port_state, direction>>
        \/ state'[p] = "kIdle" /\ port_state'[p] = "kRx"
    <3>1. CASE DmxTimer(p)
      BY <3>1 DEF DmxTimer, ports
    <3>2. CASE RdmTimer(p)
      BY <1>1, <3>2 DEF RdmTimer, ports, Variables
    <3>3. CASE DmaEnd(p)
      BY <3>3 DEF DmaEnd, ports
    <3> QED  BY <1>4, <3>1, <3>2, <3>3 DEF Interrupt
  <2>3. CASE UNCHANGED <<port_state, direction>>
    BY <1>1, <1>2, <2>1, <2>3 DEF StopsAt
  <2>4. CASE state'[p] = "kIdle" /\ port_state'[p] = "kRx"
    BY <1>1, <1>2, <2>4 DEF StopsAt
  <2> QED  BY <2>2, <2>3, <2>4
<1> QED  BY <1>3, <1>4

LEMMA StopsStep == Types /\ StopsInv /\ [Next]_vars => StopsInv'
<1> SUFFICES ASSUME Types, StopsInv, [Next]_vars, Apart'  PROVE \A p \in Port : StopsAt(p)'
  BY DEF StopsInv
<1>1. scenario' = scenario
  BY TypesKept
<1>2. Apart /\ \A p \in Port : StopsAt(p)
  BY <1>1 DEF Apart, Occurs, StopsInv
<1>3. CASE Calls
  <2>1. Called
    BY <1>3, CallsIs
  <2>2. UNCHANGED <<port_state, direction, state, rdm, timer, wire, started>>
    BY <2>1 DEF Called, ports, sending
  <2>3. Cur = Done /\ Done.op = "end" /\ Cur'.op \in Begins \cup {"Stop", "SetOutputStyle"} /\ Left = {}
    <3>1. Cur = Done /\ Left = {}
      BY <2>1 DEF Called, Cur, Nth, Left
    <3>2. Done.op = "end"
      BY DEF Done, Step
    <3> QED  BY <2>1, <3>1, <3>2 DEF Called
  <2>4. \A p \in Port : SameAt(p) /\ ~WillStart(p)
    BY <2>2, <2>3 DEF SameAt, WillStart
  <2>5. Cur.op \in Aside /\ Cur'.op \in Aside \cup {"Stop"}
    BY <2>3 DEF Aside, Begins
  <2> QED  BY <1>1, <1>2, <2>4, <2>5, AsideStops
<1>4. CASE MainStep
  BY <1>2, <1>4, MainStepStops
<1>5. CASE \E q \in Port : Interrupt(q)
  BY <1>2, <1>5, InterruptStops
<1>6. CASE UNCHANGED vars
  BY <1>2, <1>6 DEF vars, ports, sending, StopsAt, Stopping, Enabling, WillStart, Cur, After, Left, Occurs, Nth, Is, Off
<1> QED  BY <1>3, <1>4, <1>5, <1>6 DEF Next

LEMMA StopsStart == Init => StopsInv
<1> SUFFICES ASSUME Init, NEW p \in Port  PROVE StopsAt(p)
  BY DEF StopsInv
<1>1. Cur.op = "end"
  BY DEF Init, Cur, Nth, Done, Step
<1>2. port_state[p] = "kIdle" /\ state[p] = "kIdle"
  BY DEF Init
<1> QED  BY <1>1, <1>2 DEF StopsAt, Enabling, Is, Waits

\* Requests may come at any time: an output that is not idle is started, or the call of the main
\* loop is about to start it or waits for it to end.
THEOREM StopsHold == Spec => []StopsInv
<1>1. Types /\ StopsInv /\ [Next]_vars => StopsInv'
  BY StopsStep
<1> QED  BY <1>1, TypesHold, StopsStart, PTL DEF Spec

\* StoppedIsQuiet: a port that is stopped sends no more.  Requests that may come at any time are
\* covered by StopsInv, requests in turns by TurnsInv.
THEOREM StoppedPortsAreQuiet == Spec => []StoppedIsQuiet
<1>1. ASSUME Types, TurnsInv, StopsInv  PROVE StoppedIsQuiet
  <2> SUFFICES ASSUME ~Occurs("style"), todo = <<>>, Occurs("rdm") /\ Occurs("sync") /\ Occurs("fill") => Occurs("turns"),
                      NEW p \in Port \ started
               PROVE  state[p] = "kIdle"
    BY DEF StoppedIsQuiet
  <2>1. Cur.op = "end" /\ Left = {}
    BY DEF Cur, Nth, Done, Step, Left
  <2>2. ~Stopping(p) /\ ~WillStart(p) /\ ~Off(Cur, p) /\ ~Is(Cur, {"Drain"}, p) /\ ~Is(Cur, Waits, p)
    BY <2>1 DEF Stopping, WillStart, Off, Is, Waits
  <2>3. CASE Apart
    BY <1>1, <2>2, <2>3 DEF StopsInv, StopsAt
  <2>4. CASE ~Apart
    <3>1. TurnsAt(p)
      BY <1>1, <2>4 DEF Apart, Tame, TurnsInv
    <3> QED  BY <2>2, <3>1 DEF TurnsAt, PortIs
  <2> QED  BY <2>3, <2>4
<1>2. Types /\ TurnsInv /\ StopsInv => StoppedIsQuiet
  BY <1>1
<1> QED  BY <1>2, TurnsHold, StopsHold, PTL
=============================================================================
