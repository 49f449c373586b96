-------------------------- MODULE ArtNetMerge_proofs -------------------------
(***************************************************************************)
(* Theorems of ArtNetMerge, for any number of ports, addresses, sources,   *)
(* slots and levels, and any time-outs.  HandleDmx goes over the ports in  *)
(* a loop; what the loop does is proved by induction over the ports, with  *)
(* the set of the ports up to which it holds (SetInduction).               *)
(***************************************************************************)
EXTENDS ArtNetMerge, TLAPS, WellFoundedInduction, FiniteSetTheorems

Sources     == UNION {c.sources : c \in Scenarios}
AnyIp       == {NoIp} \cup {s.ip : s \in Sources}
AnyPhysical == {FirstPhysical} \cup {s.physical : s \in Sources}
Entry       == [ip : AnyIp, physical : AnyPhysical, age : Ages]
Frame       == [1 .. Slots -> Level]

PortEntries == [Port -> [Place -> Entry]]
PortData    == [Port -> [Place -> Frame]]
PortFrames  == [Port -> Frame]
PortLengths == [Port -> Nat]
SomePorts   == SUBSET Port
Node == [source : PortEntries, data : PortData, output : PortFrames, length : PortLengths,
         line : PortFrames, merging : SomePorts, merge_mode : BOOLEAN, pending : SomePorts,
         refused : BOOLEAN]

ArtDmx == [source : Sources, address : Address, level : Level, length : 1 .. Slots]

Types ==
    /\ scenario \in Scenarios
    /\ node \in Node /\ node.refused = FALSE
    /\ ltp \subseteq Port /\ address \in [Port -> Address]
    /\ synchronous \in BOOLEAN /\ sync_age \in Nat /\ silence \in Nat
    /\ heard \in [Address -> [scenario.sources -> [level : Level, length : 1 .. Slots, age : Ages]]]

\* A port has two sources.
Full(n, p) == \A x \in Place : n.source[p][x].ip # NoIp

\* A port with two sources has its bit, and the two are not one.
Merging(n) ==
    \A p \in Port : Full(n, p) =>
       /\ p \in n.merging /\ n.merge_mode
       /\ \/ n.source[p]["a"].ip # n.source[p]["b"].ip
          \/ n.source[p]["a"].physical # n.source[p]["b"].physical

\* A port that has its bit has two sources; not so when the network fell silent.
Bits(n) == /\ \A p \in n.merging : Full(n, p)
           /\ n.merge_mode <=> n.merging # {}

\* A place is taken by a source, one that has been heard since.
Known ==
    \A p \in Port, x \in Place : node.source[p][x].ip # NoIp =>
       \E s \in scenario.sources : Continues(node, p, x, s)
Fresh ==
    \A p \in Port, x \in Place, s \in scenario.sources :
       Continues(node, p, x, s) => heard[address[p]][s].age <= node.source[p][x].age

\* The data of a place is what its source sent last, when no ports share an address.
Apart == \A p, q \in Port : scenario.addresses[p] = scenario.addresses[q] => p = q
Held ==
    \A p \in Port, x \in Place, s \in scenario.sources :
       Continues(node, p, x, s) =>
          \A i \in 1 .. heard[address[p]][s].length : node.data[p][x][i] = heard[address[p]][s].level

MergeInv ==
    /\ Types /\ Merging(node) /\ Known
    /\ ~Occurs("silence") => silence < DataLossTimeout /\ Bits(node)
    /\ ~Occurs("switch") => address = scenario.addresses /\ Fresh /\ (Apart => Held)
-----------------------------------------------------------------------------
\* Induction up to n, for a set of numbers.
LEMMA SetInduction ==
    ASSUME NEW n \in Nat, NEW S, 0 \in S, \A i \in 0 .. n - 1 : i \in S => i + 1 \in S
    PROVE  0 .. n \subseteq S
<1> DEFINE T == {i \in 0 .. n : i \notin S}
<1> SUFFICES ASSUME T # {} PROVE FALSE
  OBVIOUS
<1>0. T \subseteq Nat
  OBVIOUS
<1>1. PICK i \in T : \A j \in T : ~ (<<j, i>> \in OpToRel(<, Nat))
  BY <1>0, NatLessThanWellFounded, WFMin
<1>2. \A j \in T : ~ (j < i)
  BY <1>0, <1>1 DEF OpToRel
<1> QED  BY <1>2, i # 0 /\ i - 1 \in 0 .. n - 1

\* The loop: a recursive function is what its definition says.
LEMMA Loop ==
    ASSUME NEW m
    PROVE  /\ Received(m)[0] = node
           /\ \A p \in Port : Received(m)[p + 1] = Receive(Received(m)[p], p, m)
<1> DEFINE Step(f, i) == IF i = 0 THEN node ELSE Receive(f[i - 1], i - 1, m)
           Defined(f, k) == f = [i \in 0 .. k |-> Step(f, i)]
           S == {k \in 0 .. NumPorts : \E f : Defined(f, k)}
<1>0. NumPorts \in Nat
  BY MergeAssumption
<1>1. 0 \in S
  <2> DEFINE f == [i \in 0 .. 0 |-> node]
  <2>1. Defined(f, 0)
    OBVIOUS
  <2> HIDE DEF f
  <2>2. \E g : Defined(g, 0)
    BY <2>1
  <2> QED  BY <2>2, <1>0
<1>2. ASSUME NEW k \in 0 .. NumPorts - 1, k \in S  PROVE k + 1 \in S
  <2>1. PICK f : Defined(f, k)
    BY <1>2
  <2> DEFINE g == [i \in 0 .. k + 1 |-> IF i = k + 1 THEN Receive(f[k], k, m) ELSE f[i]]
  <2>2. \A i \in 0 .. k : f[i] = Step(f, i)
    BY <2>1
  <2>3. \A i \in 0 .. k + 1 : g[i] = Step(g, i)
    BY <2>2, <1>0
  <2>4. Defined(g, k + 1)
    <3> HIDE DEF g
    <3> QED  BY <2>3 DEF g
  <2> HIDE DEF g
  <2>5. \E h : Defined(h, k + 1)
    BY <2>4
  <2> QED  BY <2>5, <1>0
<1>3. NumPorts \in S
  <2> HIDE DEF S
  <2> QED  BY <1>0, <1>1, <1>2, SetInduction
<1>4. PICK f : Defined(f, NumPorts)
  BY <1>3
<1> DEFINE after == CHOOSE g : g = [i \in 0 .. NumPorts |-> Step(g, i)]
<1>5. after = [i \in 0 .. NumPorts |-> Step(after, i)]
  BY <1>4
<1>6. Received(m) = after
  BY DEF Received
<1> HIDE DEF after
<1> QED  BY <1>0, <1>5, <1>6 DEF Port
-----------------------------------------------------------------------------
\* What a port does with an ArtDmx, piece by piece.
Checked(n, p) == IF n.merge_mode THEN CheckMergeTimeouts(n, p) ELSE n
Accepted(n, p, x, m) == Output(Accept(n, p, x, m), p)
Current(m) == [ip |-> m.source.ip, physical |-> m.source.physical, age |-> 0]

LEMMA SourceFacts ==
    /\ \A s \in Sources : s.ip # NoIp /\ s.ip \in AnyIp /\ s.physical \in AnyPhysical
    /\ \A s \in Sources : s = [ip |-> s.ip, physical |-> s.physical]
    /\ 0 \in Ages /\ Ages \subseteq Nat /\ Level \subseteq Nat /\ Slots \in Nat
    /\ NumPorts \in Nat /\ MergeTimeout \in Nat
BY MergeAssumption DEF Sources, AnyIp, AnyPhysical, Ages, Level

\* The fields of a node.
LEMMA Fields ==
    ASSUME NEW n \in Node
    PROVE  /\ n.source \in [Port -> [Place -> Entry]] /\ n.data \in [Port -> [Place -> Frame]]
           /\ n.output \in [Port -> Frame] /\ n.length \in [Port -> Nat] /\ n.line \in [Port -> Frame]
           /\ n.merging \subseteq Port /\ n.merge_mode \in BOOLEAN
           /\ n.pending \subseteq Port /\ n.refused \in BOOLEAN
BY DEF Node, PortEntries, PortData, PortFrames, PortLengths, SomePorts

\* A place that is freed keeps the rest.
LEMMA Freed ==
    ASSUME NEW e \in Entry
    PROVE  /\ [e EXCEPT !.ip = NoIp] \in Entry
           /\ [e EXCEPT !.ip = NoIp].ip = NoIp
           /\ [e EXCEPT !.ip = NoIp].physical = e.physical
           /\ [e EXCEPT !.ip = NoIp].age = e.age
BY DEF Entry, AnyIp

\* The check of the time-outs frees the places of a port that are too old.
CheckedIs(n, p, c) ==
    /\ c \in Node /\ c.refused = n.refused
    /\ c.data = n.data /\ c.output = n.output
    /\ \A q \in Port : q # p => c.source[q] = n.source[q]
    /\ \A x \in Place :
          IF n.merge_mode /\ n.source[p][x].age > MergeTimeout
          THEN c.source[p][x] = [n.source[p][x] EXCEPT !.ip = NoIp]
          ELSE c.source[p][x] = n.source[p][x]
    /\ c.merging = IF n.merge_mode /\ \E x \in Place : n.source[p][x].age > MergeTimeout
                   THEN n.merging \ {p} ELSE n.merging
    /\ c.merge_mode <=> n.merge_mode /\ c.merging # {}

LEMMA CheckedEffect ==
    ASSUME NEW n \in Node, NEW p \in Port
    PROVE  CheckedIs(n, p, Checked(n, p))
<1> USE DEF CheckedIs
<1>1. CASE ~n.merge_mode
  BY <1>1, Fields DEF Checked
<1>2. CASE n.merge_mode
  <2> DEFINE c == CheckMergeTimeouts(n, p)
             old(x) == n.source[p][x].age > MergeTimeout
             places == [x \in Place |-> IF old(x) THEN [n.source[p][x] EXCEPT !.ip = NoIp] ELSE n.source[p][x]]
             merging == IF \E x \in Place : old(x) THEN n.merging \ {p} ELSE n.merging
  <2>1. c = [n EXCEPT !.source = [n.source EXCEPT ![p] = places], !.merging = merging,
                      !.merge_mode = merging # {}]
    BY DEF CheckMergeTimeouts
  <2>2. places \in [Place -> Entry]
    <3>1. \A x \in Place : n.source[p][x] \in Entry
      BY Fields
    <3> QED  BY <3>1, Freed
  <2>3. [n.source EXCEPT ![p] = places] \in PortEntries
    <3> HIDE DEF places
    <3> QED  BY <2>2, Fields DEF PortEntries
  <2>4. merging \in SomePorts
    BY Fields DEF SomePorts
  <2>5. /\ c \in Node /\ c.refused = n.refused /\ c.data = n.data /\ c.output = n.output
        /\ c.source = [n.source EXCEPT ![p] = places] /\ c.merging = merging /\ c.merge_mode = (merging # {})
    <3> HIDE DEF places, merging, c
    <3>1. (merging # {}) \in BOOLEAN
      OBVIOUS
    <3> QED  BY <2>1, <2>3, <2>4, <3>1 DEF Node
  <2>6. Checked(n, p) = c
    BY <1>2 DEF Checked
  <2>7. /\ \A q \in Port : q # p => c.source[q] = n.source[q]
        /\ c.source[p] = places
    <3> HIDE DEF places, c
    <3> QED  BY <2>5, Fields
  <2>8. /\ \A x \in Place : c.source[p][x] = IF old(x) THEN [n.source[p][x] EXCEPT !.ip = NoIp] ELSE n.source[p][x]
        /\ c.merging = IF \E x \in Place : old(x) THEN n.merging \ {p} ELSE n.merging
        /\ c.merge_mode = (c.merging # {})
    <3> HIDE DEF c
    <3> QED  BY <2>5, <2>7
  <2> HIDE DEF c, places, merging
  <2> QED  BY <1>2, <2>5, <2>6, <2>7, <2>8
<1> QED  BY <1>1, <1>2

\* A place is taken, and the port outputs what its two places hold.
AcceptedIs(n, p, x, m, a) ==
    LET alone == n.source[p][Other(x)].ip = NoIp
    IN  /\ a \in Node /\ a.refused = n.refused
        /\ \A q \in Port : q # p =>
             a.source[q] = n.source[q] /\ a.data[q] = n.data[q] /\ a.output[q] = n.output[q]
        /\ a.source[p][x] = Current(m) /\ a.source[p][Other(x)] = n.source[p][Other(x)]
        /\ \A i \in 1 .. m.length : a.data[p][x][i] = m.level
        /\ a.data[p][Other(x)] = n.data[p][Other(x)]
        /\ \A i \in 1 .. m.length : a.output[p][i] =
              IF ~alone /\ p \notin ltp THEN Larger(m.level, n.data[p][Other(x)][i]) ELSE m.level
        /\ a.merging = IF alone THEN n.merging ELSE n.merging \cup {p}
        /\ a.merge_mode <=> ~alone \/ n.merge_mode

LEMMA AcceptedEffect ==
    ASSUME NEW n \in Node, NEW p \in Port, NEW x \in Place, NEW m \in ArtDmx
    PROVE  AcceptedIs(n, p, x, m, Accepted(n, p, x, m))
<1>0. Current(m) \in Entry
  BY SourceFacts DEF Current, Entry, ArtDmx
<1>1. Other(x) \in Place /\ m.level \in Level /\ m.length \in 1 .. Slots
  BY DEF Other, Place, ArtDmx
<1> DEFINE alone == n.source[p][Other(x)].ip = NoIp
           htp == ~alone /\ p \notin ltp
           a == Accept(n, p, x, m)
           source == [n.source EXCEPT ![p] = [n.source[p] EXCEPT ![x] = Current(m)]]
           frame == [i \in 1 .. Slots |-> IF i > m.length THEN n.data[p][x][i] ELSE m.level]
           data == [n.data EXCEPT ![p] = [n.data[p] EXCEPT ![x] = frame]]
           out == [i \in 1 .. Slots |->
                     IF i > m.length THEN n.output[p][i]
                     ELSE IF htp THEN Larger(m.level, n.data[p][Other(x)][i]) ELSE m.level]
           output == [n.output EXCEPT ![p] = out]
           merging == IF alone THEN n.merging ELSE n.merging \cup {p}
           mode == ~alone \/ n.merge_mode
           recorded == IF alone THEN [n EXCEPT !.source = source]
                       ELSE [n EXCEPT !.source = source, !.merging = n.merging \cup {p}, !.merge_mode = TRUE]
<1>2. a = [recorded EXCEPT !.length = [recorded.length EXCEPT ![p] = m.length],
                 !.data = [recorded.data EXCEPT ![p][x] =
                    [i \in 1 .. Slots |-> IF i > m.length THEN recorded.data[p][x][i] ELSE m.level]],
                 !.output = [recorded.output EXCEPT ![p] = [i \in 1 .. Slots |->
                    IF i > m.length THEN recorded.output[p][i]
                    ELSE IF htp THEN Larger(m.level, recorded.data[p][Other(x)][i]) ELSE m.level]]]
  BY DEF Accept, MergeSource, Current
<1>3. frame \in Frame /\ out \in Frame
  <2>0. n.data[p] \in [Place -> Frame] /\ n.output[p] \in Frame
    BY Fields
  <2>1. \A i \in 1 .. Slots : n.data[p][Other(x)][i] \in Level /\ n.data[p][x][i] \in Level /\ n.output[p][i] \in Level
    BY <1>1, <2>0 DEF Frame
  <2>2. \A i \in 1 .. Slots : Larger(m.level, n.data[p][Other(x)][i]) \in Level
    BY <1>1, <2>1 DEF Larger
  <2> QED  BY <1>1, <2>1, <2>2 DEF Frame
<1>4. /\ source \in PortEntries /\ data \in PortData /\ output \in PortFrames
      /\ merging \in SomePorts /\ n.merging \cup {p} \in SomePorts /\ [n.length EXCEPT ![p] = m.length] \in PortLengths
  <2> HIDE DEF frame, out
  <2>1. n.source[p] \in [Place -> Entry] /\ n.data[p] \in [Place -> Frame] /\ m.length \in Nat
    BY <1>1, Fields, SourceFacts
  <2>2. [n.source[p] EXCEPT ![x] = Current(m)] \in [Place -> Entry] /\ [n.data[p] EXCEPT ![x] = frame] \in [Place -> Frame]
    BY <1>0, <1>3, <2>1
  <2> QED  BY <1>3, <2>1, <2>2, Fields DEF PortEntries, PortData, PortFrames, PortLengths, SomePorts
<1>5. /\ recorded \in Node /\ recorded.source = source /\ recorded.merging = merging /\ recorded.merge_mode = mode
      /\ recorded.data = n.data /\ recorded.output = n.output /\ recorded.refused = n.refused
      /\ recorded.length = n.length
  <2> HIDE DEF source, data, output
  <2>1. CASE alone
    BY <1>4, <2>1, Fields DEF Node
  <2>2. CASE ~alone
    BY <1>4, <2>2, Fields DEF Node
  <2> QED  BY <2>1, <2>2
<1>6. /\ a \in Node /\ a.source = source /\ a.merging = merging /\ a.merge_mode = mode
      /\ a.data = data /\ a.output = output /\ a.refused = n.refused
  <2>1. a = [recorded EXCEPT !.length = [n.length EXCEPT ![p] = m.length], !.data = data, !.output = output]
    <3>1. data = [n.data EXCEPT ![p][x] = frame]
      OBVIOUS
    <3> HIDE DEF recorded, a
    <3> QED  BY <1>2, <1>5, <3>1
  <2> HIDE DEF recorded, a, data, output, source, merging, mode
  <2> QED  BY <1>4, <1>5, <2>1 DEF Node
<1>7. /\ \A i \in 1 .. m.length : frame[i] = m.level
      /\ \A i \in 1 .. m.length : out[i] = IF htp THEN Larger(m.level, n.data[p][Other(x)][i]) ELSE m.level
  <2>1. \A i \in 1 .. m.length : i \in 1 .. Slots /\ ~(i > m.length)
    BY <1>1, SourceFacts
  <2> QED  BY <2>1
<1>10. /\ \A q \in Port : q # p => output[q] = n.output[q] /\ data[q] = n.data[q] /\ source[q] = n.source[q]
       /\ output[p] = out /\ data[p] = [n.data[p] EXCEPT ![x] = frame]
       /\ source[p] = [n.source[p] EXCEPT ![x] = Current(m)]
  <2> HIDE DEF out, frame
  <2> QED  BY Fields
<1>11. Other(x) # x /\ n.data[p] \in [Place -> Frame] /\ n.source[p] \in [Place -> Entry]
  BY Fields DEF Other, Place
<1>12. /\ source[p][x] = Current(m) /\ source[p][Other(x)] = n.source[p][Other(x)]
       /\ data[p][x] = frame /\ data[p][Other(x)] = n.data[p][Other(x)]
  <2> HIDE DEF source, data, frame
  <2> QED  BY <1>1, <1>10, <1>11
<1> DEFINE z == Accepted(n, p, x, m)
<1>8. /\ z \in Node /\ z.source = a.source /\ z.merging = a.merging /\ z.merge_mode = a.merge_mode
      /\ z.data = a.data /\ z.output = a.output /\ z.refused = a.refused
  <2>1. z = [a EXCEPT !.pending = a.pending \cup {p}] \/ z = [a EXCEPT !.line = [a.line EXCEPT ![p] = a.output[p]]]
    BY DEF Accepted, Output
  <2>2. a.pending \cup {p} \in SomePorts /\ [a.line EXCEPT ![p] = a.output[p]] \in PortFrames
    <3> HIDE DEF a, output
    <3> QED  BY <1>6, Fields DEF PortFrames, SomePorts
  <2> HIDE DEF a, z, output, source, data
  <2> QED  BY <1>6, <2>1, <2>2 DEF Node
<1> HIDE DEF a, output, htp, source, data, frame, out
<1>9. z.source = source /\ z.data = data /\ z.output = output
  BY <1>6, <1>8
<1>13. /\ \A q \in Port : q # p =>
             z.source[q] = n.source[q] /\ z.data[q] = n.data[q] /\ z.output[q] = n.output[q]
       /\ z.source[p][x] = Current(m) /\ z.source[p][Other(x)] = n.source[p][Other(x)]
       /\ z.data[p][Other(x)] = n.data[p][Other(x)] /\ z.data[p][x] = frame /\ z.output[p] = out
  BY <1>9, <1>10, <1>12
<1>14. z.merging = merging /\ z.merge_mode = mode /\ z.refused = n.refused
  BY <1>6, <1>8
<1> QED  BY <1>7, <1>8, <1>13, <1>14 DEF htp, AcceptedIs

-----------------------------------------------------------------------------
(* A port skips an ArtDmx, refuses it, or takes it at one of its places.   *)
Skips(n, p, m, r) == (n.refused \/ address[p] # m.address) /\ r = n

Refuses(n, p, m, r) ==
    /\ ~n.refused /\ address[p] = m.address
    /\ \A x \in Place : ~Continues(Checked(n, p), p, x, m.source) /\ ~Joins(Checked(n, p), p, x, m.source)
    /\ r = [Checked(n, p) EXCEPT !.refused = TRUE]

Takes(n, p, x, m, r) ==
    /\ ~n.refused /\ address[p] = m.address
    /\ \/ Continues(Checked(n, p), p, x, m.source)
       \/ /\ Joins(Checked(n, p), p, x, m.source)
          /\ \A y \in Place : ~Continues(Checked(n, p), p, y, m.source)
    /\ r = Accepted(Checked(n, p), p, x, m)

LEMMA ReceiveCases ==
    ASSUME NEW n \in Node, NEW p \in Port, NEW m
    PROVE  LET r == Receive(n, p, m)
           IN  Skips(n, p, m, r) \/ Refuses(n, p, m, r) \/ \E x \in Place : Takes(n, p, x, m, r)
<1> DEFINE r == Receive(n, p, m)
           places == Places(Checked(n, p), p, m.source)
           x == IF "a" \in places THEN "a" ELSE "b"
<1>1. CASE n.refused \/ address[p] # m.address
  BY <1>1 DEF Receive, Skips
<1>2. CASE ~(n.refused \/ address[p] # m.address)
  <2>1. r = IF places = {} THEN [Checked(n, p) EXCEPT !.refused = TRUE] ELSE Accepted(Checked(n, p), p, x, m)
    BY <1>2 DEF Receive, Checked, Accepted
  <2>2. CASE places = {}
    <3>1. \A y \in Place : ~Continues(Checked(n, p), p, y, m.source) /\ ~Joins(Checked(n, p), p, y, m.source)
      BY <2>2 DEF Places
    <3> QED  BY <1>2, <2>1, <2>2, <3>1 DEF Refuses
  <2>3. CASE places # {}
    <3>1. x \in places /\ x \in Place
      BY <2>3 DEF Places, Place
    <3>2. \/ Continues(Checked(n, p), p, x, m.source)
          \/ /\ Joins(Checked(n, p), p, x, m.source)
             /\ \A y \in Place : ~Continues(Checked(n, p), p, y, m.source)
      BY <3>1 DEF Places
    <3> HIDE DEF x, places
    <3> QED  BY <1>2, <2>1, <2>3, <3>1, <3>2 DEF Takes
  <2> QED  BY <2>2, <2>3
<1> QED  BY <1>1, <1>2

\* What a port that refuses has changed.
LEMMA RefusedEffect ==
    ASSUME NEW n \in Node, NEW p \in Port, NEW m, NEW r, Refuses(n, p, m, r)
    PROVE  LET c == Checked(n, p)
           IN  /\ r \in Node /\ r.refused /\ r.source = c.source /\ r.data = c.data /\ r.output = c.output
               /\ r.merging = c.merging /\ r.merge_mode = c.merge_mode
BY CheckedEffect DEF CheckedIs, Refuses, Node

\* It changes nothing of the other ports, and stays a node.
LEMMA ReceiveFrame ==
    ASSUME NEW n \in Node, NEW p \in Port, NEW m \in ArtDmx
    PROVE  LET r == Receive(n, p, m)
           IN  /\ r \in Node
               /\ \A q \in Port : q # p =>
                    r.source[q] = n.source[q] /\ r.data[q] = n.data[q] /\ r.output[q] = n.output[q]
<1> DEFINE r == Receive(n, p, m)
           c == Checked(n, p)
<1>0. /\ c \in Node /\ c.data = n.data /\ c.output = n.output
      /\ \A q \in Port : q # p => c.source[q] = n.source[q]
  BY CheckedEffect DEF CheckedIs
<1>1. CASE Skips(n, p, m, r)
  BY <1>1 DEF Skips
<1>2. CASE Refuses(n, p, m, r)
  <2>1. r \in Node /\ r.source = c.source /\ r.data = c.data /\ r.output = c.output
    BY <1>2, RefusedEffect
  <2> HIDE DEF c
  <2> QED  BY <1>0, <2>1
<1>3. ASSUME NEW x \in Place, Takes(n, p, x, m, r)
      PROVE  /\ r \in Node
             /\ \A q \in Port : q # p =>
                  r.source[q] = n.source[q] /\ r.data[q] = n.data[q] /\ r.output[q] = n.output[q]
  <2>1. r = Accepted(c, p, x, m)
    BY <1>3 DEF Takes
  <2> HIDE DEF c
  <2>2. AcceptedIs(c, p, x, m, r)
    BY <1>0, <2>1, AcceptedEffect
  <2> QED  BY <1>0, <2>2 DEF AcceptedIs
<1> QED  BY <1>1, <1>2, <1>3, ReceiveCases
-----------------------------------------------------------------------------
(* The loop over the ports.                                                *)
LEMMA LoopNodes ==
    ASSUME Types, NEW m \in ArtDmx
    PROVE  \A i \in 0 .. NumPorts : Received(m)[i] \in Node
<1> DEFINE f == Received(m)
           S == {i \in 0 .. NumPorts : f[i] \in Node}
<1>1. NumPorts \in Nat /\ \A i \in 0 .. NumPorts - 1 : i \in Port
  BY SourceFacts DEF Port
<1>2. f[0] = node /\ \A i \in 0 .. NumPorts - 1 : f[i + 1] = Receive(f[i], i, m)
  BY <1>1, Loop
<1> HIDE DEF f
<1>3. 0 \in S
  BY <1>1, <1>2 DEF Types
<1>4. \A i \in 0 .. NumPorts - 1 : i \in S => i + 1 \in S
  BY <1>1, <1>2, ReceiveFrame
<1> QED
  <2> HIDE DEF S
  <2>1. 0 .. NumPorts \subseteq S
    BY <1>1, <1>3, <1>4, SetInduction
  <2> QED  BY <2>1 DEF S, f

\* A port finds its places as they were, and they stay as it leaves them.
LEMMA LoopFrame ==
    ASSUME Types, NEW m \in ArtDmx, NEW p \in Port
    PROVE  LET f == Received(m)
           IN  /\ /\ f[p].source[p] = node.source[p] /\ f[p].data[p] = node.data[p]
                  /\ f[p].output[p] = node.output[p]
               /\ /\ f[NumPorts].source[p] = f[p + 1].source[p] /\ f[NumPorts].data[p] = f[p + 1].data[p]
                  /\ f[NumPorts].output[p] = f[p + 1].output[p]
<1> DEFINE f == Received(m)
           Same(n, k) == n.source[p] = k.source[p] /\ n.data[p] = k.data[p] /\ n.output[p] = k.output[p]
           S == {i \in 0 .. NumPorts : i <= p => Same(f[i], node)}
           T == {i \in 0 .. NumPorts : i > p => Same(f[i], f[p + 1])}
<1>1. NumPorts \in Nat /\ p \in 0 .. NumPorts - 1 /\ \A i \in 0 .. NumPorts - 1 : i \in Port
  BY SourceFacts DEF Port
<1>2. f[0] = node /\ \A i \in 0 .. NumPorts - 1 : f[i + 1] = Receive(f[i], i, m)
  BY <1>1, Loop
<1>3. \A i \in 0 .. NumPorts - 1 : i # p => Same(f[i + 1], f[i])
  <2> SUFFICES ASSUME NEW i \in 0 .. NumPorts - 1, i # p  PROVE Same(f[i + 1], f[i])
    OBVIOUS
  <2>1. f[i] \in Node /\ f[i + 1] = Receive(f[i], i, m) /\ i \in Port
    BY <1>1, <1>2, LoopNodes
  <2> HIDE DEF f
  <2> QED  BY <2>1, ReceiveFrame
<1> HIDE DEF f
<1>4. 0 .. NumPorts \subseteq S
  <2>1. 0 \in S
    BY <1>1, <1>2
  <2>2. \A i \in 0 .. NumPorts - 1 : i \in S => i + 1 \in S
    <3> SUFFICES ASSUME NEW i \in 0 .. NumPorts - 1, i \in S  PROVE i + 1 \in S
      OBVIOUS
    <3>1. i + 1 <= p => i # p /\ i <= p
      BY <1>1
    <3> QED  BY <1>1, <1>3, <3>1
  <2> HIDE DEF S
  <2> QED  BY <1>1, <2>1, <2>2, SetInduction
<1>5. 0 .. NumPorts \subseteq T
  <2>1. 0 \in T
    BY <1>1
  <2>2. \A i \in 0 .. NumPorts - 1 : i \in T => i + 1 \in T
    <3> SUFFICES ASSUME NEW i \in 0 .. NumPorts - 1, i \in T  PROVE i + 1 \in T
      OBVIOUS
    <3>1. i + 1 > p => i = p \/ (i # p /\ i > p)
      BY <1>1
    <3> QED  BY <1>1, <1>3, <3>1
  <2> HIDE DEF T
  <2> QED  BY <1>1, <2>1, <2>2, SetInduction
<1>6. p \in S /\ NumPorts \in T /\ NumPorts > p /\ p <= p
  BY <1>1, <1>4, <1>5
<1> QED  BY <1>6 DEF f

\* When the loop has ended early, a port has refused.
LEMMA LoopRefused ==
    ASSUME Types, NEW m \in ArtDmx
    PROVE  \A i \in 0 .. NumPorts : Received(m)[i].refused =>
              \E q \in Port : q < i /\ Refuses(Received(m)[q], q, m, Received(m)[q + 1])
<1> DEFINE f == Received(m)
           S == {i \in 0 .. NumPorts : f[i].refused =>
                   \E q \in Port : q < i /\ Refuses(f[q], q, m, f[q + 1])}
<1>1. NumPorts \in Nat /\ \A i \in 0 .. NumPorts - 1 : i \in Port
  BY SourceFacts DEF Port
<1>2. f[0] = node /\ \A i \in 0 .. NumPorts - 1 : f[i + 1] = Receive(f[i], i, m)
  BY <1>1, Loop
<1>3. 0 \in S
  BY <1>1, <1>2 DEF Types
<1>4. \A i \in 0 .. NumPorts - 1 : i \in S => i + 1 \in S
  <2> SUFFICES ASSUME NEW i \in 0 .. NumPorts - 1, i \in S  PROVE i + 1 \in S
    OBVIOUS
  <2>1. f[i] \in Node /\ f[i + 1] = Receive(f[i], i, m) /\ i \in Port /\ i \in Nat
    BY <1>1, <1>2, LoopNodes
  <2> HIDE DEF f
  <2>2. CASE Skips(f[i], i, m, f[i + 1])
    <3>1. f[i + 1] = f[i]
      BY <2>2 DEF Skips
    <3>2. \A q \in Port : q < i => q < i + 1
      BY <2>1, <1>1 DEF Port
    <3> QED  BY <3>1, <3>2, <1>1
  <2>3. CASE Refuses(f[i], i, m, f[i + 1])
    BY <2>1, <2>3, <1>1
  <2>4. CASE \E x \in Place : Takes(f[i], i, x, m, f[i + 1])
    <3>1. PICK x \in Place : Takes(f[i], i, x, m, f[i + 1])
      BY <2>4
    <3>3. Checked(f[i], i) \in Node /\ Checked(f[i], i).refused = f[i].refused
      BY <2>1, CheckedEffect DEF CheckedIs
    <3>2. f[i + 1].refused = Checked(f[i], i).refused /\ ~f[i].refused
      <4>1. AcceptedIs(Checked(f[i], i), i, x, m, f[i + 1])
        BY <2>1, <3>1, <3>3, AcceptedEffect DEF Takes
      <4> QED  BY <3>1, <4>1 DEF Takes, AcceptedIs
    <3> QED  BY <3>2, <3>3, <1>1
  <2> QED  BY <2>1, <2>2, <2>3, <2>4, ReceiveCases
<1> QED
  <2> HIDE DEF S
  <2>1. 0 .. NumPorts \subseteq S
    BY <1>1, <1>3, <1>4, SetInduction
  <2> QED  BY <2>1 DEF S, f
-----------------------------------------------------------------------------
(* What an ArtDmx does to a port, in terms of its places.                  *)
Kept(e, checks) == IF checks /\ e.age > MergeTimeout THEN [e EXCEPT !.ip = NoIp] ELSE e
From(e, source) == e.ip = source.ip /\ e.physical = source.physical

Skipped(p, m, n) ==
    /\ n.source[p] = node.source[p] /\ n.data[p] = node.data[p]
    /\ address[p] = m.address => Received(m)[p].refused

Refused(p, m, n) ==
    /\ address[p] = m.address /\ n.data[p] = node.data[p]
    /\ \A x \in Place : /\ n.source[p][x] = Kept(node.source[p][x], Received(m)[p].merge_mode)
                        /\ ~Continues(n, p, x, m.source) /\ ~Joins(n, p, x, m.source)

Taken(p, x, m, n) ==
    LET checks == Received(m)[p].merge_mode
    IN  /\ address[p] = m.address
        /\ n.source[p][x] = Current(m)
        /\ n.source[p][Other(x)] = Kept(node.source[p][Other(x)], checks)
        /\ \/ From(Kept(node.source[p][x], checks), m.source)
           \/ ~From(n.source[p][Other(x)], m.source)
        /\ n.data[p][Other(x)] = node.data[p][Other(x)]
        /\ \A i \in 1 .. m.length : n.data[p][x][i] = m.level
        /\ \A i \in 1 .. m.length : n.output[p][i] =
              IF n.source[p][Other(x)].ip # NoIp /\ p \notin ltp
              THEN Larger(m.level, node.data[p][Other(x)][i]) ELSE m.level

LEMMA RefusedOutcome ==
    ASSUME Types, NEW m \in ArtDmx, NEW p \in Port, Refuses(Received(m)[p], p, m, Received(m)[p + 1])
    PROVE  Refused(p, m, Received(m)[NumPorts])
<1> DEFINE b == Received(m)[p]
           r == Received(m)[p + 1]
           n == Received(m)[NumPorts]
           c == Checked(b, p)
<1>1. /\ b.source[p] = node.source[p] /\ b.data[p] = node.data[p]
      /\ n.source[p] = r.source[p] /\ n.data[p] = r.data[p]
  BY LoopFrame
<1>2. b \in Node
  BY LoopNodes, SourceFacts DEF Port
<1>3. CheckedIs(b, p, c)
  BY <1>2, CheckedEffect
<1>4. /\ c.data[p] = node.data[p]
      /\ \A x \in Place : c.source[p][x] = Kept(node.source[p][x], b.merge_mode)
  <2>1. c.data = b.data
    BY <1>3 DEF CheckedIs
  <2> QED  BY <1>1, <1>3, <2>1 DEF CheckedIs, Kept
<1>5. r.source = c.source /\ r.data = c.data
  BY <1>2, RefusedEffect
<1>6. address[p] = m.address /\ \A x \in Place : ~Continues(c, p, x, m.source) /\ ~Joins(c, p, x, m.source)
  BY DEF Refuses
<1>7. n.source[p] = c.source[p] /\ n.data[p] = c.data[p]
  BY <1>1, <1>5
<1> HIDE DEF n, c
<1>8. \A x \in Place : ~Continues(n, p, x, m.source) /\ ~Joins(n, p, x, m.source)
  BY <1>6, <1>7 DEF Continues, Joins
<1>9. Refused(p, m, n)
  BY <1>4, <1>6, <1>7, <1>8 DEF Refused
<1> QED  BY <1>9 DEF n

LEMMA Outcome ==
    ASSUME Types, NEW m \in ArtDmx, NEW p \in Port
    PROVE  LET n == Received(m)[NumPorts]
           IN  \/ Skipped(p, m, n)
               \/ Refused(p, m, n) /\ Refuses(Received(m)[p], p, m, Received(m)[p + 1])
               \/ \E x \in Place : Taken(p, x, m, n)
<1> DEFINE b == Received(m)[p]
           r == Received(m)[p + 1]
           n == Received(m)[NumPorts]
           c == Checked(b, p)
<1>1. /\ b.source[p] = node.source[p] /\ b.data[p] = node.data[p]
      /\ n.source[p] = r.source[p] /\ n.data[p] = r.data[p] /\ n.output[p] = r.output[p]
  BY LoopFrame
<1>2. b \in Node /\ r = Receive(b, p, m)
  BY Loop, LoopNodes, SourceFacts DEF Port
<1>3. CheckedIs(b, p, c)
  BY <1>2, CheckedEffect
<1>4. /\ c \in Node /\ c.data[p] = node.data[p]
      /\ \A x \in Place : c.source[p][x] = Kept(node.source[p][x], b.merge_mode)
  <2>1. c.data = b.data
    BY <1>3 DEF CheckedIs
  <2> QED  BY <1>1, <1>3, <2>1 DEF CheckedIs, Kept
<1>5. CASE Skips(b, p, m, r)
  BY <1>1, <1>5 DEF Skips, Skipped
<1>6. CASE Refuses(b, p, m, r)
  BY <1>6, RefusedOutcome
<1>7. ASSUME NEW x \in Place, Takes(b, p, x, m, r)  PROVE Taken(p, x, m, n)
  <2>1. AcceptedIs(c, p, x, m, r)
    BY <1>2, <1>4, <1>7, AcceptedEffect DEF Takes
  <2>2. /\ address[p] = m.address
        /\ Continues(c, p, x, m.source) \/ ~Continues(c, p, Other(x), m.source)
    <3>1. Other(x) \in Place
      BY DEF Other, Place
    <3> QED  BY <1>7, <3>1 DEF Takes
  <2>3. Other(x) \in Place
    BY DEF Other, Place
  <2> HIDE DEF n, c, r, b
  <2>4. /\ n.source[p][x] = Current(m) /\ n.source[p][Other(x)] = c.source[p][Other(x)]
        /\ n.data[p][Other(x)] = c.data[p][Other(x)]
        /\ \A i \in 1 .. m.length : n.data[p][x][i] = m.level
        /\ \A i \in 1 .. m.length : n.output[p][i] =
              IF c.source[p][Other(x)].ip # NoIp /\ p \notin ltp
              THEN Larger(m.level, c.data[p][Other(x)][i]) ELSE m.level
    BY <1>1, <2>1 DEF AcceptedIs
  <2>5. From(c.source[p][x], m.source) \/ ~From(c.source[p][Other(x)], m.source)
    BY <2>2 DEF Continues, From
  <2> QED  BY <1>4, <2>2, <2>3, <2>4, <2>5 DEF Taken, b
<1> QED  BY <1>2, <1>5, <1>6, <1>7, ReceiveCases

\* A message of the scenario, and the node after it.
LEMMA DmxNode ==
    ASSUME Types, NEW m \in Message, HandleDmx(m)
    PROVE  LET n == Received(m)[NumPorts]
           IN  /\ m \in ArtDmx /\ m.source \in scenario.sources /\ m.address \in scenario.sent
               /\ n \in Node /\ node' \in Node /\ node'.refused = FALSE
               /\ node'.source = n.source /\ node'.data = n.data /\ node'.output = n.output
               /\ node'.merging = n.merging /\ node'.merge_mode = n.merge_mode
<1>1. m \in ArtDmx /\ m.source \in scenario.sources /\ m.address \in scenario.sent
  BY MergeAssumption DEF Message, ArtDmx, Sources, Types
<1>2. Received(m)[NumPorts] \in Node
  BY <1>1, LoopNodes, SourceFacts
<1>3. node' = [Received(m)[NumPorts] EXCEPT !.refused = FALSE]
  BY DEF HandleDmx
<1> QED  BY <1>1, <1>2, <1>3 DEF Node

\* The bits of merging through the loop.
LEMMA MergingStep ==
    ASSUME NEW n \in Node, NEW p \in Port, NEW m \in ArtDmx, Merging(n)
    PROVE  /\ Merging(Receive(n, p, m))
           /\ Bits(n) => Bits(Receive(n, p, m))
<1> DEFINE r == Receive(n, p, m)
           c == Checked(n, p)
<1>1. CheckedIs(n, p, c)
  BY CheckedEffect
<1>2. /\ \A q \in Port : q # p => c.source[q] = n.source[q]
      /\ \A x \in Place : c.source[p][x].ip # NoIp =>
            c.source[p][x] = n.source[p][x] /\ ~(n.merge_mode /\ n.source[p][x].age > MergeTimeout)
  <2>1. \A q \in Port : q # p => c.source[q] = n.source[q]
    BY <1>1 DEF CheckedIs
  <2>2. ASSUME NEW x \in Place, c.source[p][x].ip # NoIp
        PROVE  c.source[p][x] = n.source[p][x] /\ ~(n.merge_mode /\ n.source[p][x].age > MergeTimeout)
    <3>1. n.source[p][x] \in Entry
      BY Fields
    <3>2. [n.source[p][x] EXCEPT !.ip = NoIp].ip = NoIp
      BY <3>1, Freed
    <3>3. IF n.merge_mode /\ n.source[p][x].age > MergeTimeout
          THEN c.source[p][x] = [n.source[p][x] EXCEPT !.ip = NoIp]
          ELSE c.source[p][x] = n.source[p][x]
      BY <1>1 DEF CheckedIs
    <3> HIDE DEF c
    <3> QED  BY <2>2, <3>2, <3>3
  <2> HIDE DEF c
  <2> QED  BY <2>1, <2>2
<1>3. Merging(c)
  <2> SUFFICES ASSUME NEW q \in Port, Full(c, q)
               PROVE  /\ q \in c.merging /\ c.merge_mode
                      /\ \/ c.source[q]["a"].ip # c.source[q]["b"].ip
                         \/ c.source[q]["a"].physical # c.source[q]["b"].physical
    BY DEF Merging
  <2>1. Full(n, q) /\ \A x \in Place : c.source[q][x] = n.source[q][x]
    BY <1>2 DEF Full
  <2>2. q \in n.merging /\ n.merge_mode
    BY <2>1 DEF Merging
  <2>3. q \in c.merging
    <3>1. CASE q # p
      BY <1>1, <2>2, <3>1 DEF CheckedIs
    <3>2. CASE q = p
      BY <1>1, <1>2, <2>2, <3>2 DEF CheckedIs, Full
    <3> QED  BY <3>1, <3>2
  <2>4. c.merge_mode
    BY <1>1, <2>2, <2>3 DEF CheckedIs
  <2> QED  BY <2>1, <2>3, <2>4 DEF Merging, Place
<1>4. Bits(n) => Bits(c)
  <2> SUFFICES ASSUME Bits(n)  PROVE Bits(c)
    OBVIOUS
  <2>1. ASSUME NEW q \in c.merging  PROVE Full(c, q)
    <3>1. q \in n.merging /\ q \in Port
      BY <1>1, Fields DEF CheckedIs
    <3>2. Full(n, q)
      BY <3>1 DEF Bits
    <3>3. n.merge_mode
      BY <3>1 DEF Bits
    <3>4. q = p => \A x \in Place : ~(n.source[p][x].age > MergeTimeout)
      BY <1>1, <2>1, <3>3 DEF CheckedIs
    <3>5. \A x \in Place : c.source[q][x] = n.source[q][x]
      BY <1>1, <1>2, <3>1, <3>4 DEF CheckedIs
    <3> QED  BY <3>2, <3>5 DEF Full
  <2>2. c.merge_mode <=> c.merging # {}
    BY <1>1 DEF CheckedIs, Bits
  <2> QED  BY <2>1, <2>2 DEF Bits
<1>5. CASE Skips(n, p, m, r)
  BY <1>5 DEF Skips
<1>6. CASE Refuses(n, p, m, r)
  <2>1. r.source = c.source /\ r.merging = c.merging /\ r.merge_mode = c.merge_mode
    BY <1>6, RefusedEffect
  <2> QED  BY <1>3, <1>4, <2>1 DEF Merging, Bits, Full
<1>7. ASSUME NEW x \in Place, Takes(n, p, x, m, r)
      PROVE  Merging(r) /\ (Bits(c) => Bits(r))
  <2>1. AcceptedIs(c, p, x, m, r)
    BY <1>1, <1>7, AcceptedEffect DEF Takes, CheckedIs
  <2>2. Other(x) \in Place /\ Place = {x, Other(x)} /\ (x = "a" \/ x = "b") /\ Other("a") = "b" /\ Other("b") = "a"
    BY DEF Other, Place
  <2> HIDE DEF r, c
  <2>3. /\ \A q \in Port : q # p => r.source[q] = c.source[q]
        /\ r.source[p][x] = Current(m) /\ r.source[p][Other(x)] = c.source[p][Other(x)]
        /\ r.merging = IF c.source[p][Other(x)].ip = NoIp THEN c.merging ELSE c.merging \cup {p}
        /\ r.merge_mode <=> c.source[p][Other(x)].ip # NoIp \/ c.merge_mode
    BY <2>1 DEF AcceptedIs
  <2>4. /\ Current(m).ip = m.source.ip /\ Current(m).physical = m.source.physical /\ m.source.ip # NoIp
    BY SourceFacts DEF Current, ArtDmx
  <2>5. Full(r, p) <=> c.source[p][Other(x)].ip # NoIp
    BY <2>2, <2>3, <2>4 DEF Full
  <2>6. \A q \in Port : q # p => (Full(r, q) <=> Full(c, q))
    BY <2>3 DEF Full
  <2>7. Full(r, p) => \/ r.source[p]["a"].ip # r.source[p]["b"].ip
                      \/ r.source[p]["a"].physical # r.source[p]["b"].physical
    <3> SUFFICES ASSUME Full(r, p)
                 PROVE  ~(Current(m).ip = c.source[p][Other(x)].ip /\ Current(m).physical = c.source[p][Other(x)].physical)
      BY <2>2, <2>3
    <3>1. CASE Continues(c, p, x, m.source)
      <4>1. Full(c, p)
        BY <2>2, <2>4, <2>5, <3>1 DEF Full, Continues
      <4>2. \/ c.source[p]["a"].ip # c.source[p]["b"].ip
            \/ c.source[p]["a"].physical # c.source[p]["b"].physical
        BY <1>3, <4>1 DEF Merging
      <4> QED  BY <2>2, <2>4, <3>1, <4>2 DEF Continues
    <3>2. CASE ~Continues(c, p, Other(x), m.source)
      BY <2>4, <3>2 DEF Continues
    <3> QED  BY <1>7, <2>2, <3>1, <3>2 DEF Takes, c
  <2>8. Merging(r)
    <3> SUFFICES ASSUME NEW q \in Port, Full(r, q)
                 PROVE  /\ q \in r.merging /\ r.merge_mode
                        /\ \/ r.source[q]["a"].ip # r.source[q]["b"].ip
                           \/ r.source[q]["a"].physical # r.source[q]["b"].physical
      BY DEF Merging
    <3>1. CASE q = p
      BY <2>3, <2>5, <2>7, <3>1
    <3>2. CASE q # p
      <4>1. q \in c.merging /\ c.merge_mode
        BY <1>3, <2>6, <3>2 DEF Merging
      <4> QED  BY <1>3, <2>3, <2>6, <3>2, <4>1 DEF Merging
    <3> QED  BY <3>1, <3>2
  <2>9. Bits(c) => Bits(r)
    <3> SUFFICES ASSUME Bits(c)  PROVE Bits(r)
      OBVIOUS
    <3>1. p \in c.merging => c.source[p][Other(x)].ip # NoIp
      BY <2>2 DEF Bits, Full
    <3>2. c.merging \subseteq Port
      BY <1>1, Fields DEF CheckedIs
    <3> QED  BY <2>3, <2>5, <2>6, <3>1, <3>2 DEF Bits
  <2> QED  BY <2>8, <2>9
<1> QED  BY <1>3, <1>4, <1>5, <1>6, <1>7, ReceiveCases

LEMMA MergingLoop ==
    ASSUME Types, Merging(node), NEW m \in ArtDmx
    PROVE  \A i \in 0 .. NumPorts : Merging(Received(m)[i]) /\ (Bits(node) => Bits(Received(m)[i]))
<1> DEFINE f == Received(m)
           S == {i \in 0 .. NumPorts : Merging(f[i]) /\ (Bits(node) => Bits(f[i]))}
<1>1. NumPorts \in Nat /\ \A i \in 0 .. NumPorts - 1 : i \in Port
  BY SourceFacts DEF Port
<1>2. f[0] = node /\ \A i \in 0 .. NumPorts - 1 : f[i] \in Node /\ f[i + 1] = Receive(f[i], i, m)
  BY <1>1, Loop, LoopNodes
<1> HIDE DEF f
<1>3. 0 \in S
  BY <1>1, <1>2
<1>4. \A i \in 0 .. NumPorts - 1 : i \in S => i + 1 \in S
  BY <1>1, <1>2, MergingStep
<1> QED
  <2> HIDE DEF S
  <2>1. 0 .. NumPorts \subseteq S
    BY <1>1, <1>3, <1>4, SetInduction
  <2> QED  BY <1>1, <2>1 DEF S, f
-----------------------------------------------------------------------------
(* The invariant.                                                          *)
LEMMA MergeInit == Init => MergeInv
<1> SUFFICES ASSUME Init  PROVE MergeInv
  OBVIOUS
<1>0. SyncTimeout \in Nat \ {0} /\ DataLossTimeout \in Nat \ {0} /\ Slots \in Nat \ {0} /\ MaxLevel \in Nat
      /\ MergeTimeout \in Nat \ {0} /\ scenario.addresses \in [Port -> Address]
  BY MergeAssumption DEF Init
<1>1. Free \in Entry /\ Dark \in Frame /\ Free.ip = NoIp
  BY <1>0 DEF Free, Dark, Entry, AnyIp, AnyPhysical, Ages, Frame, Level
<1>2. /\ node.source \in PortEntries /\ node.data \in PortData /\ node.output \in PortFrames
      /\ node.length \in PortLengths /\ node.line \in PortFrames /\ node.merging \in SomePorts
      /\ node.pending \in SomePorts /\ node.merge_mode \in BOOLEAN /\ node.refused = FALSE
  BY <1>1 DEF Init, PortEntries, PortData, PortFrames, PortLengths, SomePorts
<1>3. node \in Node
  <2> DEFINE e == [p \in Port |-> [x \in Place |-> Free]]
             d == [p \in Port |-> [x \in Place |-> Dark]]
             o == [p \in Port |-> Dark]
             l == [p \in Port |-> 0]
  <2>1. node = [source |-> e, data |-> d, output |-> o, length |-> l, line |-> o, merging |-> {},
                merge_mode |-> FALSE, pending |-> {}, refused |-> FALSE]
    BY DEF Init
  <2> HIDE DEF e, d, o, l
  <2> QED  BY <1>2, <2>1 DEF Node
<1>4. \A p \in Port, x \in Place : node.source[p][x].ip = NoIp
  BY <1>1 DEF Init
<1>5. heard \in [Address -> [scenario.sources -> [level : Level, length : 1 .. Slots, age : Ages]]]
  BY <1>0 DEF Init, Level, Ages
<1>6. Types
  BY <1>0, <1>2, <1>3, <1>5 DEF Init, Types
<1>7. \A p \in Port, x \in Place, s \in scenario.sources : ~Continues(node, p, x, s)
  BY <1>4, <1>6, SourceFacts DEF Continues, Types, Sources
<1>8. \A p \in Port : ~Full(node, p)
  BY <1>4 DEF Full, Place
<1>9. node.merging = {} /\ ~node.merge_mode
  BY DEF Init
<1>10. Merging(node) /\ Known /\ Bits(node) /\ Fresh /\ Held
  BY <1>4, <1>7, <1>8, <1>9 DEF Merging, Known, Bits, Fresh, Held
<1>11. address = scenario.addresses /\ silence < DataLossTimeout
  BY <1>0 DEF Init
<1> QED  BY <1>6, <1>10, <1>11 DEF MergeInv

\* What the invariant says of the places carries over to a step that keeps them.
Placed == /\ Merging(node) /\ Known
          /\ ~Occurs("silence") => Bits(node)
          /\ ~Occurs("switch") => Fresh /\ (Apart => Held)

LEMMA PlacedKept ==
    ASSUME MergeInv,
           node'.source = node.source, node'.data = node.data,
           node'.merging = node.merging, node'.merge_mode = node.merge_mode,
           scenario' = scenario, heard' = heard, Occurs("switch") \/ address' = address
    PROVE  Placed'
<1>1. Placed
  BY DEF MergeInv, Placed
<1>2. Merging(node)' /\ Known' /\ (Bits(node) => Bits(node)')
  BY <1>1 DEF Placed, Merging, Known, Bits, Full, Continues
<1>3. ~Occurs("switch") => (Fresh => Fresh') /\ (Apart' => Apart) /\ (Held => Held')
  BY DEF Fresh, Held, Apart, Continues
<1>4. Occurs("silence")' <=> Occurs("silence")
  BY DEF Occurs
<1>5. Occurs("switch")' <=> Occurs("switch")
  BY DEF Occurs
<1> QED  BY <1>1, <1>2, <1>3, <1>4, <1>5 DEF Placed

\* So does it when all places are freed.
LEMMA PlacedFreed ==
    ASSUME MergeInv, \A p \in Port, x \in Place : node'.source[p][x].ip = NoIp,
           Occurs("silence") \/ (node'.merging = {} /\ ~node'.merge_mode),
           scenario' = scenario
    PROVE  Placed'
<1>1. \A p \in Port, x \in Place, s \in scenario.sources : ~Continues(node, p, x, s)'
  BY SourceFacts DEF MergeInv, Types, Sources, Continues
<1>2. \A p \in Port : ~Full(node, p)'
  BY DEF Full, Place
<1>3. Merging(node)' /\ Known' /\ Fresh' /\ Held' /\ (Occurs("silence") \/ Bits(node)')
  BY <1>1, <1>2 DEF Merging, Known, Fresh, Held, Bits
<1>4. Occurs("silence")' <=> Occurs("silence")
  BY DEF Occurs
<1> QED  BY <1>3, <1>4 DEF Placed

\* What an ArtDmx does to the places, with what has been heard.
LEMMA PlacedDmx ==
    ASSUME MergeInv, NEW m \in Message, HandleDmx(m)
    PROVE  Placed'
<1> DEFINE n == Received(m)[NumPorts]
<1>0. Types /\ Merging(node) /\ Known
  BY DEF MergeInv
<1>1. /\ m \in ArtDmx /\ m.source \in scenario.sources /\ m.address \in scenario.sent /\ m.source \in Sources
      /\ n \in Node /\ node'.source = n.source /\ node'.data = n.data
      /\ node'.merging = n.merging /\ node'.merge_mode = n.merge_mode
  BY <1>0, DmxNode DEF ArtDmx
<1>2. /\ scenario' = scenario /\ address' = address
      /\ heard' = [heard EXCEPT ![m.address][m.source] = [level |-> m.level, length |-> m.length, age |-> 0]]
  BY DEF HandleDmx, InputUdp
<1>3. scenario \in Scenarios /\ address \in [Port -> Address] /\ m.address \in Address
      /\ scenario.sources \subseteq Sources
  BY <1>0, <1>1, MergeAssumption DEF Types, Sources
<1>4. \A d \in Address, s \in scenario.sources :
         heard'[d][s] = IF d = m.address /\ s = m.source
                        THEN [level |-> m.level, length |-> m.length, age |-> 0] ELSE heard[d][s]
  BY <1>0, <1>1, <1>2, <1>3 DEF Types
<1> HIDE DEF n
<1>5. /\ Merging(node)' /\ (Bits(node) => Bits(node)')
  <2>1. Merging(n) /\ (Bits(node) => Bits(n))
    BY <1>0, <1>1, MergingLoop, SourceFacts DEF n
  <2> QED  BY <1>1, <2>1 DEF Merging, Bits, Full
\* A place that is taken is the sender's, or was taken.
<1>6. ASSUME NEW p \in Port, NEW x \in Place, node'.source[p][x].ip # NoIp
      PROVE  \/ /\ address[p] = m.address /\ node'.source[p][x] = Current(m)
                /\ \A i \in 1 .. m.length : node'.data[p][x][i] = m.level
             \/ /\ node'.source[p][x] = node.source[p][x] /\ node'.data[p][x] = node.data[p][x]
                /\ \/ ~From(node.source[p][x], m.source)
                   \/ address[p] # m.address \/ Received(m)[p].refused
  <2>0. \A y \in Place : \A checks : Kept(node.source[p][y], checks).ip # NoIp =>
           Kept(node.source[p][y], checks) = node.source[p][y]
    <3> SUFFICES ASSUME NEW y \in Place  PROVE [node.source[p][y] EXCEPT !.ip = NoIp].ip = NoIp
      BY DEF Kept
    <3>1. node.source[p][y] \in Entry
      BY <1>0, Fields DEF Types
    <3> QED  BY <3>1, Freed
  <2>1. CASE Skipped(p, m, n)
    BY <1>1, <2>1 DEF Skipped
  <2>2. CASE Refused(p, m, n)
    <3>1. n.source[p][x] = node.source[p][x] /\ n.data[p] = node.data[p]
      BY <1>1, <1>6, <2>0, <2>2 DEF Refused
    <3>2. ~Continues(n, p, x, m.source)
      BY <2>2 DEF Refused
    <3> QED  BY <1>1, <3>1, <3>2 DEF Continues, From
  <2>3. ASSUME NEW y \in Place, Taken(p, y, m, n), x = y
        PROVE  /\ address[p] = m.address /\ node'.source[p][x] = Current(m)
               /\ \A i \in 1 .. m.length : node'.data[p][x][i] = m.level
    BY <1>1, <2>3 DEF Taken
  <2>4. ASSUME NEW y \in Place, Taken(p, y, m, n), x # y
        PROVE  /\ node'.source[p][x] = node.source[p][x] /\ node'.data[p][x] = node.data[p][x]
               /\ ~From(node.source[p][x], m.source)
    <3>1. x = Other(y) /\ y = Other(x) /\ (\A z \in Place : z = x \/ z = y)
          /\ ((x = "a" /\ y = "b") \/ (x = "b" /\ y = "a"))
      <4>1. (x = "a" /\ y = "b") \/ (x = "b" /\ y = "a")
        BY <2>4 DEF Place
      <4>2. Other("a") = "b" /\ Other("b") = "a"
        BY DEF Other
      <4>3. \A z \in Place : z = x \/ z = y
        BY <4>1 DEF Place
      <4>4. x = Other(y) /\ y = Other(x)
        BY <4>1, <4>2
      <4> QED  BY <4>1, <4>3, <4>4
    <3>2. n.source[p][x] = node.source[p][x] /\ n.data[p][x] = node.data[p][x]
      BY <1>1, <1>6, <2>0, <2>4, <3>1 DEF Taken
    <3>3. ~From(node.source[p][x], m.source)
      <4>1. CASE From(Kept(node.source[p][y], Received(m)[p].merge_mode), m.source)
        <5>1. m.source.ip # NoIp
          BY <1>1, SourceFacts
        <5>2. From(node.source[p][y], m.source) /\ node.source[p][y].ip # NoIp
          BY <2>0, <4>1, <5>1 DEF From
        <5>3. From(node.source[p][x], m.source) => Full(node, p)
          BY <3>1, <5>1, <5>2 DEF Full, From
        <5>4. Full(node, p) => \/ node.source[p][x].ip # node.source[p][y].ip
                               \/ node.source[p][x].physical # node.source[p][y].physical
          BY <1>0, <3>1 DEF Merging
        <5> QED  BY <5>2, <5>3, <5>4 DEF From
      <4>2. CASE ~From(n.source[p][Other(y)], m.source)
        BY <3>1, <3>2, <4>2
      <4> QED  BY <2>4, <4>1, <4>2 DEF Taken
    <3> QED  BY <1>1, <3>2, <3>3
  <2>5. Skipped(p, m, n) \/ Refused(p, m, n) \/ \E y \in Place : Taken(p, y, m, n)
    BY <1>0, <1>1, Outcome DEF n
  <2> QED  BY <2>1, <2>2, <2>3, <2>4, <2>5
<1>7. \A p \in Port, x \in Place : node'.source[p][x] = Current(m) =>
         /\ Continues(node, p, x, m.source)' /\ node'.source[p][x].age = 0
         /\ \A s \in scenario.sources : Continues(node, p, x, s)' => s = m.source
  BY <1>1, <1>2, <1>3, SourceFacts DEF Continues, Current
<1>8. Known'
  <2> SUFFICES ASSUME NEW p \in Port, NEW x \in Place, node'.source[p][x].ip # NoIp
               PROVE  \E s \in scenario.sources : Continues(node, p, x, s)'
    BY <1>2 DEF Known
  <2>1. CASE node'.source[p][x] = Current(m)
    BY <1>1, <1>7, <2>1
  <2>2. CASE node'.source[p][x] = node.source[p][x]
    <3>1. PICK s \in scenario.sources : Continues(node, p, x, s)
      BY <1>0, <2>2 DEF Known
    <3> QED  BY <2>2, <3>1 DEF Continues
  <2> QED  BY <1>6, <2>1, <2>2
<1>9. \A p \in Port, x \in Place, s \in scenario.sources :
         Continues(node, p, x, s)' => node'.source[p][x].ip # NoIp
  BY <1>2, <1>3, SourceFacts DEF Continues
<1>10. ASSUME Fresh  PROVE Fresh'
  <2> SUFFICES ASSUME NEW p \in Port, NEW x \in Place, NEW s \in scenario.sources, Continues(node, p, x, s)'
               PROVE  heard'[address[p]][s].age <= node'.source[p][x].age
    BY <1>2 DEF Fresh
  <2>0. address[p] \in Address
    BY <1>3
  <2>1. CASE address[p] = m.address /\ node'.source[p][x] = Current(m)
    <3>1. s = m.source /\ node'.source[p][x].age = 0
      BY <1>7, <2>1
    <3> QED  BY <1>4, <2>0, <2>1, <3>1
  <2>2. CASE node'.source[p][x] = node.source[p][x]
    <3>1. Continues(node, p, x, s)
      BY <2>2 DEF Continues
    <3>2. heard[address[p]][s].age <= node.source[p][x].age
      BY <1>10, <3>1 DEF Fresh
    <3>3. node.source[p][x].age \in Nat
      BY <1>0, Fields, SourceFacts DEF Types, Entry
    <3> QED  BY <1>4, <2>0, <2>2, <3>2, <3>3
  <2> QED  BY <1>6, <1>9, <2>1, <2>2
\* A port that has its address for itself is not left out.
<1>11. ASSUME Apart, address = scenario.addresses, NEW p \in Port, address[p] = m.address
       PROVE  ~Received(m)[p].refused
  <2> SUFFICES ASSUME Received(m)[p].refused  PROVE FALSE
    OBVIOUS
  <2>1. PICK q \in Port : q < p /\ Refuses(Received(m)[q], q, m, Received(m)[q + 1])
    BY <1>0, <1>1, LoopRefused, SourceFacts DEF Port
  <2>2. address[q] = m.address /\ q # p
    BY <2>1 DEF Refuses, Port
  <2> QED  BY <1>11, <2>2 DEF Apart
<1>12. ASSUME Held, Apart, address = scenario.addresses  PROVE Held'
  <2> SUFFICES ASSUME NEW p \in Port, NEW x \in Place, NEW s \in scenario.sources, Continues(node, p, x, s)'
               PROVE  \A i \in 1 .. heard'[address[p]][s].length : node'.data[p][x][i] = heard'[address[p]][s].level
    BY <1>2 DEF Held
  <2>0. address[p] \in Address
    BY <1>3
  <2>1. CASE /\ address[p] = m.address /\ node'.source[p][x] = Current(m)
             /\ \A i \in 1 .. m.length : node'.data[p][x][i] = m.level
    <3>1. s = m.source
      BY <1>7, <2>1
    <3> QED  BY <1>4, <2>0, <2>1, <3>1
  <2>2. CASE /\ node'.source[p][x] = node.source[p][x] /\ node'.data[p][x] = node.data[p][x]
             /\ ~From(node.source[p][x], m.source) \/ address[p] # m.address
    <3>1. Continues(node, p, x, s)
      BY <2>2 DEF Continues
    <3>2. heard'[address[p]][s] = heard[address[p]][s]
      BY <1>4, <2>0, <2>2, <3>1 DEF Continues, From
    <3> QED  BY <1>12, <2>2, <3>1, <3>2 DEF Held
  <2> QED  BY <1>6, <1>9, <1>11, <1>12, <2>1, <2>2
<1>13. (Occurs("silence")' <=> Occurs("silence")) /\ (Occurs("switch")' <=> Occurs("switch")) /\ (Apart' <=> Apart)
  BY <1>2 DEF Occurs, Apart
<1> QED  BY <1>5, <1>8, <1>10, <1>12, <1>13 DEF MergeInv, Placed

\* Types after a step, from what it changes.
LEMMA TypesKept ==
    ASSUME Types, node' \in Node, node'.refused = FALSE, scenario' = scenario,
           ltp' \subseteq Port, address' \in [Port -> Address],
           synchronous' \in BOOLEAN, sync_age' \in Nat, silence' \in Nat,
           heard' \in [Address -> [scenario.sources -> [level : Level, length : 1 .. Slots, age : Ages]]]
    PROVE  Types'
BY DEF Types

LEMMA DmxStep ==
    ASSUME MergeInv, NEW m \in Message, HandleDmx(m)
    PROVE  MergeInv'
<1>1. Placed'
  BY PlacedDmx
<1>2. Types /\ StillSynchronous \in BOOLEAN /\ DataLossTimeout \in Nat \ {0}
  BY MergeAssumption DEF MergeInv, StillSynchronous, Types
<1>3. /\ m \in ArtDmx /\ m.source \in scenario.sources /\ m.address \in Address
      /\ node' \in Node /\ node'.refused = FALSE
  BY <1>2, DmxNode, MergeAssumption DEF Types
<1>4. [level |-> m.level, length |-> m.length, age |-> 0] \in [level : Level, length : 1 .. Slots, age : Ages]
  BY <1>3, SourceFacts DEF ArtDmx
<1>5. heard' \in [Address -> [scenario.sources -> [level : Level, length : 1 .. Slots, age : Ages]]]
  <2> DEFINE R == [level : Level, length : 1 .. Slots, age : Ages]
             e == [level |-> m.level, length |-> m.length, age |-> 0]
  <2>1. heard \in [Address -> [scenario.sources -> R]] /\ e \in R
    BY <1>2, <1>4 DEF Types
  <2>2. heard' = [heard EXCEPT ![m.address] = [heard[m.address] EXCEPT ![m.source] = e]]
    BY DEF HandleDmx
  <2> HIDE DEF R, e
  <2>3. [heard[m.address] EXCEPT ![m.source] = e] \in [scenario.sources -> R]
    BY <1>3, <2>1
  <2>4. heard' \in [Address -> [scenario.sources -> R]]
    BY <1>3, <2>1, <2>2, <2>3
  <2> QED  BY <2>4 DEF R
<1>6. Types'
  BY <1>2, <1>3, <1>5, TypesKept DEF HandleDmx, InputUdp, Types
<1>7. silence' < DataLossTimeout /\ (Occurs("switch")' <=> Occurs("switch")) /\ address' = address /\ scenario' = scenario
  BY <1>2 DEF HandleDmx, InputUdp, Occurs
<1> QED  BY <1>1, <1>6, <1>7 DEF MergeInv, Placed

\* A packet that keeps the places.
LEMMA PacketStep ==
    ASSUME MergeInv, InputUdp, UNCHANGED heard,
           node' \in Node, node'.refused = FALSE, ltp' \subseteq Port, address' \in [Port -> Address],
           synchronous' \in BOOLEAN, sync_age' \in Nat, Occurs("switch") \/ address' = address, Placed'
    PROVE  MergeInv'
<1>1. Types' /\ silence' < DataLossTimeout
  BY TypesKept, MergeAssumption DEF MergeInv, InputUdp, Types
<1>2. (Occurs("switch")' <=> Occurs("switch")) /\ scenario' = scenario
  BY DEF InputUdp, Occurs
<1> QED  BY <1>1, <1>2 DEF MergeInv, Placed

LEMMA SyncStep ==
    ASSUME MergeInv, NEW ip, HandleSync(ip)
    PROVE  MergeInv'
<1>1. Types /\ StillSynchronous \in BOOLEAN /\ sync_age \in Nat
  BY DEF MergeInv, StillSynchronous, Types
<1>2. /\ InputUdp /\ UNCHANGED <<ltp, address, dmx_ip, heard>>
      /\ synchronous' \in BOOLEAN /\ sync_age' \in Nat
  <2>1. InputUdp /\ UNCHANGED <<ltp, address, dmx_ip, heard>>
    BY DEF HandleSync
  <2>2. (synchronous' = TRUE /\ sync_age' = 0) \/ (synchronous' = StillSynchronous /\ sync_age' = sync_age)
    BY DEF HandleSync
  <2>3. CASE synchronous' = TRUE /\ sync_age' = 0
    BY <2>1, <2>3
  <2>4. CASE synchronous' = StillSynchronous /\ sync_age' = sync_age
    BY <1>1, <2>1, <2>4
  <2> QED  BY <2>2, <2>3, <2>4
<1>3. /\ node' \in Node /\ node'.refused = FALSE
      /\ node'.source = node.source /\ node'.data = node.data
      /\ node'.merging = node.merging /\ node'.merge_mode = node.merge_mode
  <2> DEFINE line == [p \in Port |-> IF p \in node.pending THEN node.output[p] ELSE node.line[p]]
  <2>1. line \in PortFrames /\ {} \in SomePorts
    BY <1>1, Fields DEF Types, PortFrames, SomePorts
  <2>2. node' = node \/ node' = [node EXCEPT !.pending = {}, !.line = line]
    BY DEF HandleSync
  <2> HIDE DEF line
  <2> QED  BY <1>1, <2>1, <2>2 DEF Types, Node
<1>4. Placed'
  BY <1>2, <1>3, PlacedKept DEF InputUdp
<1> QED  BY <1>1, <1>2, <1>3, <1>4, PacketStep DEF Types

LEMMA OtherStep ==
    ASSUME MergeInv, \/ HandleOther
                     \/ \E p \in Port : HandleMergeMode(p)
                     \/ \E p \in Port, d \in Address : HandleSwitch(p, d)
    PROVE  MergeInv'
<1>1. Types /\ StillSynchronous \in BOOLEAN
  BY DEF MergeInv, StillSynchronous, Types
<1>2. InputUdp /\ UNCHANGED <<node, heard, sync_age>> /\ synchronous' = StillSynchronous
  BY DEF HandleOther, HandleMergeMode, HandleSwitch
<1>3. ltp' \subseteq Port /\ address' \in [Port -> Address] /\ (Occurs("switch") \/ address' = address)
  BY <1>1 DEF HandleOther, HandleMergeMode, HandleSwitch, Types
<1>4. Placed'
  BY <1>2, <1>3, PlacedKept DEF InputUdp
<1> QED  BY <1>1, <1>2, <1>3, <1>4, PacketStep DEF Types

\* A node whose places are all freed.
LEMMA FreedNode ==
    ASSUME NEW n \in Node
    PROVE  LET source == [p \in Port |-> [x \in Place |-> [n.source[p][x] EXCEPT !.ip = NoIp]]]
           IN  source \in PortEntries /\ \A p \in Port, x \in Place : source[p][x].ip = NoIp
<1>1. \A p \in Port, x \in Place : n.source[p][x] \in Entry
  BY Fields
<1>2. \A p \in Port, x \in Place : [n.source[p][x] EXCEPT !.ip = NoIp] \in Entry
                                   /\ [n.source[p][x] EXCEPT !.ip = NoIp].ip = NoIp
  BY <1>1, Freed
<1> QED  BY <1>2 DEF PortEntries

LEMMA CancelStep ==
    ASSUME MergeInv, HandleCancel
    PROVE  MergeInv'
<1>1. Types /\ StillSynchronous \in BOOLEAN
  BY DEF MergeInv, StillSynchronous, Types
<1> DEFINE source == [p \in Port |-> [x \in Place |-> [node.source[p][x] EXCEPT !.ip = NoIp]]]
<1>2. source \in PortEntries /\ \A p \in Port, x \in Place : source[p][x].ip = NoIp
  BY <1>1, FreedNode DEF Types
<1>3. node' = [node EXCEPT !.merging = {}, !.merge_mode = FALSE, !.source = source]
  BY DEF HandleCancel
<1> HIDE DEF source
<1>4. /\ node' \in Node /\ node'.refused = FALSE /\ node'.source = source
      /\ node'.merging = {} /\ ~node'.merge_mode
  <2>1. {} \in SomePorts
    BY DEF SomePorts
  <2> QED  BY <1>1, <1>2, <1>3, <2>1 DEF Types, Node
<1>5. Placed'
  BY <1>2, <1>4, PlacedFreed DEF HandleCancel, InputUdp
<1> QED  BY <1>1, <1>4, <1>5, PacketStep DEF HandleCancel, Types

LEMMA DataLossStep ==
    ASSUME MergeInv, SetNetworkDataLossCondition
    PROVE  MergeInv'
<1>1. Types
  BY DEF MergeInv
<1>0. Occurs("silence")
  BY <1>1, MergeAssumption DEF MergeInv, SetNetworkDataLossCondition, Types
<1> DEFINE source == [p \in Port |-> [x \in Place |-> [node.source[p][x] EXCEPT !.ip = NoIp]]]
           length == [p \in Port |-> 0]
<1>2. source \in PortEntries /\ length \in PortLengths /\ \A p \in Port, x \in Place : source[p][x].ip = NoIp
  BY <1>1, FreedNode DEF Types, PortLengths
<1>3. \/ node' = [node EXCEPT !.merge_mode = FALSE, !.length = length, !.source = source]
      \/ node' = [node EXCEPT !.merge_mode = FALSE] /\ \A p \in Port, x \in Place : node.source[p][x].ip = NoIp
  BY DEF SetNetworkDataLossCondition
<1> HIDE DEF source, length
<1>4. node' \in Node /\ node'.refused = FALSE /\ \A p \in Port, x \in Place : node'.source[p][x].ip = NoIp
  BY <1>1, <1>2, <1>3, ZenonT(30) DEF Types, Node
<1>5. Placed'
  BY <1>0, <1>4, PlacedFreed DEF SetNetworkDataLossCondition
<1>6. Types'
  BY <1>1, <1>4, TypesKept DEF SetNetworkDataLossCondition, Types
<1>7. Occurs("silence")' /\ (Occurs("switch")' <=> Occurs("switch")) /\ address' = address /\ scenario' = scenario
  BY <1>0 DEF SetNetworkDataLossCondition, Occurs
<1> QED  BY <1>5, <1>6, <1>7 DEF MergeInv, Placed

\* Time: the ages of the places and of what was heard grow together.
LEMMA OlderIs ==
    /\ \A a \in Ages : Older(a) \in Ages
    /\ \A a, b \in Ages : a <= b => Older(a) <= Older(b)
BY MergeAssumption DEF Older, Ages

LEMMA TickStep ==
    ASSUME MergeInv, Tick
    PROVE  MergeInv'
<1>1. Types
  BY DEF MergeInv
<1>2. UNCHANGED <<ltp, address, synchronous, dmx_ip, scenario>>
  BY DEF Tick
<1> DEFINE R == [level : Level, length : 1 .. Slots, age : Ages]
           source == [p \in Port |-> [x \in Place |-> [node.source[p][x] EXCEPT !.age = Older(@)]]]
<1>3. heard \in [Address -> [scenario.sources -> R]] /\ heard' = [d \in Address |-> [s \in scenario.sources |->
                   [heard[d][s] EXCEPT !.age = Older(@)]]]
  BY <1>1 DEF Types, Tick
<1>4. \A d \in Address, s \in scenario.sources :
         /\ heard'[d][s] \in R /\ heard[d][s].age \in Ages
         /\ heard'[d][s].level = heard[d][s].level /\ heard'[d][s].length = heard[d][s].length
         /\ heard'[d][s].age = Older(heard[d][s].age)
  <2> SUFFICES ASSUME NEW d \in Address, NEW s \in scenario.sources
               PROVE  /\ heard'[d][s] \in R /\ heard[d][s].age \in Ages
                      /\ heard'[d][s].level = heard[d][s].level /\ heard'[d][s].length = heard[d][s].length
                      /\ heard'[d][s].age = Older(heard[d][s].age)
    OBVIOUS
  <2>1. heard[d][s] \in R
    <3> HIDE DEF R
    <3> QED  BY <1>3
  <2>2. heard'[d][s] = [heard[d][s] EXCEPT !.age = Older(heard[d][s].age)]
    BY <1>3
  <2> QED  BY <2>1, <2>2, OlderIs
<1>5. heard' \in [Address -> [scenario.sources -> R]]
  <2> HIDE DEF R
  <2> QED  BY <1>3, <1>4
<1>6. \A p \in Port, x \in Place :
         /\ source[p][x] \in Entry /\ node.source[p][x].age \in Ages
         /\ source[p][x].ip = node.source[p][x].ip /\ source[p][x].physical = node.source[p][x].physical
         /\ source[p][x].age = Older(node.source[p][x].age)
  <2>1. \A p \in Port, x \in Place : node.source[p][x] \in Entry
    BY <1>1, Fields DEF Types
  <2> QED  BY <2>1, OlderIs DEF Entry
<1>7. source \in PortEntries
  <2>1. source = [p \in Port |-> [x \in Place |-> source[p][x]]]
    OBVIOUS
  <2> HIDE DEF source
  <2> QED  BY <1>6, <2>1 DEF PortEntries
<1>8. node' = [node EXCEPT !.source = source]
  BY DEF Tick
<1> HIDE DEF source
<1>9. /\ node' \in Node /\ node'.refused = FALSE /\ node'.source = source /\ node'.data = node.data
      /\ node'.merging = node.merging /\ node'.merge_mode = node.merge_mode
  BY <1>1, <1>7, <1>8 DEF Types, Node
<1>10. Types'
  <2>1. silence' \in Nat /\ sync_age' \in Nat
    BY <1>1 DEF Types, Tick
  <2> QED  BY <1>1, <1>2, <1>5, <1>9, <2>1, TypesKept DEF Types
<1>11. (\A p \in Port : Full(node, p)' <=> Full(node, p))
  BY <1>6, <1>9 DEF Full
<1>12. \A p \in Port, x \in Place, s \in scenario.sources : Continues(node, p, x, s)' <=> Continues(node, p, x, s)
  BY <1>6, <1>9 DEF Continues
<1>13. Merging(node) => Merging(node)'
  BY <1>6, <1>9, <1>11 DEF Merging, Place
<1>14. Known => Known'
  BY <1>2, <1>6, <1>9, <1>12 DEF Known
<1>15. Bits(node) => Bits(node)'
  <2>1. node.merging \subseteq Port
    BY <1>1, Fields DEF Types
  <2> QED  BY <1>9, <1>11, <2>1 DEF Bits
<1>16. Fresh => Fresh'
  <2> SUFFICES ASSUME Fresh, NEW p \in Port, NEW x \in Place, NEW s \in scenario.sources, Continues(node, p, x, s)
               PROVE  heard'[address[p]][s].age <= node'.source[p][x].age
    BY <1>2, <1>12 DEF Fresh
  <2>1. address[p] \in Address /\ heard[address[p]][s].age <= node.source[p][x].age
    BY <1>1 DEF Fresh, Types
  <2> QED  BY <1>4, <1>6, <1>9, <2>1, OlderIs
<1>17. (Held => Held') /\ (Apart' <=> Apart)
  <2>1. ASSUME Held, NEW p \in Port, NEW x \in Place, NEW s \in scenario.sources, Continues(node, p, x, s)
        PROVE  \A i \in 1 .. heard'[address[p]][s].length : node'.data[p][x][i] = heard'[address[p]][s].level
    <3>1. address[p] \in Address
      BY <1>1 DEF Types
    <3> QED  BY <1>4, <1>9, <2>1, <3>1 DEF Held
  <2> QED  BY <1>2, <1>12, <2>1 DEF Held, Apart
<1>18. (Occurs("silence")' <=> Occurs("silence")) /\ (Occurs("switch")' <=> Occurs("switch"))
  BY <1>2 DEF Occurs
<1>19. ~Occurs("silence") => silence' < DataLossTimeout
  BY <1>1, MergeAssumption DEF Tick, Types
<1> QED  BY <1>2, <1>10, <1>13, <1>14, <1>15, <1>16, <1>17, <1>18, <1>19 DEF MergeInv
-----------------------------------------------------------------------------
\* Every place that is taken is a source of the scenario that was heard since,
\* a port with two of them is merging, and their data is what they sent last.
THEOREM MergeSafety == Spec => []MergeInv
<1>1. MergeInv /\ [Next]_vars => MergeInv'
  <2> SUFFICES ASSUME MergeInv, [Next]_vars  PROVE MergeInv'
    OBVIOUS
  <2>1. CASE \E m \in Message : HandleDmx(m)
    BY <2>1, DmxStep
  <2>2. CASE \E s \in scenario.sources : HandleSync(s.ip)
    BY <2>2, SyncStep
  <2>3. CASE \/ HandleOther
             \/ \E p \in Port : HandleMergeMode(p)
             \/ \E p \in Port, d \in Address : HandleSwitch(p, d)
    BY <2>3, OtherStep
  <2>4. CASE HandleCancel
    BY <2>4, CancelStep
  <2>5. CASE SetNetworkDataLossCondition
    BY <2>5, DataLossStep
  <2>6. CASE Tick
    BY <2>6, TickStep
  <2>7. CASE UNCHANGED vars
    <3>1. Types' /\ Placed' /\ scenario' = scenario /\ silence' = silence /\ address' = address
      BY <2>7, PlacedKept DEF vars, MergeInv, Types
    <3>2. (Occurs("silence")' <=> Occurs("silence")) /\ (Occurs("switch")' <=> Occurs("switch"))
      BY <3>1 DEF Occurs
    <3> QED  BY <3>1, <3>2 DEF MergeInv, Placed
  <2> QED  BY <2>1, <2>2, <2>3, <2>4, <2>5, <2>6, <2>7 DEF Next
<1> QED  BY <1>1, MergeInit, PTL DEF Spec

\* kOutputIsMerging and the merge mode tell the truth, unless the network fell silent.
THEOREM BitsAreTruthful == Spec => []MergingTruthful
<1>1. MergeInv => MergingTruthful
  BY DEF MergeInv, MergingTruthful, Merging, Bits, Full
<1> QED  BY <1>1, MergeSafety, PTL

-----------------------------------------------------------------------------
(* The properties of an ArtDmx.                                            *)
\* The source that a port discards is at none of its places in the end.
LEMMA RefusedDiscards ==
    ASSUME Types, NEW m \in Message, HandleDmx(m), NEW p \in Port,
           Refuses(Received(m)[p], p, m, Received(m)[p + 1])
    PROVE  Discards(m, p)
<1>1. m \in ArtDmx /\ node'.source = Received(m)[NumPorts].source
  BY DmxNode
<1>2. Refused(p, m, Received(m)[NumPorts])
  BY <1>1, RefusedOutcome
<1>3. \A x \in Place : ~Continues(node, p, x, m.source)'
  BY <1>1, <1>2 DEF Refused, Continues
<1> QED  BY <1>2, <1>3 DEF Refused, Discards, Recorded

\* An ArtDmx that is accepted is taken by every port that has its address.
LEMMA AcceptedTaken ==
    ASSUME Types, NEW m \in Message, HandleDmx(m), NEW p \in Port, Accepts(m, p)
    PROVE  \E x \in Place : Taken(p, x, m, Received(m)[NumPorts])
<1>1. m \in ArtDmx /\ address[p] = m.address /\ \A q \in Port : ~Discards(m, q)
  BY DmxNode DEF Accepts
<1>2. \A q \in Port : ~Refuses(Received(m)[q], q, m, Received(m)[q + 1])
  BY <1>1, RefusedDiscards
<1>3. ~Received(m)[p].refused
  BY <1>1, <1>2, LoopRefused, SourceFacts DEF Port
<1>4. ~Skipped(p, m, Received(m)[NumPorts])
  BY <1>1, <1>3 DEF Skipped
<1> QED  BY <1>1, <1>2, <1>4, Outcome

\* A port that is merging is still merging when the loop comes to it.
LEMMA BitStays ==
    ASSUME Types, NEW m \in ArtDmx, NEW p \in Port, p \in node.merging, node.merge_mode
    PROVE  Received(m)[p].merge_mode
<1> DEFINE f == Received(m)
           S == {i \in 0 .. NumPorts : i <= p => p \in f[i].merging /\ f[i].merge_mode}
<1>1. NumPorts \in Nat /\ p \in 0 .. NumPorts /\ \A i \in 0 .. NumPorts - 1 : i \in Port
  BY SourceFacts DEF Port
<1>2. f[0] = node /\ \A i \in 0 .. NumPorts - 1 : f[i] \in Node /\ f[i + 1] = Receive(f[i], i, m)
  BY <1>1, Loop, LoopNodes
<1> HIDE DEF f
<1>3. 0 \in S
  BY <1>1, <1>2
<1>4. \A i \in 0 .. NumPorts - 1 : i \in S => i + 1 \in S
  <2> SUFFICES ASSUME NEW i \in 0 .. NumPorts - 1, i \in S, i + 1 <= p
               PROVE  p \in f[i + 1].merging /\ f[i + 1].merge_mode
    BY <1>1
  <2> DEFINE c == Checked(f[i], i)
             r == f[i + 1]
  <2>1. i \in Port /\ i # p /\ f[i] \in Node /\ r = Receive(f[i], i, m) /\ p \in f[i].merging /\ f[i].merge_mode
    BY <1>1, <1>2
  <2> HIDE DEF r
  <2>2. CheckedIs(f[i], i, c)
    BY <2>1, CheckedEffect
  <2>3. c \in Node /\ p \in c.merging /\ c.merge_mode
    BY <2>1, <2>2 DEF CheckedIs
  <2>4. CASE Skips(f[i], i, m, r)
    BY <2>1, <2>4 DEF Skips, r
  <2>5. CASE Refuses(f[i], i, m, r)
    <3>1. r.merging = c.merging /\ r.merge_mode = c.merge_mode
      BY <2>1, <2>5, RefusedEffect
    <3> HIDE DEF c
    <3> QED  BY <2>3, <3>1 DEF r
  <2>6. ASSUME NEW x \in Place, Takes(f[i], i, x, m, r)  PROVE p \in r.merging /\ r.merge_mode
    <3>1. AcceptedIs(c, i, x, m, r)
      BY <2>1, <2>3, <2>6, AcceptedEffect DEF Takes
    <3> HIDE DEF c
    <3> QED  BY <2>3, <3>1 DEF AcceptedIs
  <2> QED  BY <2>1, <2>4, <2>5, <2>6, ReceiveCases DEF r
<1> QED
  <2> HIDE DEF S
  <2>1. 0 .. NumPorts \subseteq S
    BY <1>1, <1>3, <1>4, SetInduction
  <2>2. p \in S /\ p <= p
    BY <1>1, <2>1
  <2> QED  BY <2>2 DEF S, f

\* A place that is kept by the check is the place as it was, and not too old.
LEMMA KeptIs ==
    ASSUME Types, NEW p \in Port, NEW x \in Place, NEW checks, Kept(node.source[p][x], checks).ip # NoIp
    PROVE  /\ Kept(node.source[p][x], checks) = node.source[p][x]
           /\ node.source[p][x].age \in Nat
           /\ checks => node.source[p][x].age <= MergeTimeout
<1>1. node.source[p][x] \in Entry
  BY Fields DEF Types
<1>2. [node.source[p][x] EXCEPT !.ip = NoIp].ip = NoIp /\ node.source[p][x].age \in Nat
  BY <1>1, Freed, SourceFacts DEF Entry
<1>3. ~(checks /\ node.source[p][x].age > MergeTimeout)
  BY <1>2 DEF Kept
<1> QED  BY <1>2, <1>3, SourceFacts DEF Kept

LEMMA StaleStep ==
    ASSUME MergeInv, NEW m \in Message, NEW p \in Port, HandleDmx(m),
           node.merge_mode, p \in node.merging, Accepts(m, p), NEW y \in Place,
           node'.source[p][y].ip # NoIp
    PROVE  node'.source[p][y].age <= MergeTimeout
<1>1. Types
  BY DEF MergeInv
<1>2. m \in ArtDmx /\ node'.source = Received(m)[NumPorts].source
  BY <1>1, DmxNode
<1>3. PICK x \in Place : Taken(p, x, m, Received(m)[NumPorts])
  BY <1>1, AcceptedTaken
<1>4. Received(m)[p].merge_mode
  BY <1>1, <1>2, BitStays
<1>5. y = x \/ (y = Other(x) /\ Other(x) \in Place)
  BY DEF Place, Other
<1>6. CASE y = x
  <2>1. node'.source[p][y] = Current(m)
    BY <1>2, <1>3, <1>6 DEF Taken
  <2> QED  BY <2>1, SourceFacts DEF Current
<1>7. CASE y = Other(x)
  <2>1. node'.source[p][y] = Kept(node.source[p][y], Received(m)[p].merge_mode)
    BY <1>2, <1>3, <1>7 DEF Taken
  <2> DEFINE checks == Received(m)[p].merge_mode
  <2>2. checks /\ node'.source[p][y] = Kept(node.source[p][y], checks)
    BY <1>4, <2>1
  <2> HIDE DEF checks
  <2>3. Kept(node.source[p][y], checks).ip # NoIp
    BY <2>2
  <2>4. /\ Kept(node.source[p][y], checks) = node.source[p][y]
        /\ checks => node.source[p][y].age <= MergeTimeout
    BY <1>1, <2>3, KeptIs
  <2> QED  BY <2>2, <2>4
<1> QED  BY <1>5, <1>6, <1>7

\* A source that has timed out is merged with at most one ArtDmx.
THEOREM StaleIsMergedOnce == Spec => StaleOnce
<1>1. MergeInv => \A m \in Message, p \in Port :
         HandleDmx(m) /\ node.merge_mode /\ p \in node.merging /\ Accepts(m, p) =>
            \A x \in Place : LET s == node'.source[p][x]
                             IN  s.ip # NoIp => s.age <= MergeTimeout
  BY StaleStep
<1> QED  BY <1>1, MergeSafety, PTL DEF StaleOnce

\* A port discards what it, or a port before it, has refused.
LEMMA DiscardsRefused ==
    ASSUME Types, NEW m \in Message, HandleDmx(m), NEW p \in Port, Discards(m, p)
    PROVE  \E q \in Port : Refuses(Received(m)[q], q, m, Received(m)[q + 1])
<1> DEFINE n == Received(m)[NumPorts]
<1>1. /\ m \in ArtDmx /\ node'.source = n.source /\ m.source \in scenario.sources
      /\ address[p] = m.address /\ scenario' = scenario
  BY DmxNode DEF Discards, HandleDmx, InputUdp
<1> HIDE DEF n
<1>2. \A x \in Place : ~Continues(node, p, x, m.source)'
  BY <1>1 DEF Discards, Recorded
<1>3. \A x \in Place : ~Taken(p, x, m, n)
  BY <1>1, <1>2 DEF Taken, Continues, Current
<1>4. Skipped(p, m, n) => Received(m)[p].refused
  BY <1>1 DEF Skipped
<1>5. CASE Received(m)[p].refused
  BY <1>1, <1>5, LoopRefused, SourceFacts DEF Port
<1>6. CASE ~Received(m)[p].refused
  BY <1>1, <1>3, <1>4, <1>6, Outcome DEF n
<1> QED  BY <1>5, <1>6

LEMMA RefusedStep ==
    ASSUME MergeInv, NEW m \in Message, NEW p \in Port, HandleDmx(m), Discards(m, p),
           OneByAddress, ~Occurs("switch")
    PROVE  TwoOthers(m)
<1>1. Types /\ Merging(node) /\ Known /\ Fresh
  BY DEF MergeInv
<1>2. m \in ArtDmx /\ m.source \in scenario.sources /\ m.source.ip # NoIp
  BY <1>1, DmxNode, SourceFacts DEF ArtDmx
<1>3. PICK q \in Port : Refuses(Received(m)[q], q, m, Received(m)[q + 1])
  BY <1>1, DiscardsRefused
<1> DEFINE n == Received(m)[NumPorts]
           checks == Received(m)[q].merge_mode
<1>4. Refused(q, m, n)
  BY <1>1, <1>2, <1>3, RefusedOutcome
<1> HIDE DEF n, checks
<1>5. \A x \in Place : /\ n.source[q][x] = Kept(node.source[q][x], checks)
                       /\ ~Continues(n, q, x, m.source) /\ ~Joins(n, q, x, m.source)
  BY <1>4 DEF Refused, checks
<1>6. \A x \in Place : n.source[q][x].ip # NoIp =>
         /\ n.source[q][x] = node.source[q][x] /\ node.source[q][x].age \in Nat
         /\ checks => node.source[q][x].age <= MergeTimeout
  BY <1>1, <1>5, KeptIs
\* No place has the address of the sender.
<1>7. \A x \in Place : n.source[q][x].ip # m.source.ip
  <2> SUFFICES ASSUME NEW x \in Place, n.source[q][x].ip = m.source.ip  PROVE FALSE
    OBVIOUS
  <2>1. n.source[q][x] = node.source[q][x] /\ node.source[q][x].ip # NoIp
    BY <1>2, <1>6
  <2>2. PICK s \in scenario.sources : Continues(node, q, x, s)
    BY <1>1, <2>1 DEF Known
  <2>3. s = m.source
    BY <1>2, <2>1, <2>2 DEF OneByAddress, Continues
  <2> QED  BY <1>5, <2>1, <2>2, <2>3 DEF Continues
<1>8. \A x \in Place : n.source[q][x].ip # NoIp
  <2>0. "a" \in Place /\ "b" \in Place /\ Other("a") = "b" /\ Other("b") = "a"
        /\ \A x \in Place : x = "a" \/ x = "b"
    BY DEF Place, Other
  <2>1. n.source[q]["a"].ip # NoIp
    BY <1>5, <1>7, <2>0 DEF Joins
  <2>2. n.source[q]["b"].ip # NoIp
    BY <1>5, <1>7, <2>0, <2>1 DEF Joins
  <2> QED  BY <2>0, <2>1, <2>2
<1>9. Full(node, q)
  BY <1>6, <1>8 DEF Full
<1>10. checks
  <2>1. Received(m)[q].source[q] = node.source[q]
    BY <1>1, <1>2, LoopFrame
  <2>2. Full(Received(m)[q], q)
    BY <1>9, <2>1 DEF Full
  <2>3. Merging(Received(m)[q])
    BY <1>1, <1>2, MergingLoop, SourceFacts DEF Port
  <2> QED  BY <2>2, <2>3 DEF Merging, checks
<1>11. "a" \in Place /\ "b" \in Place
  BY DEF Place
<1>12. PICK s \in scenario.sources : Continues(node, q, "a", s)
  BY <1>1, <1>9, <1>11 DEF Known, Full
<1>13. PICK t \in scenario.sources : Continues(node, q, "b", t)
  BY <1>1, <1>9, <1>11 DEF Known, Full
<1>14. s # t /\ s # m.source /\ t # m.source
  <2>1. s # t
    BY <1>1, <1>9, <1>12, <1>13 DEF Merging, Continues
  <2> QED  BY <1>5, <1>6, <1>8, <1>11, <1>12, <1>13, <2>1 DEF Continues
<1>15. heard[m.address][s].age <= MergeTimeout /\ heard[m.address][t].age <= MergeTimeout
  <2>1. address[q] = m.address /\ m.address \in Address
    BY <1>1, <1>4 DEF Refused, Types
  <2>2. heard[m.address][s].age \in Nat /\ heard[m.address][t].age \in Nat
    BY <1>1, <2>1, SourceFacts DEF Types
  <2>3. heard[m.address][s].age <= node.source[q]["a"].age /\ heard[m.address][t].age <= node.source[q]["b"].age
    BY <1>1, <1>11, <1>12, <1>13, <2>1 DEF Fresh
  <2> QED  BY <1>6, <1>8, <1>10, <1>11, <2>2, <2>3, SourceFacts
<1> DEFINE D == {u \in scenario.sources \ {m.source} : heard[m.address][u].age <= MergeTimeout}
<1>16. IsFiniteSet(D) /\ {s, t} \in SUBSET D
  <2>1. IsFiniteSet(scenario.sources) /\ D \in SUBSET scenario.sources
    BY <1>1, MergeAssumption DEF Types
  <2>2. IsFiniteSet(D)
    <3> HIDE DEF D
    <3> QED  BY <2>1, FS_Subset
  <2> QED  BY <1>14, <1>15, <2>2
<1>17. Cardinality({s, t}) = 2
  <2>1. IsFiniteSet({s}) /\ Cardinality({s}) = 1 /\ {s, t} = {s} \cup {t}
    BY FS_Singleton
  <2>2. Cardinality({s} \cup {t}) = IF t \in {s} THEN Cardinality({s}) ELSE Cardinality({s}) + 1
    BY <2>1, FS_AddElement
  <2>3. t \notin {s}
    BY <1>14
  <2> QED  BY <2>1, <2>2, <2>3
<1>18. Cardinality(D) >= 2
  <2> HIDE DEF D
  <2>1. Cardinality({s, t}) <= Cardinality(D) /\ Cardinality(D) \in Nat
    BY <1>16, FS_Subset, FS_CardinalityType
  <2> QED  BY <1>17, <2>1
<1> QED  BY <1>18 DEF TwoOthers

\* Data is discarded only when two other sources are heard.
THEOREM DataIsRefusedJustly == Spec => RefusedJustly
<1>1. MergeInv => \A m \in Message, p \in Port :
         HandleDmx(m) /\ Discards(m, p) /\ OneByAddress /\ ~Occurs("switch") => TwoOthers(m)
  BY RefusedStep
<1> QED  BY <1>1, MergeSafety, PTL DEF RefusedJustly

\* Of two numbers.
LEMMA OfTwo ==
    ASSUME NEW i \in Nat, NEW j \in Nat
    PROVE  /\ Max({i, j}) = Larger(i, j) /\ Max({i}) = i
           /\ Min({i, j}) \in Nat /\ Min({i, j}) <= i /\ Min({i, j}) <= j /\ Min({i}) = i
<1>1. /\ Larger(i, j) \in {i, j} /\ \A k \in {i, j} : Larger(i, j) >= k
      /\ \A k \in {i, j} : (\A l \in {i, j} : k >= l) => k = Larger(i, j)
  BY DEF Larger
<1>2. Max({i, j}) = Larger(i, j)
  BY <1>1 DEF Max
<1>3. (\E k \in {i, j} : \A l \in {i, j} : k =< l)
  <2>1. i <= j \/ j <= i
    OBVIOUS
  <2> QED  BY <2>1
<1>4. Min({i, j}) \in {i, j} /\ \A l \in {i, j} : Min({i, j}) =< l
  BY <1>3 DEF Min
<1>5. Max({i}) = i /\ Min({i}) = i
  BY DEF Max, Min
<1> QED  BY <1>2, <1>4, <1>5

LEMMA OutputStep ==
    ASSUME MergeInv, Apart, ~Occurs("switch"),
           NEW m \in Message, NEW p \in Port, HandleDmx(m), Accepts(m, p)
    PROVE  LET last   == {heard'[m.address][s] : s \in Recorded(p)'}
               sent   == Min({l.length : l \in last})
               merged == IF p \in ltp THEN m.level ELSE Max({l.level : l \in last})
           IN  \A i \in 1 .. sent : node'.output[p][i] = merged
<1> DEFINE n == Received(m)[NumPorts]
           now == [level |-> m.level, length |-> m.length, age |-> 0]
<1>1. Types /\ Merging(node) /\ Known /\ Held /\ Held'
  <2>1. Placed'
    BY PlacedDmx
  <2>2. Apart' /\ ~Occurs("switch")'
    BY DEF HandleDmx, InputUdp, Apart, Occurs
  <2> QED  BY <2>1, <2>2 DEF MergeInv, Placed
<1>2. /\ m \in ArtDmx /\ m.source \in scenario.sources /\ m.source \in Sources /\ m.address \in scenario.sent
      /\ node'.source = n.source /\ node'.data = n.data /\ node'.output = n.output /\ n \in Node
  BY <1>1, DmxNode DEF ArtDmx
<1>3. m.level \in Nat /\ m.length \in Nat /\ m.address \in Address /\ scenario.sources \subseteq Sources
      /\ scenario' = scenario /\ address' = address /\ m.source.ip # NoIp
  BY <1>1, <1>2, SourceFacts, MergeAssumption DEF ArtDmx, Types, Sources, HandleDmx, InputUdp
<1>4. \A s \in scenario.sources : heard'[m.address][s] = IF s = m.source THEN now ELSE heard[m.address][s]
  <2>1. heard' = [heard EXCEPT ![m.address][m.source] = now]
    BY DEF HandleDmx
  <2> HIDE DEF now
  <2> QED  BY <1>1, <1>2, <1>3, <2>1 DEF Types
<1>5. PICK x \in Place : Taken(p, x, m, n)
  BY <1>1, AcceptedTaken
<1>6. /\ n.source[p][x] = Current(m) /\ address[p] = m.address
      /\ \A i \in 1 .. m.length : n.output[p][i] =
            IF n.source[p][Other(x)].ip # NoIp /\ p \notin ltp
            THEN Larger(m.level, node.data[p][Other(x)][i]) ELSE m.level
      /\ n.data[p][Other(x)] = node.data[p][Other(x)]
  BY <1>5 DEF Taken
<1>7. Other(x) \in Place /\ (\A y \in Place : y = x \/ y = Other(x)) /\ {"a", "b"} = Place
      /\ ((x = "a" /\ Other(x) = "b") \/ (x = "b" /\ Other(x) = "a"))
  BY DEF Place, Other
<1> HIDE DEF n
<1>8. \A s \in scenario.sources : Continues(node, p, x, s)' <=> s = m.source
  BY <1>2, <1>3, <1>6, SourceFacts DEF Continues, Current
<1>9. Recorded(p)' = {s \in scenario.sources : Continues(node, p, x, s)' \/ Continues(node, p, Other(x), s)'}
  BY <1>3, <1>7 DEF Recorded
<1>10. CASE n.source[p][Other(x)].ip = NoIp
  <2>1. \A s \in scenario.sources : ~Continues(node, p, Other(x), s)'
    BY <1>2, <1>3, <1>10, SourceFacts DEF Continues
  <2>2. Recorded(p)' = {m.source}
    BY <1>2, <1>8, <1>9, <2>1
  <2> DEFINE last == {heard'[m.address][s] : s \in Recorded(p)'}
  <2>3. last = {now}
    BY <1>2, <1>4, <2>2
  <2> HIDE DEF last
  <2>4. {l.length : l \in last} = {m.length} /\ {l.level : l \in last} = {m.level}
    BY <2>3
  <2>5. Min({l.length : l \in last}) = m.length /\ Max({l.level : l \in last}) = m.level
    BY <1>3, <2>4, OfTwo
  <2> QED  BY <1>2, <1>6, <1>10, <2>5 DEF last
<1>11. CASE n.source[p][Other(x)].ip # NoIp
  <2>1. PICK s \in scenario.sources : Continues(node, p, Other(x), s)'
    <3>1. Known'
      BY PlacedDmx DEF Placed
    <3>2. node'.source[p][Other(x)].ip # NoIp
      BY <1>2, <1>11
    <3> QED  BY <1>3, <1>7, <3>1, <3>2 DEF Known
  <2>2. s # m.source
    <3>1. Merging(node)'
      BY PlacedDmx DEF Placed
    <3>2. Full(node, p)'
      BY <1>2, <1>3, <1>6, <1>7, <1>11 DEF Full, Current
    <3>3. \/ node'.source[p][x].ip # node'.source[p][Other(x)].ip
          \/ node'.source[p][x].physical # node'.source[p][Other(x)].physical
      BY <1>7, <3>1, <3>2 DEF Merging
    <3> QED  BY <1>2, <1>8, <2>1, <3>3 DEF Continues
  <2>3. \A t \in scenario.sources : Continues(node, p, Other(x), t)' <=> t = s
    <3> SUFFICES ASSUME NEW t \in scenario.sources, Continues(node, p, Other(x), t)'  PROVE t = s
      BY <2>1
    <3>1. t.ip = s.ip /\ t.physical = s.physical
      BY <2>1 DEF Continues
    <3> QED  BY <1>3, <3>1, SourceFacts
  <2>4. Recorded(p)' = {m.source, s}
    BY <1>2, <1>8, <1>9, <2>3
  <2> DEFINE last == {heard'[m.address][t] : t \in Recorded(p)'}
             h == heard[m.address][s]
  <2>5. heard'[m.address][m.source] = now /\ heard'[m.address][s] = h
    BY <1>2, <1>4, <2>2
  <2>6. last = {now, h}
    BY <2>4, <2>5
  <2>7. h.level \in Nat /\ h.length \in Nat
    BY <1>1, <1>3, SourceFacts DEF Types
  <2> HIDE DEF last, h
  <2>8. {l.length : l \in last} = {m.length, h.length} /\ {l.level : l \in last} = {m.level, h.level}
    BY <2>6
  <2> DEFINE sent == Min({l.length : l \in last})
  <2>9. sent \in Nat /\ sent <= m.length /\ sent <= h.length /\ Max({l.level : l \in last}) = Larger(m.level, h.level)
    BY <1>3, <2>7, <2>8, OfTwo
  <2> HIDE DEF sent
  <2>10. \A i \in 1 .. sent : i \in 1 .. m.length /\ i \in 1 .. h.length
    BY <1>3, <2>7, <2>9
  <2>11. \A i \in 1 .. h.length : node.data[p][Other(x)][i] = h.level
    <3>1. \A i \in 1 .. heard'[address[p]][s].length : node'.data[p][Other(x)][i] = heard'[address[p]][s].level
      BY <1>1, <1>3, <1>7, <2>1 DEF Held
    <3> QED  BY <1>2, <1>6, <2>5, <3>1
  <2>12. \A i \in 1 .. sent : node'.output[p][i] =
            IF p \in ltp THEN m.level ELSE Max({l.level : l \in last})
    BY <1>2, <1>6, <1>11, <2>9, <2>10, <2>11
  <2> QED  BY <2>12 DEF last, sent
<1> QED  BY <1>10, <1>11

\* HTP and LTP: where no two ports of the node share an address, what a port
\* outputs is the merge of what its sources sent last, for any sources.
THEOREM OutputIsTheMerge ==
    ASSUME \A c \in Scenarios : \A p, q \in Port : c.addresses[p] = c.addresses[q] => p = q
    PROVE  Spec => OutputIsMerge
<1>1. MergeInv => \A m \in Message, p \in Port :
         HandleDmx(m) /\ ~Occurs("switch") /\ Accepts(m, p) =>
            LET last   == {heard'[m.address][s] : s \in Recorded(p)'}
                sent   == Min({l.length : l \in last})
                merged == IF p \in ltp THEN m.level ELSE Max({l.level : l \in last})
            IN  \A i \in 1 .. sent : node'.output[p][i] = merged
  <2>1. MergeInv => Apart
    BY DEF MergeInv, Types, Apart
  <2> QED  BY <2>1, OutputStep
<1> QED  BY <1>1, MergeSafety, PTL DEF OutputIsMerge
=============================================================================
