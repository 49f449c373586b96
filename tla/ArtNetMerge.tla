---------------------------- MODULE ArtNetMerge -----------------------------
(***************************************************************************)
(* The sources of ArtDmx of an Art-Net node: which of its two places a     *)
(* source takes, what dmxnode::Data makes of the two, when a source times  *)
(* out, and what a port outputs at once or with the next ArtSync.          *)
(*                                                                         *)
(* Every port is an Art-Net output of the style delta, no RDM discovery    *)
(* runs, merge time-outs are on, and the node keeps its last state when    *)
(* the network falls silent.  Time goes in ticks.                          *)
(***************************************************************************)
EXTENDS Naturals, FiniteSets, FiniteSetsExt

CONSTANTS
    NumPorts, Address,
    NoIp,               \* the address 0 of a free place
    FirstPhysical,      \* what the constructor writes in it
    MergeTimeout, SyncTimeout, DataLossTimeout,
    MaxLevel, Slots,    \* levels of the slots of a frame, and how many it has
    Scenarios           \* the sources of ArtDmx, the addresses of the ports, those
                        \* that are sent to, and what else occurs, of Events

Port   == 0 .. NumPorts - 1
Level  == 0 .. MaxLevel
Events == {"sync", "silence", "switch", "mode", "short"}

ASSUME MergeAssumption ==
    /\ NumPorts \in Nat \ {0} /\ MaxLevel \in Nat /\ Slots \in Nat \ {0}
    /\ {MergeTimeout, SyncTimeout, DataLossTimeout} \subseteq Nat \ {0}
    /\ \A s \in Scenarios : /\ s.addresses \in [Port -> Address]
                            /\ s.sent \subseteq Address /\ s.events \subseteq Events
                            /\ IsFiniteSet(s.sources)
                            /\ \A source \in s.sources :
                                 /\ source = [ip |-> source.ip, physical |-> source.physical]
                                 /\ source.ip # NoIp

VARIABLES
    node,           \* what HandleDmx changes of the ports: see Init
    ltp,            \* ports whose good_output has kMergeModeLtp
    address,        \* node_.port[].port_address
    synchronous,    \* state_.is_synchronous_mode
    sync_age,       \* since state_.art.sync_millis
    silence,        \* since packet_millis_
    dmx_ip,         \* state_.art.dmx_ip
    heard,          \* the last ArtDmx of each source for each address
    scenario        \* one of Scenarios; never changes

vars == <<node, ltp, address, synchronous, sync_age, silence, dmx_ip, heard, scenario>>

Place    == {"a", "b"}
Other(x) == IF x = "a" THEN "b" ELSE "a"
Ages     == 0 .. MergeTimeout + 1           \* the last of them is any greater age
Older(n) == IF n \in Ages /\ n + 1 \in Ages THEN n + 1 ELSE n
Occurs(event) == event \in scenario.events
Message == [source : scenario.sources, address : scenario.sent, level : Level,
            length : IF Occurs("short") THEN 1 .. Slots ELSE {Slots}]

Dark == [i \in 1 .. Slots |-> 0]
Free == [ip |-> NoIp, physical |-> FirstPhysical, age |-> 0]

Init ==
    /\ scenario \in Scenarios
    /\ node = [ source  |-> [p \in Port |-> [x \in Place |-> Free]],
                data    |-> [p \in Port |-> [x \in Place |-> Dark]],
                output  |-> [p \in Port |-> Dark], length |-> [p \in Port |-> 0],
                line    |-> [p \in Port |-> Dark],     \* what the port sends
                merging |-> {}, merge_mode |-> FALSE, pending |-> {}, refused |-> FALSE ]
    /\ ltp = {} /\ address = scenario.addresses
    /\ synchronous = FALSE /\ sync_age = 0 /\ silence = 0 /\ dmx_ip = NoIp
    /\ heard = [d \in Address |-> [s \in scenario.sources |->
                  [level |-> 0, length |-> Slots, age |-> MergeTimeout + 1]]]
-----------------------------------------------------------------------------
\* InputUdp first looks at the time of the synchronous mode.
StillSynchronous == synchronous /\ sync_age < SyncTimeout

(* HandleDmx of a port; n is what the ports before it have made of node.   *)
\* Mutants: the source is gone, its bit stays; the second place is not looked at.
CheckMergeTimeoutsKeepsBit(n, p) ==
    LET old(x) == n.source[p][x].age > MergeTimeout
    IN  [n EXCEPT !.source[p] = [x \in Place |-> IF old(x) THEN [@[x] EXCEPT !.ip = NoIp] ELSE @[x]],
                  !.merge_mode = n.merging # {}]

CheckMergeTimeoutsFirst(n, p) ==
    LET old(x)  == x = "a" /\ n.source[p][x].age > MergeTimeout
        merging == IF \E x \in Place : old(x) THEN n.merging \ {p} ELSE n.merging
    IN  [n EXCEPT !.source[p] = [x \in Place |-> IF old(x) THEN [@[x] EXCEPT !.ip = NoIp] ELSE @[x]],
                  !.merging = merging, !.merge_mode = merging # {}]

CheckMergeTimeouts(n, p) ==
    LET old(x)  == n.source[p][x].age > MergeTimeout
        merging == IF \E x \in Place : old(x) THEN n.merging \ {p} ELSE n.merging
    IN  [n EXCEPT !.source[p] = [x \in Place |-> IF old(x) THEN [@[x] EXCEPT !.ip = NoIp] ELSE @[x]],
                  !.merging = merging, !.merge_mode = merging # {}]

Continues(n, p, x, source) ==
    n.source[p][x].ip = source.ip /\ n.source[p][x].physical = source.physical

\* Mutant: the physical of a free place always counts.
JoinsPhysical(n, p, x, source) ==
    /\ n.source[p][x].ip = NoIp
    /\ n.source[p][Other(x)].ip = NoIp => x = "a"
    /\ n.source[p][x].physical # source.physical

\* The first place is taken first.  The physical of a free place counts when the
\* other source has the same address.
Joins(n, p, x, source) ==
    LET other == n.source[p][Other(x)].ip
    IN  /\ n.source[p][x].ip = NoIp
        /\ other = NoIp => x = "a"
        /\ other = source.ip => n.source[p][x].physical # source.physical

Places(n, p, source) ==
    LET continued == {x \in Place : Continues(n, p, x, source)}
    IN  IF continued # {} THEN continued ELSE {x \in Place : Joins(n, p, x, source)}

Larger(i, j) == IF i >= j THEN i ELSE j

\* Mutant: only the output is written.
MergeSourceOutputOnly(n, p, x, m, htp) ==
    [n EXCEPT !.length[p] = m.length,
              !.output[p] = [i \in 1 .. Slots |->
                 IF i > m.length THEN @[i]
                 ELSE IF htp THEN Larger(m.level, n.data[p][Other(x)][i]) ELSE m.level]]

\* dmxnode::Data: the data of a source, and what the port outputs of both.
MergeSource(n, p, x, m, htp) ==
    [n EXCEPT !.length[p] = m.length,
              !.data[p][x] = [i \in 1 .. Slots |-> IF i > m.length THEN @[i] ELSE m.level],
              !.output[p] = [i \in 1 .. Slots |->
                 IF i > m.length THEN @[i]
                 ELSE IF htp THEN Larger(m.level, n.data[p][Other(x)][i]) ELSE m.level]]

\* A source that is alone is set, not merged.
Accept(n, p, x, m) ==
    LET alone    == n.source[p][Other(x)].ip = NoIp
        current  == [ip |-> m.source.ip, physical |-> m.source.physical, age |-> 0]
        recorded == [n EXCEPT !.source[p][x] = current]
        merged   == [recorded EXCEPT !.merging = @ \cup {p}, !.merge_mode = TRUE]
    IN  MergeSource(IF alone THEN recorded ELSE merged, p, x, m, ~alone /\ p \notin ltp)

\* What is received in synchronous mode is kept, unless the port is merging.
Output(n, p) ==
    IF StillSynchronous /\ p \notin n.merging
    THEN [n EXCEPT !.pending = @ \cup {p}]
    ELSE [n EXCEPT !.line[p] = n.output[p]]

\* A port that refuses the data ends the loop over the ports.
Receive(n, p, m) ==
    IF n.refused \/ address[p] # m.address THEN n
    ELSE LET checked == IF n.merge_mode THEN CheckMergeTimeouts(n, p) ELSE n
             places  == Places(checked, p, m.source)
         IN  IF places = {} THEN [checked EXCEPT !.refused = TRUE]
             ELSE Output(Accept(checked, p, IF "a" \in places THEN "a" ELSE "b", m), p)

\* What the first i ports make of the node.
Received(m) ==
    LET after[i \in 0 .. NumPorts] == IF i = 0 THEN node ELSE Receive(after[i - 1], i - 1, m)
    IN  after
-----------------------------------------------------------------------------
(* The packets, and Run.                                                   *)
InputUdp == silence' = 0 /\ UNCHANGED scenario

HandleDmx(m) ==
    /\ heard' = [heard EXCEPT ![m.address][m.source] =
                   [level |-> m.level, length |-> m.length, age |-> 0]]
    /\ InputUdp /\ dmx_ip' = m.source.ip /\ synchronous' = StillSynchronous
    /\ node' = [Received(m)[NumPorts] EXCEPT !.refused = FALSE]
    /\ UNCHANGED <<ltp, address, sync_age>>

\* ArtSync counts when it comes from the address of the last ArtDmx and the node
\* does not merge; the first one starts the synchronous mode.
HandleSync(ip) ==
    /\ Occurs("sync") /\ InputUdp
    /\ IF dmx_ip = ip /\ ~node.merge_mode
       THEN /\ synchronous' = TRUE /\ sync_age' = 0
            /\ node' = IF StillSynchronous
                       THEN [node EXCEPT !.pending = {}, !.line = [p \in Port |->
                               IF p \in node.pending THEN node.output[p] ELSE @[p]]]
                       ELSE node
       ELSE synchronous' = StillSynchronous /\ UNCHANGED <<node, sync_age>>
    /\ UNCHANGED <<ltp, address, dmx_ip, heard>>

\* Any other packet, ArtPoll.
HandleOther ==
    /\ InputUdp /\ synchronous' = StillSynchronous
    /\ UNCHANGED <<node, ltp, address, sync_age, dmx_ip, heard>>

\* ArtAddress: the merge mode of a port, its address, and kCancel.
HandleMergeMode(p) ==
    /\ Occurs("mode") /\ InputUdp /\ synchronous' = StillSynchronous
    /\ ltp' = IF p \in ltp THEN ltp \ {p} ELSE ltp \cup {p}
    /\ UNCHANGED <<node, address, sync_age, dmx_ip, heard>>

HandleSwitch(p, d) ==
    /\ Occurs("switch") /\ InputUdp /\ synchronous' = StillSynchronous
    /\ address' = [address EXCEPT ![p] = d]
    /\ UNCHANGED <<node, ltp, sync_age, dmx_ip, heard>>

HandleCancel ==
    /\ Occurs("mode") /\ InputUdp /\ synchronous' = StillSynchronous
    /\ node' = [node EXCEPT !.merging = {}, !.merge_mode = FALSE, !.source =
                  [p \in Port |-> [x \in Place |-> [@[p][x] EXCEPT !.ip = NoIp]]]]
    /\ UNCHANGED <<ltp, address, sync_age, dmx_ip, heard>>

\* Run: nothing has come for the time of the network data loss.
SetNetworkDataLossCondition ==
    /\ silence >= DataLossTimeout
    /\ synchronous' = FALSE
    /\ node' = IF \E p \in Port, x \in Place : node.source[p][x].ip # NoIp
               THEN [node EXCEPT !.merge_mode = FALSE, !.length = [p \in Port |-> 0], !.source =
                       [p \in Port |-> [x \in Place |-> [@[p][x] EXCEPT !.ip = NoIp]]]]
               ELSE [node EXCEPT !.merge_mode = FALSE]
    /\ UNCHANGED <<ltp, address, sync_age, silence, dmx_ip, heard, scenario>>

\* Without "silence" a controller polls the node in time.
Tick ==
    /\ silence + 1 < DataLossTimeout \/ Occurs("silence")
    /\ silence' = (IF silence < DataLossTimeout THEN silence + 1 ELSE silence)
    /\ sync_age' = (IF sync_age < SyncTimeout THEN sync_age + 1 ELSE sync_age)
    /\ node' = [node EXCEPT !.source = [p \in Port |->
                  [x \in Place |-> [node.source[p][x] EXCEPT !.age = Older(node.source[p][x].age)]]]]
    /\ heard' = [d \in Address |-> [s \in scenario.sources |->
                   [heard[d][s] EXCEPT !.age = Older(@)]]]
    /\ UNCHANGED <<ltp, address, synchronous, dmx_ip, scenario>>

Next ==
    \/ \E m \in Message : HandleDmx(m)
    \/ \E s \in scenario.sources : HandleSync(s.ip)
    \/ HandleOther
    \/ \E p \in Port : HandleMergeMode(p)
    \/ \E p \in Port, d \in Address : HandleSwitch(p, d)
    \/ HandleCancel \/ SetNetworkDataLossCondition \/ Tick

Spec == Init /\ [][Next]_vars
-----------------------------------------------------------------------------
Recorded(p) == {s \in scenario.sources : \E x \in Place : Continues(node, p, x, s)}

Discards(m, p) == address[p] = m.address /\ m.source \notin Recorded(p)'
\* An ArtDmx discarded by one port does not reach the next ones.
Accepts(m, p)  == address[p] = m.address /\ \A q \in Port : ~Discards(m, q)

\* HTP and LTP: after an ArtDmx that was accepted, the data of a port is the
\* highest, or the last, of what its sources sent last; of the slots that every
\* one of them sends, as a shorter ArtDmx leaves the others as they were.
OutputIsMerge ==
    [][\A m \in Message, p \in Port :
         HandleDmx(m) /\ ~Occurs("switch") /\ Accepts(m, p) =>
            LET last   == {heard'[m.address][s] : s \in Recorded(p)'}
                sent   == Min({l.length : l \in last})
                merged == IF p \in ltp THEN m.level ELSE Max({l.level : l \in last})
            IN  \A i \in 1 .. sent : node'.output[p][i] = merged]_vars

\* A source that has timed out is merged with at most one ArtDmx: all that a
\* port outputs that was merging before was heard within the time-out.
StaleOnce ==
    [][\A m \in Message, p \in Port :
         HandleDmx(m) /\ node.merge_mode /\ p \in node.merging /\ Accepts(m, p) =>
            \A x \in Place : LET s == node'.source[p][x]
                             IN  s.ip # NoIp => s.age <= MergeTimeout]_vars

TwoOthers(m) == Cardinality({s \in scenario.sources \ {m.source} :
                               heard[m.address][s].age <= MergeTimeout}) >= 2

OneByAddress == \A r, s \in scenario.sources : r.ip = s.ip => r = s

\* "More than two sources, discarding data": data is discarded only when two
\* other sources have been heard within the time-out, where no two sources have
\* the same address and no port changes its.  (The physical of a source that has
\* timed out may have another of its address refused.)
RefusedJustly ==
    [][\A m \in Message, p \in Port :
         HandleDmx(m) /\ Discards(m, p) /\ OneByAddress /\ ~Occurs("switch") => TwoOthers(m)]_vars

\* kOutputIsMerging is set for the ports that have two sources, and ArtSync is
\* ignored when there is one, unless the network has fallen silent.
MergingTruthful ==
    ~Occurs("silence") =>
       /\ \A p \in node.merging : \A x \in Place : node.source[p][x].ip # NoIp
       /\ \A p \in Port : (\A x \in Place : node.source[p][x].ip # NoIp) => p \in node.merging
       /\ node.merge_mode <=> node.merging # {}
=============================================================================
