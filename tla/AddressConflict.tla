-------------------------- MODULE AddressConflict ---------------------------
(***************************************************************************)
(* Address conflict detection for a static address: network::acd, driven   *)
(* by a software timer, by every ARP frame that comes in, by SetPrimaryIp  *)
(* and by the state of the link.  Several nodes with this code share a     *)
(* network that may lose frames.  A frame arrives, and a timer is served,  *)
(* before the next tick of the timers.                                     *)
(*                                                                         *)
(* No address is link local, and none is a secondary address.              *)
(***************************************************************************)
EXTENDS Naturals, Sequences, FiniteSets

CONSTANTS
    Node, Ip,
    None,               \* the address 0
    kAcdTicksPerSecond, kProbeWait, kProbeMin, kProbeMax, kProbeNum,
    kAnnounceWait, kAnnounceInterval, kAnnounceNum,
    kMaxConflicts, kRateLimitInterval, kDefendInterval,
    Scenarios           \* the address each node starts with, and how many frames are
                        \* lost, addresses changed and links interrupted at most

ASSUME ConflictAssumption ==
    /\ None \notin Ip
    /\ {kAcdTicksPerSecond, kProbeWait, kProbeNum, kAnnounceNum, kMaxConflicts} \subseteq Nat \ {0}
    /\ {kProbeMin, kProbeMax, kAnnounceWait, kAnnounceInterval} \subseteq Nat /\ kProbeMin < kProbeMax
    /\ {kRateLimitInterval, kDefendInterval} \subseteq Nat
    /\ \A s \in Scenarios : /\ s.own \in [Node -> Ip]
                            /\ {s.losses, s.changes, s.flaps} \subseteq Nat

VARIABLES
    node,       \* struct Acd of each node, its timers and its netif.ip: see Init
    link,       \* nodes whose link is up
    due,        \* how many timers of a node are still to be served in this tick
    queue,      \* ARP frames on their way to each node
    started,    \* nodes that have been switched on
    lost, changed, flapped,     \* so far, of those of the scenario
    scenario    \* one of Scenarios; never changes

budget == <<started, lost, changed, flapped, scenario>>
vars   == <<node, link, due, queue, budget>>

Init ==
    /\ scenario \in Scenarios
    /\ node = [n \in Node |->
         [ipaddr |-> None, state |-> "Off", sent_num |-> 0, lastconflict |-> 0, num_conflicts |-> 0,
          ttw |-> 0,
          timers |-> 0,         \* software timers that call Timer
          timer_id |-> FALSE,   \* whether s_timer_id is the last of them
          ip |-> None,          \* netif.ip
          taken |-> FALSE]]     \* whether another node had the address at Start
    /\ link = {} /\ due = [n \in Node |-> 0] /\ queue = [n \in Node |-> << >>]
    /\ started = {} /\ lost = 0 /\ changed = 0 /\ flapped = 0

Older(n)    == IF n > 0 THEN n - 1 ELSE 0
Least(i, j) == IF i <= j THEN i ELSE j

\* ARP frames; what a node sends reaches the nodes whose link is up.
Request(n, sender, target) == [op |-> "request", from |-> n, sender_ip |-> sender, target_ip |-> target]
AcdProbe(n)                == Request(n, None, node[n].ipaddr)
AcdSendAnnouncement(n)     == Request(n, node[n].ipaddr, node[n].ipaddr)

Broadcast(q, n, frames) ==
    [m \in Node |-> IF n \in link /\ m \in link \ {n} THEN q[m] \o frames ELSE q[m]]

Become(n, after) ==
    /\ node' = [node EXCEPT ![n] = after]
    /\ due' = [due EXCEPT ![n] = Least(@, after.timers)]
-----------------------------------------------------------------------------
(* Start does not look whether a timer is running; Stop deletes the last.  *)
Starts(before, ipaddr, wait) ==
    [before EXCEPT !.ipaddr = ipaddr, !.state = "ProbeWait", !.ttw = wait,
                   !.timers = @ + 1, !.timer_id = TRUE]

Stops(before) ==
    [before EXCEPT !.state = "Off", !.timers = IF before.timer_id THEN @ - 1 ELSE @, !.timer_id = FALSE]

Start(n, ipaddr) ==
    \E wait \in 0 .. kProbeWait * kAcdTicksPerSecond - 1 :
       Become(n, [Starts(node[n], ipaddr, wait) EXCEPT
                    !.taken = \E m \in link \ {n} : node[m].ip = ipaddr])
-----------------------------------------------------------------------------
(* Timer.                                                                  *)
Served(n) == due' = [due EXCEPT ![n] = Least(@ - 1, node'[n].timers)]

\* Mutant: the first probe is taken for the last.
TimerProbeOnce(n, acd) ==
    /\ acd.state \in {"ProbeWait", "Probing"} /\ acd.ttw = 0
    /\ queue' = Broadcast(queue, n, <<AcdProbe(n)>>)
    /\ node' = [node EXCEPT ![n] = [acd EXCEPT !.state = "AnnounceWait",
                  !.sent_num = 0, !.ttw = kAnnounceWait * kAcdTicksPerSecond]]

\* Mutant: the count of the probes starts again with every probe.
TimerProbeUncounted(n, acd) ==
    /\ acd.state \in {"ProbeWait", "Probing"} /\ acd.ttw = 0
    /\ queue' = Broadcast(queue, n, <<AcdProbe(n)>>)
    /\ \E wait \in kProbeMin * kAcdTicksPerSecond .. kProbeMax * kAcdTicksPerSecond - 1 :
         node' = [node EXCEPT ![n] = [acd EXCEPT !.state = "Probing", !.sent_num = 1, !.ttw = wait]]

TimerProbe(n, acd) ==
    /\ acd.state \in {"ProbeWait", "Probing"} /\ acd.ttw = 0
    /\ queue' = Broadcast(queue, n, <<AcdProbe(n)>>)
    /\ LET probed == [acd EXCEPT !.sent_num = @ + 1]
       IN  IF probed.sent_num >= kProbeNum
           THEN node' = [node EXCEPT ![n] = [probed EXCEPT !.state = "AnnounceWait",
                           !.sent_num = 0, !.ttw = kAnnounceWait * kAcdTicksPerSecond]]
           ELSE \E wait \in kProbeMin * kAcdTicksPerSecond .. kProbeMax * kAcdTicksPerSecond - 1 :
                  node' = [node EXCEPT ![n] = [probed EXCEPT !.state = "Probing", !.ttw = wait]]

\* After the last announcement: Stop, and kAcdIpOk.
TimerAnnounce(n, acd) ==
    /\ acd.state \in {"AnnounceWait", "Announcing"} /\ acd.ttw = 0
    /\ queue' = Broadcast(queue, n, <<AcdSendAnnouncement(n)>>)
    /\ LET announced == [acd EXCEPT !.state = "Announcing", !.sent_num = @ + 1,
                           !.num_conflicts = IF acd.sent_num = 0 THEN 0 ELSE @,
                           !.ttw = kAnnounceInterval * kAcdTicksPerSecond]
       IN  node' = [node EXCEPT ![n] =
             IF announced.sent_num < kAnnounceNum THEN announced
             ELSE Stops([announced EXCEPT !.sent_num = 0, !.ttw = 0, !.ip = acd.ipaddr])]

\* Rate limiting ends, or there is nothing to do yet.
TimerWait(n, acd) ==
    /\ acd.ttw > 0 \/ acd.state \in {"Off", "RateLimit"}
    /\ node' = [node EXCEPT ![n] = IF acd.state = "RateLimit" /\ acd.ttw = 0 THEN Stops(acd) ELSE acd]
    /\ UNCHANGED queue

Timer(n) ==
    /\ due[n] > 0
    /\ IF n \in link
       THEN LET acd == [node[n] EXCEPT !.lastconflict = Older(@), !.ttw = Older(@)]
            IN  TimerProbe(n, acd) \/ TimerAnnounce(n, acd) \/ TimerWait(n, acd)
       ELSE UNCHANGED <<node, queue>>
    /\ Served(n) /\ UNCHANGED <<link, budget>>

\* Every timer has been served and every frame has arrived.
Tick ==
    /\ \A n \in Node : due[n] = 0 /\ queue[n] = << >>
    /\ due' = [n \in Node |-> node[n].timers]
    /\ \E n \in Node : node[n].timers > 0
    /\ UNCHANGED <<node, link, queue, budget>>
-----------------------------------------------------------------------------
(* A frame comes in: arp::Input, which calls acd::ArpReply.                *)
Restart(acd) ==
    LET declined == [acd EXCEPT !.num_conflicts = @ + 1]
    IN  IF declined.num_conflicts >= kMaxConflicts
        THEN [declined EXCEPT !.state = "RateLimit", !.ttw = kRateLimitInterval * kAcdTicksPerSecond]
        ELSE Stops(declined)

\* The second half never holds: a node does not receive its own frames.
ProbeConflict(n, frame) ==
    \/ frame.sender_ip = node[n].ipaddr
    \/ frame.sender_ip # None /\ frame.target_ip = node[n].ipaddr /\ frame.from = n

Defends(n, frame) ==
    node[n].state = "Announcing" /\ frame.sender_ip = node[n].ipaddr /\ node[n].lastconflict = 0

\* What ArpReply makes of a node; one that defends its address announces it again.
ArpReply(n, frame) ==
    IF node[n].state \in {"ProbeWait", "Probing", "AnnounceWait"} /\ ProbeConflict(n, frame)
    THEN Restart(node[n])
    ELSE IF Defends(n, frame)
    THEN [node[n] EXCEPT !.lastconflict = kDefendInterval * kAcdTicksPerSecond]
    ELSE IF node[n].state = "Announcing" /\ frame.sender_ip = node[n].ipaddr
    THEN Restart(node[n])
    ELSE node[n]

\* Mutant: a probe, whose sender has no address yet, is not answered.
AnswersKnown(n, frame) ==
    /\ frame.op = "request" /\ frame.target_ip = node[n].ip
    /\ frame.sender_ip \notin {node[n].ip, None}

Answers(n, frame) ==
    /\ frame.op = "request" /\ frame.target_ip = node[n].ip /\ frame.sender_ip # node[n].ip

Input(n) ==
    /\ queue[n] # << >>
    /\ LET frame    == Head(queue[n])
           rest     == [queue EXCEPT ![n] = Tail(@)]
           defended == Broadcast(rest, n, IF Defends(n, frame) THEN <<AcdSendAnnouncement(n)>> ELSE << >>)
           reply    == [op |-> "reply", from |-> n, sender_ip |-> frame.target_ip, target_ip |-> frame.sender_ip]
       IN  /\ Become(n, ArpReply(n, frame))
           /\ queue' = IF Answers(n, frame) /\ {n, frame.from} \subseteq link
                       THEN [defended EXCEPT ![frame.from] = Append(@, reply)]
                       ELSE defended
    /\ UNCHANGED <<link, budget>>

Lose(n) ==
    /\ queue[n] # << >> /\ lost < scenario.losses
    /\ queue' = [queue EXCEPT ![n] = Tail(@)] /\ lost' = lost + 1
    /\ UNCHANGED <<node, link, due, started, changed, flapped, scenario>>
-----------------------------------------------------------------------------
\* network::Set, when the node starts with its link up.
Set(n) ==
    /\ n \notin started /\ started' = started \cup {n} /\ link' = link \cup {n}
    /\ Start(n, scenario.own[n])
    /\ UNCHANGED <<queue, lost, changed, flapped, scenario>>

SetPrimaryIp(n, ipaddr) ==
    /\ n \in started /\ changed < scenario.changes /\ changed' = changed + 1
    /\ ipaddr # node[n].ip
    /\ Start(n, ipaddr)
    /\ UNCHANGED <<link, queue, started, lost, flapped, scenario>>

\* The link goes down: NetworkChangedLinkDown.  It starts nothing when it comes back.
SetLinkDown(n) ==
    /\ n \in link /\ flapped < scenario.flaps /\ flapped' = flapped + 1
    /\ link' = link \ {n} /\ queue' = [queue EXCEPT ![n] = << >>]
    /\ Become(n, Stops(node[n]))
    /\ UNCHANGED <<started, lost, changed, scenario>>

SetLinkUp(n) ==
    /\ n \in started \ link /\ link' = link \cup {n}
    /\ UNCHANGED <<node, due, queue, budget>>

Next ==
    \/ \E n \in Node : Timer(n) \/ Input(n) \/ Lose(n) \/ Set(n) \/ SetLinkDown(n) \/ SetLinkUp(n)
    \/ \E n \in Node, ipaddr \in Ip : SetPrimaryIp(n, ipaddr)
    \/ Tick

\* Time goes on, the super loop serves the timers and the frames.
Spec ==
    /\ Init /\ [][Next]_vars
    /\ WF_vars(Tick) /\ \A n \in Node : WF_vars(Timer(n)) /\ WF_vars(Input(n) \/ Lose(n))
-----------------------------------------------------------------------------
Settled(n) == node[n].timers = IF node[n].state = "Off" THEN 0 ELSE 1

SharedBy(m, n) == m # n /\ node[m].ip = node[n].ip /\ node[n].ip # None

\* Two nodes do not come to use one address as long as no frame has been lost,
\* unless an address is changed while another is probed: then two timers serve
\* a node, and one of them is never deleted.
NotShared ==
    lost = 0 /\ scenario.flaps = 0 /\ (\A n \in Node : Settled(n)) =>
       \A m, n \in Node : ~SharedBy(m, n)

\* Nor when one frame has been lost: a node probes three times, and looks at
\* what the others probe (the comment in ArpReply: "someone else is probing it").
NotSharedAfterLoss ==
    lost <= 1 /\ scenario.flaps = 0 /\ scenario.changes = 0 =>
       \A m, n \in Node : ~SharedBy(m, n)

\* An address that a node has been using is not taken by another that asks for
\* it, as long as fewer frames are lost than there are probes.
TakenIsKept ==
    [][\A n \in Node :
         /\ scenario.flaps = 0 /\ scenario.changes = 0 /\ scenario.losses < kProbeNum
         /\ node[n].taken
         => node'[n].ip = node[n].ip]_vars

\* A node gets its address when no other node wants it, its link stays up and
\* nobody changes it.
AddressObtained ==
    \A n \in Node :
      (/\ scenario.flaps = 0 /\ scenario.changes = 0 /\ n \in started
       /\ \A m \in Node \ {n} : scenario.own[m] # scenario.own[n])
       ~> node[n].ip = scenario.own[n]
=============================================================================
