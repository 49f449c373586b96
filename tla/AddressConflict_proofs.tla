----------------------- MODULE AddressConflict_proofs ------------------------
(***************************************************************************)
(* Theorems of AddressConflict, for any number of nodes and addresses and  *)
(* any schedule of the timers, the frames and the changes of addresses.    *)
(***************************************************************************)
EXTENDS AddressConflict, TLAPS, SequenceTheorems

States == {"Off", "ProbeWait", "Probing", "AnnounceWait", "Announcing", "RateLimit"}
AnyIp  == Ip \cup {None}
Acd    == [ipaddr : AnyIp, state : States, sent_num : Nat, lastconflict : Nat,
           num_conflicts : Nat, ttw : Nat, timers : Nat, timer_id : BOOLEAN,
           ip : AnyIp, taken : BOOLEAN]
Ops    == {"request", "reply"}
Arp    == [op : Ops, from : Node, sender_ip : AnyIp, target_ip : AnyIp]

\* A node, with what holds of it in any of its states.
AcdOk(acd) ==
    /\ acd \in Acd
    /\ acd.timer_id <=> acd.state # "Off"
    /\ acd.timer_id => acd.timers >= 1
    /\ acd.state # "Off" => acd.ipaddr \in Ip
    /\ acd.state = "AnnounceWait" => acd.sent_num = 0
    /\ acd.state = "Announcing" => acd.ttw <= kAnnounceInterval * kAcdTicksPerSecond

Types ==
    /\ scenario \in Scenarios /\ due \in [Node -> Nat] /\ queue \in [Node -> Seq(Arp)]
    /\ link \subseteq started /\ started \subseteq Node
    /\ lost \in Nat /\ changed \in Nat /\ flapped \in Nat
    /\ node \in [Node -> Acd] /\ \A n \in Node : AcdOk(node[n]) /\ due[n] <= node[n].timers

\* Nodes are on the network from when they start, if no link is interrupted.
Linked ==
    /\ scenario.flaps = 0 => link = started
    /\ \A n \in Node \ started : node[n].timers = 0 /\ node[n].ip = None

\* Nothing has been lost, and one timer at most serves a node.
Quiet == lost = 0 /\ scenario.flaps = 0 /\ \A n \in Node : Settled(n)

\* A frame on its way to a node is from one that has the address; or it is a probe.
Probe(m, a)      == [op |-> "request", from |-> m, sender_ip |-> None, target_ip |-> a]
ToldIn(q, a)     == \E i \in 1 .. Len(q) : q[i].sender_ip = a
AskedIn(q, m, a) == \E i \in 1 .. Len(q) : q[i] = Probe(m, a)
Told(n, a)       == ToldIn(queue[n], a)
Asked(n, m, a)   == AskedIn(queue[n], m, a)

Is(n, states, a) == node[n].state \in states /\ node[n].ipaddr = a
AtLeast1(k)      == IF k = 0 THEN 1 ELSE k
Gap              == AtLeast1(kAnnounceInterval * kAcdTicksPerSecond)

\* In how many ticks the timer of a node does something.
Fire(n) == AtLeast1(node[n].ttw) - due[n]

\* A node that wants an address another has is told before it announces it.
NotTaken(m, n, a) ==
    node[n].ip = a =>
       /\ Is(m, {"AnnounceWait"}, a) => (Told(m, a) \/ Asked(n, m, a)) /\ Fire(m) >= 1
       /\ ~Is(m, {"Announcing"}, a)

\* So is one that wants an address another announces: it is told, or the other
\* announces it again in time.  Of two that announce it at once, one is told.
Announced(m, n, a) ==
    Is(n, {"Announcing"}, a) =>
       /\ Is(m, {"ProbeWait", "Probing"}, a) =>
             Fire(n) < Gap \/ due[m] = 0 \/ (Told(m, a) /\ due[n] = 0)
       /\ Is(m, {"AnnounceWait"}, a) => Fire(n) < Fire(m) \/ (Told(m, a) /\ due[n] = 0)
       /\ Is(m, {"Announcing"}, a) => due[m] = 0 /\ due[n] = 0 /\ (Told(m, a) \/ Told(n, a))

Pair(m, n) == (\A a \in Ip : NotTaken(m, n, a) /\ Announced(m, n, a)) /\ ~SharedBy(m, n)
Conflicts  == \A m, n \in Node : m # n => Pair(m, n)

AcdInv == Types /\ Linked /\ (Quiet => Conflicts)
-----------------------------------------------------------------------------
\* What the constants are.
LEMMA Numbers ==
    /\ None \notin Ip /\ None \in AnyIp /\ Ip \subseteq AnyIp
    /\ kAcdTicksPerSecond \in Nat /\ kAcdTicksPerSecond >= 1 /\ kProbeWait \in Nat /\ kProbeNum \in Nat
    /\ kAnnounceNum \in Nat /\ kMaxConflicts \in Nat /\ kAnnounceInterval \in Nat /\ kAnnounceWait \in Nat
    /\ kRateLimitInterval \in Nat /\ kDefendInterval \in Nat /\ kProbeMin \in Nat /\ kProbeMax \in Nat
    /\ kAnnounceInterval * kAcdTicksPerSecond \in Nat /\ kAnnounceWait * kAcdTicksPerSecond \in Nat
    /\ kRateLimitInterval * kAcdTicksPerSecond \in Nat /\ kDefendInterval * kAcdTicksPerSecond \in Nat
    /\ kProbeWait * kAcdTicksPerSecond \in Nat /\ kProbeMin * kAcdTicksPerSecond \in Nat
    /\ kProbeMax * kAcdTicksPerSecond \in Nat
BY ConflictAssumption DEF AnyIp

LEMMA NodeFields ==
    ASSUME NEW acd \in Acd
    PROVE  /\ acd.ipaddr \in AnyIp /\ acd.state \in States /\ acd.sent_num \in Nat /\ acd.lastconflict \in Nat
           /\ acd.num_conflicts \in Nat /\ acd.ttw \in Nat /\ acd.timers \in Nat /\ acd.timer_id \in BOOLEAN
           /\ acd.ip \in AnyIp /\ acd.taken \in BOOLEAN
BY DEF Acd

\* Start and Stop.
LEMMA StartsOk ==
    ASSUME NEW acd, AcdOk(acd), NEW ipaddr \in Ip, NEW wait \in Nat, NEW taken \in BOOLEAN
    PROVE  LET r == [Starts(acd, ipaddr, wait) EXCEPT !.taken = taken]
           IN  AcdOk(r) /\ r.ip = acd.ip /\ r.timers = acd.timers + 1
               /\ r.state = "ProbeWait" /\ r.ipaddr = ipaddr
               /\ r.sent_num = acd.sent_num /\ r.taken = taken
<1> DEFINE r == [Starts(acd, ipaddr, wait) EXCEPT !.taken = taken]
<1>1. acd \in Acd /\ acd.timers + 1 \in Nat /\ acd.timers + 1 >= 1 /\ ipaddr \in AnyIp /\ "ProbeWait" \in States
  BY NodeFields, Numbers DEF AcdOk, States
<1>2. /\ r \in Acd /\ r.ip = acd.ip /\ r.timers = acd.timers + 1 /\ r.state = "ProbeWait"
      /\ r.ipaddr = ipaddr /\ r.timer_id = TRUE /\ r.sent_num = acd.sent_num /\ r.taken = taken
  BY <1>1 DEF Starts, Acd
<1>4. r.timers >= 1 /\ r.state # "Off" /\ r.state # "AnnounceWait" /\ r.state # "Announcing"
  <2> HIDE DEF r
  <2> QED  BY <1>1, <1>2
<1> HIDE DEF r
<1>3. AcdOk(r)
  BY <1>2, <1>4 DEF AcdOk
<1> QED  BY <1>2, <1>3 DEF r

LEMMA StopsOk ==
    ASSUME NEW acd, AcdOk(acd)
    PROVE  LET r == Stops(acd)
           IN  /\ AcdOk(r) /\ r.state = "Off" /\ r.ip = acd.ip /\ r.ipaddr = acd.ipaddr /\ r.taken = acd.taken
               /\ r.timers = IF acd.state # "Off" THEN acd.timers - 1 ELSE acd.timers
<1> DEFINE r == Stops(acd)
           timers == IF acd.timer_id THEN acd.timers - 1 ELSE acd.timers
<1>1. acd \in Acd /\ timers \in Nat /\ "Off" \in States
      /\ timers = IF acd.state # "Off" THEN acd.timers - 1 ELSE acd.timers
  BY NodeFields DEF AcdOk, States
<1>2. r = [acd EXCEPT !.state = "Off", !.timers = timers, !.timer_id = FALSE]
  BY DEF Stops
<1> HIDE DEF r, timers
<1>3. /\ r \in Acd /\ r.state = "Off" /\ r.ip = acd.ip /\ r.ipaddr = acd.ipaddr /\ r.timers = timers
      /\ r.timer_id = FALSE /\ r.taken = acd.taken
  BY <1>1, <1>2 DEF Acd
<1>4. AcdOk(r)
  BY <1>3 DEF AcdOk
<1> QED  BY <1>1, <1>3, <1>4 DEF r

\* A node that gives up its address keeps what it uses.
LEMMA RestartOk ==
    ASSUME NEW acd, AcdOk(acd), acd.state # "Off"
    PROVE  LET r == Restart(acd)
           IN  /\ AcdOk(r) /\ r.ip = acd.ip /\ r.taken = acd.taken
               /\ \/ r.state = "RateLimit" /\ r.timers = acd.timers
                  \/ r.state = "Off" /\ r.timers = acd.timers - 1
<1> DEFINE d == [acd EXCEPT !.num_conflicts = @ + 1]
           l == [d EXCEPT !.state = "RateLimit", !.ttw = kRateLimitInterval * kAcdTicksPerSecond]
<1>1. acd \in Acd /\ acd.num_conflicts + 1 \in Nat /\ "RateLimit" \in States
  BY NodeFields DEF AcdOk, States
<1>2. /\ d \in Acd /\ d.state = acd.state /\ d.ip = acd.ip /\ d.timers = acd.timers /\ d.timer_id = acd.timer_id
      /\ d.ipaddr = acd.ipaddr /\ d.sent_num = acd.sent_num /\ d.ttw = acd.ttw /\ d.taken = acd.taken
  BY <1>1 DEF Acd
<1>3. Restart(acd) = IF d.num_conflicts >= kMaxConflicts THEN l ELSE Stops(d)
  BY DEF Restart
<1> HIDE DEF d
<1>4. AcdOk(d)
  BY <1>2 DEF AcdOk
<1>5. /\ l \in Acd /\ l.state = "RateLimit" /\ l.ip = d.ip /\ l.timers = d.timers /\ l.timer_id = d.timer_id
      /\ l.ipaddr = d.ipaddr /\ l.taken = d.taken
  BY <1>1, <1>2, Numbers DEF Acd
<1> HIDE DEF l
<1>6. AcdOk(l)
  BY <1>2, <1>4, <1>5 DEF AcdOk
<1> QED  BY <1>2, <1>3, <1>4, <1>5, <1>6, StopsOk

Claims == {"ProbeWait", "Probing", "AnnounceWait", "Announcing"}

\* A frame that comes in: it is of no concern, it is answered with an announcement,
\* or the node gives the address up.
Unmoved(k, frame, r) ==
    r = node[k] /\ ~Defends(k, frame) /\ ~(node[k].state \in Claims /\ frame.sender_ip = node[k].ipaddr)
Defended(k, frame, r) ==
    /\ Defends(k, frame) /\ node[k].state = "Announcing" /\ frame.sender_ip = node[k].ipaddr
    /\ r.state = "Announcing" /\ r.ipaddr = node[k].ipaddr /\ r.ip = node[k].ip
    /\ r.ttw = node[k].ttw /\ r.timers = node[k].timers
GivenUp(k, frame, r) ==
    /\ ~Defends(k, frame) /\ node[k].state \in Claims /\ frame.sender_ip # None /\ r.ip = node[k].ip
    /\ \/ r.state = "RateLimit" /\ r.timers = node[k].timers
       \/ r.state = "Off" /\ r.timers = node[k].timers - 1

LEMMA ArpReplyIs ==
    ASSUME Types, NEW k \in Node, NEW frame \in Arp
    PROVE  LET r == ArpReply(k, frame)
           IN  /\ AcdOk(r) /\ r.taken = node[k].taken
               /\ Unmoved(k, frame, r) \/ Defended(k, frame, r) \/ GivenUp(k, frame, r)
<1> DEFINE b == node[k]
           d == [b EXCEPT !.lastconflict = kDefendInterval * kAcdTicksPerSecond]
           r == ArpReply(k, frame)
<1>1. b \in Acd /\ AcdOk(b)
  BY DEF Types
<1>2. CASE b.state \in {"ProbeWait", "Probing", "AnnounceWait"} /\ ProbeConflict(k, frame)
  <2>1. r = Restart(b) /\ ~Defends(k, frame) /\ b.state \in Claims /\ b.state # "Off"
    BY <1>2 DEF ArpReply, Defends, Claims
  <2>2. frame.sender_ip # None
    BY <1>1, <1>2, <2>1, Numbers DEF ProbeConflict, AcdOk
  <2>3. /\ AcdOk(Restart(b)) /\ Restart(b).ip = b.ip /\ Restart(b).taken = b.taken
        /\ \/ Restart(b).state = "RateLimit" /\ Restart(b).timers = b.timers
           \/ Restart(b).state = "Off" /\ Restart(b).timers = b.timers - 1
    BY <1>1, <2>1, RestartOk
  <2> QED  BY <2>1, <2>2, <2>3 DEF GivenUp
<1>3. CASE ~(b.state \in {"ProbeWait", "Probing", "AnnounceWait"} /\ ProbeConflict(k, frame)) /\ Defends(k, frame)
  <2>1. r = d /\ b.state = "Announcing" /\ frame.sender_ip = b.ipaddr
    BY <1>3 DEF ArpReply, Defends
  <2>2. /\ d \in Acd /\ d.state = b.state /\ d.ipaddr = b.ipaddr /\ d.ip = b.ip /\ d.ttw = b.ttw /\ d.taken = b.taken
        /\ d.timers = b.timers /\ d.timer_id = b.timer_id /\ d.sent_num = b.sent_num
    BY <1>1, Numbers DEF Acd
  <2> HIDE DEF d, r
  <2>3. AcdOk(d)
    BY <1>1, <2>2 DEF AcdOk
  <2>4. AcdOk(r) /\ r.taken = node[k].taken /\ Defended(k, frame, r)
    BY <1>3, <2>1, <2>2, <2>3 DEF Defended
  <2> QED  BY <2>4 DEF r
<1>4. CASE /\ ~(b.state \in {"ProbeWait", "Probing", "AnnounceWait"} /\ ProbeConflict(k, frame))
           /\ ~Defends(k, frame) /\ b.state = "Announcing" /\ frame.sender_ip = b.ipaddr
  <2>1. r = Restart(b) /\ b.state \in Claims /\ b.state # "Off"
    BY <1>4 DEF ArpReply, Claims
  <2>2. frame.sender_ip # None
    BY <1>1, <1>4, Numbers DEF AcdOk
  <2>3. /\ AcdOk(Restart(b)) /\ Restart(b).ip = b.ip /\ Restart(b).taken = b.taken
        /\ \/ Restart(b).state = "RateLimit" /\ Restart(b).timers = b.timers
           \/ Restart(b).state = "Off" /\ Restart(b).timers = b.timers - 1
    BY <1>1, <2>1, RestartOk
  <2> QED  BY <1>4, <2>1, <2>2, <2>3 DEF GivenUp
<1>5. CASE /\ ~(b.state \in {"ProbeWait", "Probing", "AnnounceWait"} /\ ProbeConflict(k, frame))
           /\ ~Defends(k, frame) /\ ~(b.state = "Announcing" /\ frame.sender_ip = b.ipaddr)
  <2>1. r = b
    BY <1>5 DEF ArpReply
  <2>2. ~(b.state \in Claims /\ frame.sender_ip = b.ipaddr)
    BY <1>5 DEF Claims, ProbeConflict
  <2> HIDE DEF r
  <2>3. AcdOk(r) /\ r.taken = node[k].taken /\ Unmoved(k, frame, r)
    BY <1>1, <1>5, <2>1, <2>2 DEF Unmoved
  <2> QED  BY <2>3 DEF r
<1> QED  BY <1>2, <1>3, <1>4, <1>5
-----------------------------------------------------------------------------
\* The timer: nothing happens, the rate limit ends, a probe is sent, or an
\* announcement; after the last one the address is obtained.
Sends(k, sender) ==
    queue' = Broadcast(queue, k, <<[op |-> "request", from |-> k, sender_ip |-> sender, target_ip |-> node[k].ipaddr]>>)

Waited(k, r) ==
    /\ r.state = node[k].state /\ r.ipaddr = node[k].ipaddr /\ r.ip = node[k].ip /\ r.timers = node[k].timers
    /\ node[k].state \in Claims => node[k].ttw >= 2 /\ r.ttw = node[k].ttw - 1
    /\ r.sent_num = node[k].sent_num
    /\ queue' = queue
Rested(k, r) ==
    /\ node[k].state = "RateLimit" /\ r.state = "Off" /\ r.ip = node[k].ip
    /\ r.timers = node[k].timers - 1 /\ queue' = queue
Probed(k, r) ==
    /\ node[k].state \in {"ProbeWait", "Probing"} /\ node[k].ttw <= 1
    /\ r.ipaddr = node[k].ipaddr /\ r.ip = node[k].ip /\ r.timers = node[k].timers
    /\ \/ /\ r.state = "Probing" /\ r.sent_num = node[k].sent_num + 1 /\ r.sent_num < kProbeNum
       \/ /\ r.state = "AnnounceWait" /\ node[k].sent_num + 1 >= kProbeNum
          /\ r.ttw = kAnnounceWait * kAcdTicksPerSecond
    /\ Sends(k, None)
Announces(k, r) ==
    /\ node[k].state \in {"AnnounceWait", "Announcing"} /\ node[k].ttw <= 1
    /\ r.state = "Announcing" /\ r.ipaddr = node[k].ipaddr /\ r.ip = node[k].ip
    /\ r.timers = node[k].timers /\ r.ttw = kAnnounceInterval * kAcdTicksPerSecond
    /\ Sends(k, node[k].ipaddr)
Obtains(k, r) ==
    /\ node[k].state \in {"AnnounceWait", "Announcing"} /\ node[k].ttw <= 1
    /\ r.state = "Off" /\ r.ip = node[k].ipaddr /\ r.timers = node[k].timers - 1
    /\ node[k].state = "AnnounceWait" => kAnnounceNum <= 1
    /\ Sends(k, node[k].ipaddr)

TimerIs(k, r) ==
    /\ AcdOk(r) /\ r.taken = node[k].taken /\ node' = [node EXCEPT ![k] = r]
    /\ Waited(k, r) \/ Rested(k, r) \/ Probed(k, r) \/ Announces(k, r) \/ Obtains(k, r)

LEMMA TimerEffect ==
    ASSUME Types, NEW k \in Node, Timer(k), k \in link
    PROVE  TimerIs(k, node'[k])
<1> DEFINE b == node[k]
           acd == [node[k] EXCEPT !.lastconflict = Older(@), !.ttw = Older(@)]
<1>1. b \in Acd /\ AcdOk(b)
  BY DEF Types
<1>2. \A i \in Nat : Older(i) \in Nat /\ (i > 0 => Older(i) = i - 1) /\ (i = 0 => Older(i) = 0)
  BY DEF Older
<1>3. b.ttw \in Nat /\ b.lastconflict \in Nat /\ b.sent_num \in Nat /\ b.timers \in Nat
  BY <1>1, NodeFields
<1>4. /\ acd \in Acd /\ acd.state = b.state /\ acd.ipaddr = b.ipaddr /\ acd.ip = b.ip /\ acd.taken = b.taken
      /\ acd.timers = b.timers /\ acd.timer_id = b.timer_id /\ acd.sent_num = b.sent_num /\ acd.ttw = Older(b.ttw)
  BY <1>1, <1>2, <1>3 DEF Acd
<1>5. /\ acd.ttw \in Nat /\ (acd.ttw = 0 => b.ttw <= 1) /\ (acd.ttw > 0 => b.ttw >= 2 /\ acd.ttw = b.ttw - 1)
      /\ acd.ttw <= b.ttw
  <2> HIDE DEF acd
  <2> QED  BY <1>2, <1>3, <1>4
<1>6. TimerProbe(k, acd) \/ TimerAnnounce(k, acd) \/ TimerWait(k, acd)
  BY DEF Timer
<1> HIDE DEF acd
<1>7. AcdOk(acd)
  <2>1. kAnnounceInterval * kAcdTicksPerSecond \in Nat
    BY Numbers
  <2> QED  BY <1>1, <1>3, <1>4, <1>5, <2>1 DEF AcdOk
<1> DEFINE r == node'[k]
<1>8. CASE TimerProbe(k, acd)
  <2> DEFINE probed == [acd EXCEPT !.sent_num = @ + 1]
             last   == [probed EXCEPT !.state = "AnnounceWait", !.sent_num = 0,
                                      !.ttw = kAnnounceWait * kAcdTicksPerSecond]
  <2>1. /\ probed \in Acd /\ probed.sent_num = b.sent_num + 1 /\ probed.state = b.state /\ probed.taken = b.taken
        /\ probed.ipaddr = b.ipaddr /\ probed.ip = b.ip /\ probed.timers = b.timers /\ probed.timer_id = b.timer_id
    BY <1>3, <1>4 DEF Acd
  <2>2. Sends(k, None)
    BY <1>8 DEF TimerProbe, AcdProbe, Request, Sends
  <2>3. b.state \in {"ProbeWait", "Probing"} /\ b.ttw <= 1
    BY <1>4, <1>5, <1>8 DEF TimerProbe
  <2>4. CASE probed.sent_num >= kProbeNum
    <3>1. node' = [node EXCEPT ![k] = last]
      BY <1>8, <2>4 DEF TimerProbe
    <3>2. /\ last \in Acd /\ last.state = "AnnounceWait" /\ last.sent_num = 0 /\ last.taken = b.taken
          /\ last.ttw = kAnnounceWait * kAcdTicksPerSecond /\ last.ipaddr = b.ipaddr /\ last.ip = b.ip
          /\ last.timers = b.timers /\ last.timer_id = b.timer_id
      <4> HIDE DEF probed
      <4>1. "AnnounceWait" \in States
        BY DEF States
      <4> QED  BY <2>1, <4>1, Numbers DEF Acd
    <3> HIDE DEF last, probed
    <3>3. AcdOk(last)
      BY <1>1, <2>3, <3>2 DEF AcdOk
    <3>4. r = last
      BY <3>1 DEF Types
    <3>5. Probed(k, last)
      BY <2>1, <2>2, <2>3, <2>4, <3>2 DEF Probed
    <3> QED  BY <3>1, <3>2, <3>3, <3>4, <3>5 DEF TimerIs
  <2>5. CASE ~(probed.sent_num >= kProbeNum)
    <3>1. PICK wait \in kProbeMin * kAcdTicksPerSecond .. kProbeMax * kAcdTicksPerSecond - 1 :
             node' = [node EXCEPT ![k] = [probed EXCEPT !.state = "Probing", !.ttw = wait]]
      BY <1>8, <2>5 DEF TimerProbe
    <3> DEFINE next == [probed EXCEPT !.state = "Probing", !.ttw = wait]
    <3>2. /\ next \in Acd /\ next.state = "Probing" /\ next.sent_num = probed.sent_num /\ next.taken = b.taken
          /\ next.ipaddr = b.ipaddr /\ next.ip = b.ip /\ next.timers = b.timers /\ next.timer_id = b.timer_id
      <4> HIDE DEF probed
      <4>1. "Probing" \in States /\ wait \in Nat
        BY Numbers DEF States
      <4> QED  BY <2>1, <4>1 DEF Acd
    <3> HIDE DEF next, probed
    <3>3. AcdOk(next)
      BY <1>1, <2>3, <3>2 DEF AcdOk
    <3>4. r = next
      BY <3>1 DEF Types, next
    <3>5. Probed(k, next)
      BY <1>3, <2>1, <2>2, <2>3, <2>5, <3>2, Numbers DEF Probed
    <3> QED  BY <3>1, <3>2, <3>3, <3>4, <3>5 DEF TimerIs, next
  <2> QED  BY <2>4, <2>5
<1>9. CASE TimerAnnounce(k, acd)
  <2> DEFINE announced == [acd EXCEPT !.state = "Announcing", !.sent_num = @ + 1,
                              !.num_conflicts = IF acd.sent_num = 0 THEN 0 ELSE @,
                              !.ttw = kAnnounceInterval * kAcdTicksPerSecond]
             rested == [announced EXCEPT !.sent_num = 0, !.ttw = 0, !.ip = acd.ipaddr]
  <2>1. /\ announced \in Acd /\ announced.state = "Announcing" /\ announced.sent_num = b.sent_num + 1
        /\ announced.ttw = kAnnounceInterval * kAcdTicksPerSecond /\ announced.ipaddr = b.ipaddr
        /\ announced.ip = b.ip /\ announced.timers = b.timers /\ announced.timer_id = b.timer_id
        /\ announced.taken = b.taken
    <3> DEFINE counted == IF acd.sent_num = 0 THEN 0 ELSE acd.num_conflicts
               interval == kAnnounceInterval * kAcdTicksPerSecond
    <3>1. "Announcing" \in States /\ counted \in Nat /\ interval \in Nat
      BY <1>4, NodeFields, Numbers DEF States
    <3> HIDE DEF counted, interval
    <3>2. announced = [acd EXCEPT !.state = "Announcing", !.sent_num = b.sent_num + 1,
                         !.num_conflicts = counted, !.ttw = interval]
      BY <1>4 DEF counted, interval
    <3> HIDE DEF announced
    <3>3. b.sent_num + 1 \in Nat
      BY <1>3
    <3>4. /\ announced \in Acd /\ announced.state = "Announcing" /\ announced.sent_num = b.sent_num + 1
          /\ announced.ttw = interval /\ announced.ipaddr = acd.ipaddr
          /\ announced.ip = acd.ip /\ announced.timers = acd.timers /\ announced.timer_id = acd.timer_id
          /\ announced.taken = acd.taken
      BY <1>4, <3>1, <3>2, <3>3 DEF Acd
    <3> QED  BY <1>4, <3>4 DEF interval
  <2>2. Sends(k, b.ipaddr)
    BY <1>9 DEF TimerAnnounce, AcdSendAnnouncement, Request, Sends
  <2>3. b.state \in {"AnnounceWait", "Announcing"} /\ b.ttw <= 1
    BY <1>4, <1>5, <1>9 DEF TimerAnnounce
  <2>4. node' = [node EXCEPT ![k] = IF announced.sent_num < kAnnounceNum THEN announced ELSE Stops(rested)]
    BY <1>9 DEF TimerAnnounce
  <2>5. /\ rested \in Acd /\ rested.state = "Announcing" /\ rested.ip = b.ipaddr /\ rested.ttw = 0
        /\ rested.ipaddr = b.ipaddr /\ rested.timers = b.timers /\ rested.timer_id = b.timer_id
        /\ rested.taken = b.taken
    <3> HIDE DEF announced
    <3>1. b.ipaddr \in AnyIp
      BY <1>1, NodeFields
    <3> QED  BY <1>4, <2>1, <3>1 DEF Acd
  <2> HIDE DEF announced, rested
  <2>6. r = IF announced.sent_num < kAnnounceNum THEN announced ELSE Stops(rested)
    BY <2>4 DEF Types
  <2>7. AcdOk(announced) /\ AcdOk(rested)
    BY <1>1, <2>1, <2>3, <2>5, Numbers DEF AcdOk
  <2>8. CASE announced.sent_num < kAnnounceNum
    <3>1. Announces(k, announced)
      BY <2>1, <2>2, <2>3 DEF Announces
    <3> QED  BY <2>1, <2>4, <2>6, <2>7, <2>8, <3>1 DEF TimerIs
  <2>9. CASE ~(announced.sent_num < kAnnounceNum)
    <3>1. /\ AcdOk(Stops(rested)) /\ Stops(rested).state = "Off" /\ Stops(rested).ip = b.ipaddr
          /\ Stops(rested).timers = b.timers - 1 /\ Stops(rested).taken = b.taken
      BY <2>5, <2>7, StopsOk
    <3>2. b.state = "AnnounceWait" => kAnnounceNum <= 1
      BY <1>1, <2>1, <2>9, Numbers DEF AcdOk
    <3>3. Obtains(k, Stops(rested))
      BY <2>2, <2>3, <3>1, <3>2 DEF Obtains
    <3> QED  BY <2>4, <2>6, <2>9, <3>1, <3>3 DEF TimerIs
  <2> QED  BY <2>8, <2>9
<1>10. CASE TimerWait(k, acd)
  <2>1. node' = [node EXCEPT ![k] = IF acd.state = "RateLimit" /\ acd.ttw = 0 THEN Stops(acd) ELSE acd]
        /\ queue' = queue
    BY <1>10 DEF TimerWait
  <2>2. r = IF acd.state = "RateLimit" /\ acd.ttw = 0 THEN Stops(acd) ELSE acd
    BY <2>1 DEF Types
  <2>3. CASE acd.state = "RateLimit" /\ acd.ttw = 0
    <3>1. Rested(k, Stops(acd)) /\ AcdOk(Stops(acd)) /\ Stops(acd).taken = b.taken
      BY <1>4, <1>7, <2>1, <2>3, StopsOk DEF Rested
    <3> QED  BY <2>1, <2>2, <2>3, <3>1 DEF TimerIs
  <2>4. CASE ~(acd.state = "RateLimit" /\ acd.ttw = 0)
    <3>1. b.state \in Claims => acd.ttw > 0
      BY <1>4, <1>10 DEF TimerWait, Claims
    <3>2. Waited(k, acd)
      BY <1>4, <1>5, <2>1, <3>1 DEF Waited
    <3> QED  BY <1>4, <1>7, <2>1, <2>2, <2>4, <3>2 DEF TimerIs
  <2> QED  BY <2>3, <2>4
<1> QED  BY <1>6, <1>8, <1>9, <1>10
-----------------------------------------------------------------------------
(* The frames on their way.                                                *)
\* All that is in p is in q.
Includes(q, p) ==
    /\ \A a : ToldIn(p, a) => ToldIn(q, a)
    /\ \A i, a : AskedIn(p, i, a) => AskedIn(q, i, a)

LEMMA Appended ==
    ASSUME NEW q \in Seq(Arp), NEW r \in Seq(Arp)
    PROVE  q \o r \in Seq(Arp) /\ Includes(q \o r, q) /\ Includes(q \o r, r)
<1>1. /\ q \o r \in Seq(Arp) /\ Len(q \o r) = Len(q) + Len(r) /\ Len(q) \in Nat /\ Len(r) \in Nat
      /\ \A i \in 1 .. Len(q) : (q \o r)[i] = q[i]
      /\ \A i \in 1 .. Len(r) : (q \o r)[Len(q) + i] = r[i]
  OBVIOUS
<1> DEFINE s == q \o r
<1> HIDE DEF s
<1>2. \A i \in 1 .. Len(q) : i \in 1 .. Len(s) /\ s[i] = q[i]
  BY <1>1 DEF s
<1>3. \A i \in 1 .. Len(r) : Len(q) + i \in 1 .. Len(s) /\ s[Len(q) + i] = r[i]
  BY <1>1 DEF s
<1>4. Includes(s, q)
  BY <1>2 DEF Includes, ToldIn, AskedIn
<1>5. Includes(s, r)
  BY <1>3 DEF Includes, ToldIn, AskedIn
<1> QED  BY <1>1, <1>4, <1>5 DEF s

LEMMA One ==
    ASSUME NEW f \in Arp
    PROVE  /\ <<f>> \in Seq(Arp) /\ ToldIn(<<f>>, f.sender_ip)
           /\ \A i, a : f = Probe(i, a) => AskedIn(<<f>>, i, a)
<1>1. <<f>> \in Seq(Arp) /\ 1 \in 1 .. Len(<<f>>) /\ <<f>>[1] = f
  OBVIOUS
<1> QED  BY <1>1 DEF ToldIn, AskedIn

LEMMA Removed ==
    ASSUME NEW q \in Seq(Arp), q # << >>
    PROVE  /\ Head(q) \in Arp /\ Tail(q) \in Seq(Arp)
           /\ \A a : ToldIn(q, a) => Head(q).sender_ip = a \/ ToldIn(Tail(q), a)
           /\ \A i, a : AskedIn(q, i, a) => Head(q) = Probe(i, a) \/ AskedIn(Tail(q), i, a)
<1>1. /\ Head(q) \in Arp /\ Tail(q) \in Seq(Arp) /\ Len(q) \in Nat /\ Len(Tail(q)) = Len(q) - 1
      /\ q[1] = Head(q) /\ \A i \in 1 .. Len(Tail(q)) : Tail(q)[i] = q[i + 1]
  BY HeadTailProperties
<1> DEFINE t == Tail(q)
<1> HIDE DEF t
<1>2. \A i \in 1 .. Len(q) : i = 1 \/ (i - 1 \in 1 .. Len(t) /\ t[i - 1] = q[i])
  <2> SUFFICES ASSUME NEW i \in 1 .. Len(q), i # 1  PROVE i - 1 \in 1 .. Len(t) /\ t[i - 1] = q[i]
    OBVIOUS
  <2>1. i - 1 \in 1 .. Len(t) /\ (i - 1) + 1 = i
    BY <1>1 DEF t
  <2> QED  BY <1>1, <2>1 DEF t
<1>3. \A a : ToldIn(q, a) => Head(q).sender_ip = a \/ ToldIn(t, a)
  BY <1>1, <1>2 DEF ToldIn
<1>4. \A i, a : AskedIn(q, i, a) => Head(q) = Probe(i, a) \/ AskedIn(t, i, a)
  BY <1>1, <1>2 DEF AskedIn
<1> QED  BY <1>1, <1>3, <1>4 DEF t

\* A frame that is sent reaches all other nodes of the network.
LEMMA BroadcastIs ==
    ASSUME NEW q \in [Node -> Seq(Arp)], NEW k \in Node, NEW frames \in Seq(Arp)
    PROVE  LET b == Broadcast(q, k, frames)
           IN  /\ b \in [Node -> Seq(Arp)] /\ \A j \in Node : Includes(b[j], q[j])
               /\ \A j \in link \ {k} : k \in link /\ j \in Node => Includes(b[j], frames)
<1> DEFINE b == Broadcast(q, k, frames)
<1>1. \A j \in Node : b[j] = IF k \in link /\ j \in link \ {k} THEN q[j] \o frames ELSE q[j]
  BY DEF Broadcast
<1>2. \A j \in Node : /\ q[j] \o frames \in Seq(Arp) /\ Includes(q[j] \o frames, q[j])
                      /\ Includes(q[j] \o frames, frames)
  BY Appended
<1>3. \A j \in Node : Includes(q[j], q[j])
  BY DEF Includes
<1>4. b = [j \in Node |-> b[j]]
  BY DEF Broadcast
<1>5. \A j \in Node : b[j] \in Seq(Arp)
  <2> HIDE DEF b
  <2> QED  BY <1>1, <1>2
<1>6. b \in [Node -> Seq(Arp)]
  <2> HIDE DEF b
  <2> QED  BY <1>4, <1>5
<1> HIDE DEF b
<1>7. /\ \A j \in Node : Includes(b[j], q[j])
      /\ \A j \in link \ {k} : k \in link /\ j \in Node => Includes(b[j], frames)
  BY <1>1, <1>2, <1>3
<1> QED  BY <1>6, <1>7 DEF b

LEMMA SendsEffect ==
    ASSUME Types, NEW k \in link, NEW sender \in AnyIp, Sends(k, sender)
    PROVE  /\ queue' \in [Node -> Seq(Arp)] /\ \A j \in Node : Includes(queue'[j], queue[j])
           /\ \A j \in link \ {k} : /\ ToldIn(queue'[j], sender)
                                    /\ sender = None => AskedIn(queue'[j], k, node[k].ipaddr)
<1> DEFINE f == [op |-> "request", from |-> k, sender_ip |-> sender, target_ip |-> node[k].ipaddr]
<1>1. k \in Node /\ link \subseteq Node /\ f \in Arp /\ queue \in [Node -> Seq(Arp)]
  <2>1. k \in Node /\ link \subseteq Node /\ queue \in [Node -> Seq(Arp)]
    BY DEF Types
  <2>2. node[k].ipaddr \in AnyIp /\ "request" \in Ops
    BY <2>1, NodeFields DEF Types, Ops
  <2> QED  BY <2>1, <2>2 DEF Arp
<1>2. <<f>> \in Seq(Arp) /\ ToldIn(<<f>>, sender) /\ (sender = None => AskedIn(<<f>>, k, node[k].ipaddr))
  <2>1. f.sender_ip = sender /\ (sender = None => f = Probe(k, node[k].ipaddr))
    BY DEF Probe
  <2> HIDE DEF f
  <2> QED  BY <1>1, <2>1, One
<1>3. queue' = Broadcast(queue, k, <<f>>)
  BY DEF Sends
<1> HIDE DEF f
<1>4. /\ queue' \in [Node -> Seq(Arp)] /\ \A j \in Node : Includes(queue'[j], queue[j])
      /\ \A j \in link \ {k} : Includes(queue'[j], <<f>>)
  BY <1>1, <1>2, <1>3, BroadcastIs
<1> QED  BY <1>2, <1>4 DEF Includes

\* A frame that is received.
InputIs(k, frame, r) ==
    /\ frame \in Arp /\ AcdOk(r) /\ r.taken = node[k].taken /\ node' = [node EXCEPT ![k] = r]
    /\ due' = [due EXCEPT ![k] = Least(due[k], r.timers)]
    /\ Unmoved(k, frame, r) \/ Defended(k, frame, r) \/ GivenUp(k, frame, r)
    /\ queue' \in [Node -> Seq(Arp)] /\ \A j \in Node \ {k} : Includes(queue'[j], queue[j])
    /\ \A a : ToldIn(queue[k], a) => frame.sender_ip = a \/ ToldIn(queue'[k], a)
    /\ \A i, a : AskedIn(queue[k], i, a) => frame = Probe(i, a) \/ AskedIn(queue'[k], i, a)
    /\ Defends(k, frame) /\ k \in link => \A j \in link \ {k} : ToldIn(queue'[j], node[k].ipaddr)
    /\ \A i \in link : k \in link /\ frame = Probe(i, node[k].ip) /\ node[k].ip # None =>
          ToldIn(queue'[i], node[k].ip)

LEMMA InputEffect ==
    ASSUME Types, NEW k \in Node, Input(k)
    PROVE  \E frame, r : InputIs(k, frame, r)
<1> DEFINE frame    == Head(queue[k])
           r        == ArpReply(k, frame)
           rest     == [queue EXCEPT ![k] = Tail(queue[k])]
           frames   == IF Defends(k, frame) THEN <<AcdSendAnnouncement(k)>> ELSE << >>
           defended == Broadcast(rest, k, frames)
           reply    == [op |-> "reply", from |-> k, sender_ip |-> frame.target_ip, target_ip |-> frame.sender_ip]
           answered == Answers(k, frame) /\ {k, frame.from} \subseteq link
<1>1. queue[k] \in Seq(Arp) /\ queue[k] # << >> /\ queue \in [Node -> Seq(Arp)] /\ link \subseteq Node
  BY DEF Types, Input
<1>2. /\ frame \in Arp /\ Tail(queue[k]) \in Seq(Arp)
      /\ \A a : ToldIn(queue[k], a) => frame.sender_ip = a \/ ToldIn(Tail(queue[k]), a)
      /\ \A i, a : AskedIn(queue[k], i, a) => frame = Probe(i, a) \/ AskedIn(Tail(queue[k]), i, a)
  BY <1>1, Removed
<1>3. /\ node' = [node EXCEPT ![k] = r] /\ due' = [due EXCEPT ![k] = Least(due[k], r.timers)]
      /\ queue' = IF answered THEN [defended EXCEPT ![frame.from] = Append(@, reply)] ELSE defended
  BY DEF Input, Become
<1> HIDE DEF frame
<1>4. /\ AcdOk(r) /\ r.taken = node[k].taken
      /\ Unmoved(k, frame, r) \/ Defended(k, frame, r) \/ GivenUp(k, frame, r)
  BY <1>2, ArpReplyIs
<1>5. rest \in [Node -> Seq(Arp)] /\ rest[k] = Tail(queue[k]) /\ \A j \in Node \ {k} : rest[j] = queue[j]
  BY <1>1, <1>2
<1> DEFINE announcement == [op |-> "request", from |-> k, sender_ip |-> node[k].ipaddr, target_ip |-> node[k].ipaddr]
<1>6. /\ announcement \in Arp /\ AcdSendAnnouncement(k) = announcement
      /\ announcement.sender_ip = node[k].ipaddr /\ reply \in Arp /\ reply.sender_ip = frame.target_ip
  <2>1. node[k].ipaddr \in AnyIp /\ "request" \in Ops /\ "reply" \in Ops
    BY NodeFields DEF Types, Ops
  <2>2. frame.target_ip \in AnyIp /\ frame.sender_ip \in AnyIp
    BY <1>2 DEF Arp
  <2> QED  BY <2>1, <2>2 DEF Arp, AcdSendAnnouncement, Request
<1> HIDE DEF announcement, reply
<1>7. frames \in Seq(Arp) /\ (Defends(k, frame) => ToldIn(frames, node[k].ipaddr))
  <2>1. CASE Defends(k, frame)
    <3>1. frames = <<announcement>>
      BY <1>6, <2>1
    <3>2. <<announcement>> \in Seq(Arp) /\ ToldIn(<<announcement>>, node[k].ipaddr)
      BY <1>6, One
    <3> QED  BY <2>1, <3>1, <3>2
  <2>2. CASE ~Defends(k, frame)
    BY <2>2
  <2> QED  BY <2>1, <2>2
<1> HIDE DEF rest, frames
<1>8. /\ defended \in [Node -> Seq(Arp)] /\ \A j \in Node : Includes(defended[j], rest[j])
      /\ \A j \in link \ {k} : k \in link => Includes(defended[j], frames)
  BY <1>1, <1>5, <1>7, BroadcastIs
<1> HIDE DEF defended
<1>9. /\ queue' \in [Node -> Seq(Arp)] /\ \A j \in Node : Includes(queue'[j], defended[j])
      /\ answered => ToldIn(queue'[frame.from], reply.sender_ip)
  <2>1. CASE answered
    <3>1. frame.from \in Node /\ defended[frame.from] \in Seq(Arp)
      BY <1>2, <1>8 DEF Arp
    <3>2. Append(defended[frame.from], reply) = defended[frame.from] \o <<reply>>
      BY <1>6, <3>1, SMTT(30)
    <3>3. <<reply>> \in Seq(Arp) /\ ToldIn(<<reply>>, reply.sender_ip)
      BY <1>6, One
    <3> DEFINE more == defended[frame.from] \o <<reply>>
    <3>4. more \in Seq(Arp) /\ Includes(more, defended[frame.from]) /\ Includes(more, <<reply>>)
      BY <3>1, <3>3, Appended
    <3>5. queue' = [defended EXCEPT ![frame.from] = more]
      BY <1>3, <2>1, <3>2
    <3> HIDE DEF more, answered
    <3>6. queue' \in [Node -> Seq(Arp)] /\ queue'[frame.from] = more /\ \A j \in Node : j # frame.from => queue'[j] = defended[j]
      BY <1>8, <3>1, <3>4, <3>5
    <3>7. \A j \in Node : Includes(defended[j], defended[j])
      BY DEF Includes
    <3>8. ToldIn(more, reply.sender_ip)
      BY <3>3, <3>4 DEF Includes
    <3> QED  BY <3>4, <3>6, <3>7, <3>8
  <2>2. CASE ~answered
    <3>1. queue' = defended
      BY <1>3, <2>2
    <3>2. \A j \in Node : Includes(defended[j], defended[j])
      BY DEF Includes
    <3> HIDE DEF answered
    <3> QED  BY <1>8, <2>2, <3>1, <3>2
  <2> QED  BY <2>1, <2>2
<1>10. \A i \in link : k \in link /\ frame = Probe(i, node[k].ip) /\ node[k].ip # None =>
          ToldIn(queue'[i], node[k].ip)
  <2> SUFFICES ASSUME NEW i \in link, k \in link, frame = Probe(i, node[k].ip), node[k].ip # None
               PROVE  ToldIn(queue'[i], node[k].ip)
    OBVIOUS
  <2>1. frame.op = "request" /\ frame.from = i /\ frame.sender_ip = None /\ frame.target_ip = node[k].ip
    BY DEF Probe
  <2>2. answered
    BY <2>1 DEF Answers
  <2> QED  BY <1>6, <1>9, <2>1, <2>2
<1> HIDE DEF answered
<1>11. /\ \A j \in Node \ {k} : Includes(queue'[j], queue[j])
       /\ Includes(queue'[k], Tail(queue[k]))
       /\ Defends(k, frame) /\ k \in link => \A j \in link \ {k} : ToldIn(queue'[j], node[k].ipaddr)
  BY <1>1, <1>5, <1>7, <1>8, <1>9 DEF Includes
<1>12. /\ \A a : ToldIn(queue[k], a) => frame.sender_ip = a \/ ToldIn(queue'[k], a)
       /\ \A i, a : AskedIn(queue[k], i, a) => frame = Probe(i, a) \/ AskedIn(queue'[k], i, a)
  BY <1>2, <1>11 DEF Includes
<1> HIDE DEF r
<1>13. \A j \in Node \ {k} : Includes(queue'[j], queue[j])
  BY <1>11
<1>14. InputIs(k, frame, r)
  BY <1>2, <1>3, <1>4, <1>9, <1>10, <1>11, <1>12, <1>13 DEF InputIs
<1> QED  BY <1>14
-----------------------------------------------------------------------------
(* The types, and who is on the network.                                   *)
LEMMA LeastIs == \A i, j \in Nat : Least(i, j) \in Nat /\ Least(i, j) <= i /\ Least(i, j) <= j /\ (i <= j => Least(i, j) = i)
BY DEF Least

\* What every step does to the node it is about.
Moves(k, r) ==
    /\ AcdOk(r) /\ node' = [node EXCEPT ![k] = r] /\ scenario' = scenario
    /\ due' \in [Node -> Nat] /\ due'[k] <= r.timers /\ \A j \in Node \ {k} : due'[j] = due[j]
    /\ queue' \in [Node -> Seq(Arp)]

LEMMA MovesOk ==
    ASSUME Types, Linked, NEW k \in Node, NEW r, Moves(k, r),
           link' \subseteq started', started \subseteq started', started' \subseteq Node,
           lost' \in Nat, changed' \in Nat, flapped' \in Nat,
           scenario.flaps = 0 => link' = started',
           k \in started' \/ (r.timers = 0 /\ r.ip = None)
    PROVE  Types' /\ Linked'
<1>1. r \in Acd
  BY DEF Moves, AcdOk
<1>2. node' \in [Node -> Acd] /\ node'[k] = r /\ \A j \in Node \ {k} : node'[j] = node[j]
  BY <1>1 DEF Types, Moves
<1>3. \A j \in Node : AcdOk(node'[j]) /\ due'[j] <= node'[j].timers
  <2> TAKE j \in Node
  <2>1. CASE j = k
    BY <1>2, <2>1 DEF Moves
  <2>2. CASE j # k
    BY <1>2, <2>2 DEF Moves, Types
  <2> QED  BY <2>1, <2>2
<1>4. \A j \in Node : AcdOk(node[j])' <=> AcdOk(node'[j])
  BY DEF AcdOk
<1>5. Types'
  BY <1>2, <1>3, <1>4 DEF Types, Moves
<1>6. \A j \in Node \ started' : node'[j].timers = 0 /\ node'[j].ip = None
  <2> TAKE j \in Node \ started'
  <2>1. CASE j = k
    BY <1>2, <2>1
  <2>2. CASE j # k
    BY <1>2, <2>2 DEF Linked
  <2> QED  BY <2>1, <2>2
<1> QED  BY <1>5, <1>6 DEF Linked, Moves

LEMMA TimerMoves ==
    ASSUME Types, NEW k \in Node, Timer(k), k \in link
    PROVE  /\ Moves(k, node'[k]) /\ TimerIs(k, node'[k])
           /\ due' = [due EXCEPT ![k] = Least(due[k] - 1, node'[k].timers)]
           /\ due[k] > 0 /\ link' = link /\ budget' = budget
<1> DEFINE r == node'[k]
<1>1. TimerIs(k, r)
  BY TimerEffect
<1>2. /\ due' = [due EXCEPT ![k] = Least(due[k] - 1, r.timers)] /\ due[k] > 0 /\ link' = link /\ budget' = budget
      /\ scenario' = scenario
  BY DEF Timer, Served, budget
<1> HIDE DEF r
<1>3. AcdOk(r) /\ node' = [node EXCEPT ![k] = r]
  BY <1>1 DEF TimerIs
<1>4. r.timers \in Nat
  BY <1>3, NodeFields DEF AcdOk
<1>5. due \in [Node -> Nat] /\ due[k] - 1 \in Nat
  BY <1>2 DEF Types
<1>6. Least(due[k] - 1, r.timers) \in Nat /\ Least(due[k] - 1, r.timers) <= r.timers
  BY <1>4, <1>5, LeastIs
<1>7. due' \in [Node -> Nat] /\ due'[k] <= r.timers /\ \A j \in Node \ {k} : due'[j] = due[j]
  BY <1>2, <1>5, <1>6
<1>8. queue' \in [Node -> Seq(Arp)]
  <2>1. node[k].ipaddr \in AnyIp /\ None \in AnyIp /\ queue \in [Node -> Seq(Arp)]
    BY NodeFields, Numbers DEF Types
  <2>2. queue' = queue \/ Sends(k, None) \/ Sends(k, node[k].ipaddr)
    BY <1>1 DEF TimerIs, Waited, Rested, Probed, Announces, Obtains
  <2> QED  BY <2>1, <2>2, SendsEffect
<1>9. Moves(k, r)
  BY <1>2, <1>3, <1>7, <1>8 DEF Moves
<1> QED  BY <1>1, <1>2, <1>9 DEF r

LEMMA InputMoves ==
    ASSUME Types, NEW k \in Node, Input(k)
    PROVE  /\ \E frame, r : InputIs(k, frame, r) /\ Moves(k, r)
           /\ link' = link /\ budget' = budget
<1>1. PICK frame, r : InputIs(k, frame, r)
  BY InputEffect
<1>2. /\ AcdOk(r) /\ node' = [node EXCEPT ![k] = r] /\ due' = [due EXCEPT ![k] = Least(due[k], r.timers)]
      /\ queue' \in [Node -> Seq(Arp)]
  BY <1>1 DEF InputIs
<1>3. r.timers \in Nat /\ due \in [Node -> Nat]
  BY <1>2, NodeFields DEF AcdOk, Types
<1>4. Least(due[k], r.timers) \in Nat /\ Least(due[k], r.timers) <= r.timers
  BY <1>3, LeastIs
<1>5. due' \in [Node -> Nat] /\ due'[k] <= r.timers /\ \A j \in Node \ {k} : due'[j] = due[j]
  BY <1>2, <1>3, <1>4
<1>6. link' = link /\ budget' = budget /\ scenario' = scenario
  BY DEF Input, budget
<1>7. Moves(k, r)
  BY <1>2, <1>5, <1>6 DEF Moves
<1> QED  BY <1>1, <1>6, <1>7

StartIs(k, ipaddr, r) ==
    /\ r.ip = node[k].ip /\ r.timers = node[k].timers + 1 /\ r.state = "ProbeWait" /\ r.ipaddr = ipaddr
    /\ r.sent_num = node[k].sent_num /\ r.taken = (\E m \in link \ {k} : node[m].ip = ipaddr)
    /\ due' = due /\ queue' = queue

LEMMA StartMoves ==
    ASSUME Types, NEW k \in Node, NEW ipaddr \in Ip, Start(k, ipaddr), queue' = queue, scenario' = scenario
    PROVE  \E r : StartIs(k, ipaddr, r) /\ Moves(k, r)
<1>1. PICK wait \in 0 .. kProbeWait * kAcdTicksPerSecond - 1 :
         Become(k, [Starts(node[k], ipaddr, wait) EXCEPT !.taken = \E m \in link \ {k} : node[m].ip = ipaddr])
  BY DEF Start
<1> DEFINE other == \E m \in link \ {k} : node[m].ip = ipaddr
           r == [Starts(node[k], ipaddr, wait) EXCEPT !.taken = other]
<1>2. wait \in Nat /\ AcdOk(node[k]) /\ other \in BOOLEAN
  BY Numbers DEF Types
<1>3. node' = [node EXCEPT ![k] = r] /\ due' = [due EXCEPT ![k] = Least(due[k], r.timers)]
  BY <1>1 DEF Become
<1> HIDE DEF other
<1>4. /\ AcdOk(r) /\ r.ip = node[k].ip /\ r.timers = node[k].timers + 1 /\ r.state = "ProbeWait" /\ r.ipaddr = ipaddr
      /\ r.sent_num = node[k].sent_num /\ r.taken = other
  BY <1>2, StartsOk
<1> HIDE DEF r
<1>5. due \in [Node -> Nat] /\ due[k] <= node[k].timers /\ node[k].timers \in Nat
  BY <1>2, NodeFields DEF Types, AcdOk
<1>9. r.timers \in Nat /\ due[k] \in Nat /\ due[k] <= r.timers
  BY <1>4, <1>5
<1>6. Least(due[k], r.timers) = due[k]
  BY <1>9, LeastIs
<1>7. due' = due
  BY <1>3, <1>5, <1>6
<1>8. Moves(k, r)
  BY <1>3, <1>4, <1>5, <1>7, <1>9 DEF Moves, Types
<1> QED  BY <1>4, <1>7, <1>8 DEF StartIs, other

LEMMA TypesKept ==
    ASSUME Types, Linked, [Next]_vars
    PROVE  Types' /\ Linked'
<1>1. /\ \A n \in Node : AcdOk(node[n]) /\ due[n] <= node[n].timers /\ node[n] \in Acd
      /\ node \in [Node -> Acd] /\ due \in [Node -> Nat] /\ queue \in [Node -> Seq(Arp)]
      /\ link \subseteq started /\ started \subseteq Node /\ scenario \in Scenarios
      /\ lost \in Nat /\ changed \in Nat /\ flapped \in Nat
  BY DEF Types
<1>2. ASSUME NEW k \in Node, Timer(k)  PROVE Types' /\ Linked'
  <2>1. CASE k \in link
    <3>1. Moves(k, node'[k]) /\ link' = link /\ started' = started /\ lost' = lost /\ changed' = changed
          /\ flapped' = flapped
      BY <1>2, <2>1, TimerMoves DEF budget
    <3>2. k \in started'
      BY <1>1, <2>1, <3>1
    <3> DEFINE r == node'[k]
    <3> HIDE DEF r
    <3>3. Moves(k, r)
      BY <3>1 DEF r
    <3> QED  BY <1>1, <3>1, <3>2, <3>3, MovesOk DEF Linked
  <2>2. CASE k \notin link
    <3>1. node' = node /\ queue' = queue /\ due' = [due EXCEPT ![k] = Least(due[k] - 1, node[k].timers)] /\ due[k] > 0
          /\ link' = link /\ budget' = budget
      BY <1>1, <1>2, <2>2 DEF Timer, Served
    <3>2. due[k] - 1 \in Nat /\ node[k].timers \in Nat
      BY <1>1, <3>1, NodeFields
    <3>3. Least(due[k] - 1, node[k].timers) \in Nat /\ Least(due[k] - 1, node[k].timers) <= node[k].timers
      BY <3>2, LeastIs
    <3>4. due' \in [Node -> Nat] /\ \A n \in Node : due'[n] <= node[n].timers
      BY <1>1, <3>1, <3>3
    <3>5. \A n \in Node : AcdOk(node[n])' <=> AcdOk(node[n])
      BY <3>1 DEF AcdOk
    <3> QED  BY <1>1, <3>1, <3>4, <3>5 DEF Types, Linked, budget
  <2> QED  BY <2>1, <2>2
<1>3. ASSUME NEW k \in Node, Input(k)  PROVE Types' /\ Linked'
  <2>1. PICK frame, r : InputIs(k, frame, r) /\ Moves(k, r)
    BY <1>3, InputMoves
  <2>2. link' = link /\ started' = started /\ lost' = lost /\ changed' = changed /\ flapped' = flapped
    BY <1>3, InputMoves DEF budget
  <2>3. k \in started \/ (r.timers = 0 /\ r.ip = None)
    <3> SUFFICES ASSUME k \notin started  PROVE r.timers = 0 /\ r.ip = None
      OBVIOUS
    <3>1. node[k].timers = 0 /\ node[k].ip = None
      BY DEF Linked
    <3>2. node[k].state = "Off"
      BY <1>1, <3>1 DEF AcdOk
    <3>3. ~Defended(k, frame, r) /\ ~GivenUp(k, frame, r)
      BY <3>2 DEF Defended, GivenUp, Claims
    <3> QED  BY <2>1, <3>1, <3>3 DEF InputIs, Unmoved
  <2> QED  BY <1>1, <2>1, <2>2, <2>3, MovesOk DEF Linked
<1>4. ASSUME NEW k \in Node, Lose(k)  PROVE Types' /\ Linked'
  <2>1. /\ queue' = [queue EXCEPT ![k] = Tail(queue[k])] /\ queue[k] # << >> /\ lost' = lost + 1
        /\ UNCHANGED <<node, link, due, started, changed, flapped, scenario>>
    BY <1>4 DEF Lose
  <2>2. Tail(queue[k]) \in Seq(Arp)
    BY <1>1, <2>1, Removed
  <2>3. queue' \in [Node -> Seq(Arp)] /\ lost' \in Nat
    BY <1>1, <2>1, <2>2
  <2>4. \A n \in Node : AcdOk(node[n])' <=> AcdOk(node[n])
    BY <2>1 DEF AcdOk
  <2> QED  BY <1>1, <2>1, <2>3, <2>4 DEF Types, Linked
<1>5. ASSUME NEW k \in Node, Set(k)  PROVE Types' /\ Linked'
  <2>1. /\ k \notin started /\ started' = started \cup {k} /\ link' = link \cup {k} /\ Start(k, scenario.own[k])
        /\ UNCHANGED <<queue, lost, changed, flapped, scenario>>
    BY <1>5 DEF Set
  <2>2. scenario.own[k] \in Ip
    BY <1>1, ConflictAssumption
  <2>3. PICK r : StartIs(k, scenario.own[k], r) /\ Moves(k, r)
    BY <2>1, <2>2, StartMoves
  <2> QED  BY <1>1, <2>1, <2>3, MovesOk DEF Linked
<1>6. ASSUME NEW k \in Node, NEW ipaddr \in Ip, SetPrimaryIp(k, ipaddr)  PROVE Types' /\ Linked'
  <2>1. /\ k \in started /\ changed' = changed + 1 /\ Start(k, ipaddr)
        /\ UNCHANGED <<link, queue, started, lost, flapped, scenario>>
    BY <1>6 DEF SetPrimaryIp
  <2>2. PICK r : StartIs(k, ipaddr, r) /\ Moves(k, r)
    BY <2>1, StartMoves
  <2> QED  BY <1>1, <2>1, <2>2, MovesOk DEF Linked
<1>7. ASSUME NEW k \in Node, SetLinkDown(k)  PROVE Types' /\ Linked'
  <2> DEFINE r == Stops(node[k])
  <2>1. /\ k \in link /\ flapped < scenario.flaps /\ flapped' = flapped + 1
        /\ link' = link \ {k} /\ queue' = [queue EXCEPT ![k] = << >>] /\ node' = [node EXCEPT ![k] = r]
        /\ due' = [due EXCEPT ![k] = Least(due[k], r.timers)]
        /\ UNCHANGED <<started, lost, changed, scenario>>
    BY <1>7 DEF SetLinkDown, Become
  <2>2. AcdOk(r)
    BY <1>1, StopsOk
  <2> HIDE DEF r
  <2>3. r.timers \in Nat
    BY <2>2, NodeFields DEF AcdOk
  <2>4. Least(due[k], r.timers) \in Nat /\ Least(due[k], r.timers) <= r.timers
    BY <1>1, <2>3, LeastIs
  <2>5. due' \in [Node -> Nat] /\ due'[k] <= r.timers /\ \A j \in Node \ {k} : due'[j] = due[j]
    BY <1>1, <2>1, <2>4
  <2>6. << >> \in Seq(Arp)
    OBVIOUS
  <2>7. queue' \in [Node -> Seq(Arp)]
    BY <1>1, <2>1, <2>6
  <2>8. Moves(k, r)
    BY <2>1, <2>2, <2>5, <2>7 DEF Moves
  <2>9. scenario.flaps # 0 /\ flapped' \in Nat /\ link' \subseteq started' /\ k \in started'
    BY <1>1, <2>1, ConflictAssumption
  <2> QED  BY <1>1, <2>1, <2>8, <2>9, MovesOk
<1>8. ASSUME NEW k \in Node, SetLinkUp(k)  PROVE Types' /\ Linked'
  <2>1. k \in started \ link /\ link' = link \cup {k} /\ UNCHANGED <<node, due, queue, budget>>
    BY <1>8 DEF SetLinkUp
  <2>2. \A n \in Node : AcdOk(node[n])' <=> AcdOk(node[n])
    BY <2>1 DEF AcdOk
  <2> QED  BY <1>1, <2>1, <2>2 DEF Types, Linked, budget
<1>9. ASSUME Tick  PROVE Types' /\ Linked'
  <2>1. due' = [n \in Node |-> node[n].timers] /\ UNCHANGED <<node, link, queue, budget>>
    BY <1>9 DEF Tick
  <2>2. \A n \in Node : node[n].timers \in Nat
    BY <1>1, NodeFields
  <2>3. due' \in [Node -> Nat] /\ \A n \in Node : due'[n] <= node[n].timers
    BY <2>1, <2>2
  <2>4. \A n \in Node : AcdOk(node[n])' <=> AcdOk(node[n])
    BY <2>1 DEF AcdOk
  <2> QED  BY <1>1, <2>1, <2>3, <2>4 DEF Types, Linked, budget
<1>10. CASE UNCHANGED vars
  <2>1. \A n \in Node : AcdOk(node[n])' <=> AcdOk(node[n])
    BY <1>10 DEF AcdOk, vars
  <2> QED  BY <1>1, <1>10, <2>1 DEF Types, Linked, vars, budget
<1> QED  BY <1>2, <1>3, <1>4, <1>5, <1>6, <1>7, <1>8, <1>9, <1>10 DEF Next
-----------------------------------------------------------------------------
(* No frame is lost, and every node has its one timer.                     *)
LEMMA QuietBefore ==
    ASSUME Types, Linked, [Next]_vars, Quiet'
    PROVE  Quiet
<1>1. /\ \A n \in Node : AcdOk(node[n]) /\ node[n].timers \in Nat
      /\ node \in [Node -> Acd] /\ lost \in Nat /\ link \subseteq Node /\ scenario \in Scenarios
  BY NodeFields DEF Types
<1>2. lost' = 0 /\ scenario'.flaps = 0 /\ \A n \in Node : Settled(n)'
  BY DEF Quiet
<1> DEFINE Fits(acd) == acd.timers = IF acd.state = "Off" THEN 0 ELSE 1
<1>3. ASSUME NEW k \in Node, NEW r, node' = [node EXCEPT ![k] = r], Fits(r) => Fits(node[k])
      PROVE  \A n \in Node : Settled(n)
  <2> TAKE n \in Node
  <2>1. Fits(node'[n])
    BY <1>2 DEF Settled
  <2>2. CASE n = k
    <3>1. node'[n] = r
      BY <1>1, <1>3, <2>2
    <3> QED  BY <1>3, <2>1, <2>2, <3>1 DEF Settled
  <2>3. CASE n # k
    BY <1>1, <1>3, <2>1, <2>3 DEF Settled
  <2> QED  BY <2>2, <2>3
<1>4. ASSUME node' = node  PROVE \A n \in Node : Settled(n)
  BY <1>2, <1>4 DEF Settled
<1> HIDE DEF Fits
<1>5. ASSUME NEW k \in Node, Timer(k)  PROVE Quiet
  <2>1. lost' = lost /\ scenario' = scenario /\ (k \notin link => node' = node)
    BY <1>5 DEF Timer, budget
  <2>2. CASE k \in link
    <3> DEFINE r == node'[k]
    <3>1. TimerIs(k, r)
      BY <1>5, <2>2, TimerEffect
    <3> HIDE DEF r
    <3>2. Fits(r) => Fits(node[k])
      <4>1. node[k].timers \in Nat
        BY <1>1
      <4> QED  BY <3>1, <4>1 DEF Fits, TimerIs, Waited, Rested, Probed, Announces, Obtains
    <3> QED  BY <1>2, <1>3, <2>1, <3>1, <3>2 DEF TimerIs, Quiet
  <2>3. CASE k \notin link
    BY <1>2, <1>4, <2>1, <2>3 DEF Quiet
  <2> QED  BY <2>2, <2>3
<1>6. ASSUME NEW k \in Node, Input(k)  PROVE Quiet
  <2>1. lost' = lost /\ scenario' = scenario
    BY <1>6 DEF Input, budget
  <2>2. PICK frame, r : InputIs(k, frame, r)
    BY <1>6, InputEffect
  <2>3. Fits(r) => Fits(node[k])
    <3>1. node[k].timers \in Nat
      BY <1>1
    <3> QED  BY <2>2, <3>1 DEF Fits, InputIs, Unmoved, Defended, GivenUp, Claims
  <2> QED  BY <1>2, <1>3, <2>1, <2>2, <2>3 DEF InputIs, Quiet
<1>7. ASSUME NEW k \in Node, NEW ipaddr \in Ip, Start(k, ipaddr), queue' = queue, scenario' = scenario, lost' = lost
      PROVE  Quiet
  <2>1. PICK r : StartIs(k, ipaddr, r) /\ Moves(k, r)
    BY <1>7, StartMoves
  <2>2. Fits(r) => Fits(node[k])
    <3>1. node[k].timers \in Nat /\ AcdOk(node[k])
      BY <1>1
    <3> QED  BY <2>1, <3>1 DEF Fits, StartIs, AcdOk
  <2> QED  BY <1>2, <1>3, <1>7, <2>1, <2>2 DEF Moves, Quiet
<1>8. ASSUME NEW k \in Node, Set(k)  PROVE Quiet
  <2>1. scenario.own[k] \in Ip
    BY <1>1, ConflictAssumption
  <2> QED  BY <1>7, <1>8, <2>1 DEF Set
<1>9. ASSUME NEW k \in Node, NEW ipaddr \in Ip, SetPrimaryIp(k, ipaddr)  PROVE Quiet
  BY <1>7, <1>9 DEF SetPrimaryIp
<1>10. ASSUME NEW k \in Node, Lose(k)  PROVE Quiet
  <2>1. lost' = lost + 1
    BY <1>10 DEF Lose
  <2> QED  BY <1>1, <1>2, <2>1
<1>11. ASSUME NEW k \in Node, SetLinkDown(k)  PROVE Quiet
  <2>1. flapped < scenario.flaps /\ scenario' = scenario
    BY <1>11 DEF SetLinkDown
  <2> QED  BY <1>2, <2>1 DEF Types
<1>12. ASSUME NEW k \in Node, SetLinkUp(k)  PROVE Quiet
  BY <1>2, <1>4, <1>12 DEF SetLinkUp, budget, Quiet
<1>13. ASSUME Tick  PROVE Quiet
  BY <1>2, <1>4, <1>13 DEF Tick, budget, Quiet
<1>14. CASE UNCHANGED vars
  BY <1>2, <1>4, <1>14 DEF vars, budget, Quiet
<1> QED  BY <1>5, <1>6, <1>8, <1>9, <1>10, <1>11, <1>12, <1>13, <1>14 DEF Next

\* The timer of a node that does something.
LEMMA FireIs ==
    ASSUME Types, Quiet, NEW k \in Node
    PROVE  /\ node[k].ttw \in Nat /\ due[k] \in Nat
           /\ node[k].state # "Off" => /\ node[k].timers = 1 /\ due[k] \in {0, 1}
                                       /\ AtLeast1(node[k].ttw) \in Nat /\ AtLeast1(node[k].ttw) >= 1
                                       /\ Fire(k) \in Nat /\ Fire(k) = AtLeast1(node[k].ttw) - due[k]
           /\ node[k].state = "Off" => node[k].timers = 0 /\ due[k] = 0
<1>1. /\ node[k] \in Acd /\ due[k] \in Nat /\ due[k] <= node[k].timers
      /\ node[k].timers = IF node[k].state = "Off" THEN 0 ELSE 1
  BY DEF Types, Quiet, Settled
<1>2. node[k].ttw \in Nat
  BY <1>1, NodeFields
<1>3. AtLeast1(node[k].ttw) \in Nat /\ AtLeast1(node[k].ttw) >= 1
  BY <1>2 DEF AtLeast1
<1>4. node[k].state # "Off" => Fire(k) \in Nat
  BY <1>1, <1>3 DEF Fire
<1> QED  BY <1>1, <1>2, <1>3, <1>4 DEF Fire
-----------------------------------------------------------------------------
(* Two nodes.                                                              *)
\* What a step leaves as it was, of a node that claims an address.
Kept(i) ==
    /\ node'[i].ip = node[i].ip
    /\ node'[i].state \in Claims =>
          /\ node'[i].state = node[i].state /\ node'[i].ipaddr = node[i].ipaddr
          /\ Fire(i)' = Fire(i) /\ due'[i] <= due[i]

\* A node forgets what it was told when it has told the other.
StillTold(m, n) ==
    \A a \in Ip : Told(m, a) /\ node'[m].state \in Claims /\ node'[m].ipaddr = a =>
                     Told(m, a)' \/ (node'[m].state = "Announcing" /\ Told(n, a)')
StillAsked(m, n) ==
    \A a \in Ip : node[n].ip = a /\ Asked(n, m, a) => Asked(n, m, a)' \/ Told(m, a)'

LEMMA PairKept ==
    ASSUME NEW m \in Node, NEW n \in Node, Pair(m, n), Kept(m), Kept(n), due \in [Node -> Nat], due' \in [Node -> Nat],
           StillTold(m, n), StillTold(n, m), StillAsked(m, n)
    PROVE  Pair(m, n)'
<1>1. due[m] \in Nat /\ due[n] \in Nat /\ due'[m] \in Nat /\ due'[n] \in Nat
  OBVIOUS
<1>2. ASSUME NEW a \in Ip  PROVE NotTaken(m, n, a)'
  <2>1. NotTaken(m, n, a)
    BY DEF Pair
  <2>2. node'[n].ip = node[n].ip
    BY DEF Kept
  <2>3. ASSUME node'[n].ip = a, node'[m].state = "AnnounceWait", node'[m].ipaddr = a
        PROVE  (Told(m, a)' \/ Asked(n, m, a)') /\ Fire(m)' >= 1
    <3>1. node[m].state = "AnnounceWait" /\ node[m].ipaddr = a /\ Fire(m)' = Fire(m)
      BY <2>3 DEF Kept, Claims
    <3>2. (Told(m, a) \/ Asked(n, m, a)) /\ Fire(m) >= 1
      BY <2>1, <2>2, <2>3, <3>1 DEF NotTaken, Is
    <3> QED  BY <2>2, <2>3, <3>1, <3>2 DEF StillTold, StillAsked, Claims
  <2>4. ASSUME node'[n].ip = a, node'[m].state = "Announcing", node'[m].ipaddr = a
        PROVE  FALSE
    BY <2>1, <2>2, <2>4 DEF NotTaken, Is, Kept, Claims
  <2> QED  BY <2>3, <2>4 DEF NotTaken, Is
<1>3. ASSUME NEW a \in Ip  PROVE Announced(m, n, a)'
  <2> SUFFICES ASSUME node'[n].state = "Announcing", node'[n].ipaddr = a, node'[m].state \in Claims, node'[m].ipaddr = a
               PROVE  Announced(m, n, a)'
    BY DEF Announced, Is, Claims
  <2>1. /\ node[n].state = "Announcing" /\ node[n].ipaddr = a /\ Fire(n)' = Fire(n) /\ due'[n] <= due[n]
        /\ node[m].state = node'[m].state /\ node[m].ipaddr = a /\ Fire(m)' = Fire(m) /\ due'[m] <= due[m]
    BY DEF Kept, Claims
  <2>2. Announced(m, n, a)
    BY DEF Pair
  <2>3. CASE node'[m].state \in {"ProbeWait", "Probing"}
    <3>1. Fire(n) < Gap \/ due[m] = 0 \/ (Told(m, a) /\ due[n] = 0)
      BY <2>1, <2>2, <2>3 DEF Announced, Is
    <3>2. Told(m, a) => Told(m, a)'
      BY <2>3 DEF StillTold
    <3>3. Gap' = Gap
      BY DEF Gap, AtLeast1
    <3>4. Fire(n)' < Gap' \/ due'[m] = 0 \/ (Told(m, a)' /\ due'[n] = 0)
      BY <1>1, <2>1, <3>1, <3>2, <3>3
    <3> QED  BY <2>3, <3>4 DEF Announced, Is
  <2>4. CASE node'[m].state = "AnnounceWait"
    <3>1. Fire(n) < Fire(m) \/ (Told(m, a) /\ due[n] = 0)
      BY <2>1, <2>2, <2>4 DEF Announced, Is
    <3>2. Told(m, a) => Told(m, a)'
      BY <2>4 DEF StillTold
    <3>4. Fire(n)' < Fire(m)' \/ (Told(m, a)' /\ due'[n] = 0)
      BY <1>1, <2>1, <3>1, <3>2
    <3> QED  BY <2>4, <3>4 DEF Announced, Is
  <2>5. CASE node'[m].state = "Announcing"
    <3>1. due[m] = 0 /\ due[n] = 0 /\ (Told(m, a) \/ Told(n, a))
      BY <2>1, <2>2, <2>5 DEF Announced, Is
    <3>2. Told(m, a)' \/ Told(n, a)'
      BY <3>1 DEF StillTold, Claims
    <3>3. due'[m] = 0 /\ due'[n] = 0
      BY <1>1, <2>1, <3>1
    <3> QED  BY <2>5, <3>2, <3>3 DEF Announced, Is
  <2> QED  BY <2>3, <2>4, <2>5 DEF Claims
<1>4. ~SharedBy(m, n)'
  BY DEF Pair, SharedBy, Kept
<1> QED  BY <1>2, <1>3, <1>4 DEF Pair

\* A node that has not started yet is of no concern.
LEMMA PairAbsent ==
    ASSUME NEW m \in Node, NEW n \in Node, m # n,
           \/ node'[m].state = "Off" /\ node'[m].ip = None
           \/ node'[n].state = "Off" /\ node'[n].ip = None
    PROVE  Pair(m, n)'
<1>1. None \notin Ip
  BY Numbers
<1>2. ~SharedBy(m, n)'
  BY DEF SharedBy
<1>3. ASSUME NEW a \in Ip  PROVE NotTaken(m, n, a)' /\ Announced(m, n, a)'
  <2>1. NotTaken(m, n, a)'
    BY <1>1 DEF NotTaken, Is
  <2>2. Announced(m, n, a)'
    BY DEF Announced, Is
  <2> QED  BY <2>1, <2>2
<1> QED  BY <1>2, <1>3 DEF Pair

\* The announcements follow each other no later than the first follows the probes.
Spaced == kAnnounceNum >= 2 /\ kAnnounceInterval <= kAnnounceWait

LEMMA SpacedIs ==
    ASSUME Spaced
    PROVE  /\ Gap \in Nat /\ Gap >= 1 /\ Gap <= AtLeast1(kAnnounceWait * kAcdTicksPerSecond)
           /\ AtLeast1(kAnnounceWait * kAcdTicksPerSecond) \in Nat
           /\ \A i \in Nat : i <= kAnnounceInterval * kAcdTicksPerSecond => AtLeast1(i) <= Gap
<1> DEFINE i == kAnnounceInterval * kAcdTicksPerSecond
           w == kAnnounceWait * kAcdTicksPerSecond
<1>1. i \in Nat /\ w \in Nat
  BY Numbers
<1>2. i <= w
  <2>1. \A x, y, z \in Nat : x <= y => x * z <= y * z
    <3> TAKE x, y, z \in Nat
    <3> HAVE x <= y
    <3>1. PICK e \in Nat : y = x + e
      <4>1. y - x \in Nat /\ y = x + (y - x)
        OBVIOUS
      <4> QED  BY <4>1
    <3>2. y * z = x * z + e * z
      BY <3>1
    <3>3. x * z \in Nat /\ e * z \in Nat
      OBVIOUS
    <3> QED  BY <3>2, <3>3
  <2> QED  BY <2>1, Numbers DEF Spaced
<1> HIDE DEF i, w
<1>3. Gap = AtLeast1(i)
  BY DEF Gap, i
<1>4. /\ AtLeast1(i) \in Nat /\ AtLeast1(w) \in Nat /\ AtLeast1(i) >= 1 /\ AtLeast1(i) <= AtLeast1(w)
      /\ \A j \in Nat : j <= i => AtLeast1(j) <= AtLeast1(i)
  BY <1>1, <1>2 DEF AtLeast1
<1> QED  BY <1>3, <1>4 DEF i, w

\* What the steps of node k leave of the others.
Beside(k) ==
    \A j \in Node \ {k} : node'[j] = node[j] /\ due'[j] = due[j] /\ Includes(queue'[j], queue[j])

LEMMA BesideIs ==
    ASSUME Types, NEW k \in Node, Beside(k), NEW j \in Node \ {k}
    PROVE  /\ Kept(j) /\ Fire(j)' = Fire(j)
           /\ node'[j] = node[j] /\ due'[j] = due[j]
           /\ \A a : Told(j, a) => Told(j, a)'
           /\ \A i, a : Asked(j, i, a) => Asked(j, i, a)'
<1>1. node'[j] = node[j] /\ due'[j] = due[j] /\ Includes(queue'[j], queue[j])
  BY DEF Beside
<1>2. Fire(j)' = Fire(j)
  BY <1>1 DEF Fire, AtLeast1
<1>3. \A a : Told(j, a)' <=> ToldIn(queue'[j], a)
  BY DEF Told, ToldIn
<1>4. \A i, a : Asked(j, i, a)' <=> AskedIn(queue'[j], i, a)
  BY DEF Asked, AskedIn, Probe
<1>5. (\A a : Told(j, a) => Told(j, a)') /\ \A i, a : Asked(j, i, a) => Asked(j, i, a)'
  BY <1>1, <1>3, <1>4 DEF Includes, Told, Asked
<1>6. due[j] <= due[j]
  BY DEF Types
<1>7. Kept(j)
  BY <1>1, <1>2, <1>6 DEF Kept
<1> QED  BY <1>1, <1>2, <1>5, <1>7

LEMMA ConflictsBeside ==
    ASSUME Types, Types', Conflicts, NEW k \in Node, Beside(k),
           \A j \in Node \ {k} : Pair(k, j)' /\ Pair(j, k)'
    PROVE  Conflicts'
<1>1. due \in [Node -> Nat] /\ due' \in [Node -> Nat]
  BY DEF Types
<1>2. ASSUME NEW m \in Node \ {k}, NEW n \in Node \ {k}, m # n  PROVE Pair(m, n)'
  <2>1. Pair(m, n)
    BY <1>2 DEF Conflicts
  <2>2. /\ Kept(m) /\ (\A a : Told(m, a) => Told(m, a)')
        /\ Kept(n) /\ (\A a : Told(n, a) => Told(n, a)')
    BY BesideIs
  <2>3. \A i, a : Asked(n, i, a) => Asked(n, i, a)'
    BY BesideIs
  <2>4. StillTold(m, n) /\ StillTold(n, m) /\ StillAsked(m, n)
    BY <2>2, <2>3 DEF StillTold, StillAsked
  <2> QED  BY <1>1, <2>1, <2>2, <2>4, PairKept
<1>3. \A m, n \in Node : m # n => Pair(m, n)'
  <2> TAKE m, n \in Node
  <2> HAVE m # n
  <2>1. CASE m = k
    BY <2>1
  <2>2. CASE n = k
    BY <2>2
  <2>3. CASE m # k /\ n # k
    BY <1>2, <2>3
  <2> QED  BY <2>1, <2>2, <2>3
<1> QED  BY <1>3 DEF Conflicts

\* Steps after which node k claims what it claimed, or nothing.
LEMMA ConflictsKept ==
    ASSUME Types, Types', Conflicts, NEW k \in Node, Beside(k), Kept(k),
           \A j \in Node \ {k} : (node[j].state # "Off" \/ node[j].ip # None) =>
              StillTold(k, j) /\ StillAsked(k, j) /\ StillAsked(j, k)
    PROVE  Conflicts'
<1>1. due \in [Node -> Nat] /\ due' \in [Node -> Nat]
  BY DEF Types
<1>2. ASSUME NEW j \in Node \ {k}  PROVE Pair(k, j)' /\ Pair(j, k)'
  <2>1. Pair(k, j) /\ Pair(j, k) /\ k # j
    BY DEF Conflicts
  <2>2. Kept(j) /\ node'[j] = node[j] /\ (\A a : Told(j, a) => Told(j, a)')
    BY BesideIs
  <2>3. StillTold(j, k)
    BY <2>2 DEF StillTold
  <2>4. CASE node[j].state = "Off" /\ node[j].ip = None
    BY <2>1, <2>2, <2>4, PairAbsent
  <2>5. CASE node[j].state # "Off" \/ node[j].ip # None
    <3>1. StillTold(k, j) /\ StillAsked(k, j) /\ StillAsked(j, k)
      BY <2>5
    <3> QED  BY <1>1, <2>1, <2>2, <2>3, <3>1, PairKept
  <2> QED  BY <2>4, <2>5
<1> QED  BY <1>2, ConflictsBeside
-----------------------------------------------------------------------------
(* The steps.                                                              *)
\* Under Quiet, a node that is not on the network has nothing and wants nothing.
LEMMA Present ==
    ASSUME Types, Linked, Quiet
    PROVE  /\ \A j \in Node : node[j].state # "Off" \/ node[j].ip # None => j \in link
           /\ \A j \in Node : due[j] > 0 => j \in link
<1>1. link = started
  BY DEF Linked, Quiet
<1>2. \A j \in Node \ started : node[j].timers = 0 /\ node[j].ip = None /\ node[j].state = "Off" /\ due[j] = 0
  <2> TAKE j \in Node \ started
  <2>1. node[j].timers = 0 /\ node[j].ip = None
    BY DEF Linked
  <2>2. AcdOk(node[j]) /\ due[j] \in Nat /\ due[j] <= node[j].timers
    BY DEF Types
  <2>3. node[j].state = "Off"
    BY <2>1, <2>2 DEF AcdOk
  <2> QED  BY <2>1, <2>2, <2>3
<1> QED  BY <1>1, <1>2

LEMMA TimerConflicts ==
    ASSUME Types, Types', Linked, Quiet, Conflicts, Spaced, NEW k \in Node, Timer(k)
    PROVE  Conflicts'
<1>1. due[k] > 0 /\ k \in link
  BY Present DEF Timer
<1> DEFINE r == node'[k]
<1>2. /\ Moves(k, r) /\ TimerIs(k, r) /\ due' = [due EXCEPT ![k] = Least(due[k] - 1, r.timers)]
      /\ link' = link /\ budget' = budget
  BY <1>1, TimerMoves
<1> HIDE DEF r
<1>3. /\ node[k].timers = 1 /\ due[k] = 1 /\ AtLeast1(node[k].ttw) \in Nat /\ AtLeast1(node[k].ttw) >= 1
      /\ node[k].ttw \in Nat /\ Fire(k) = AtLeast1(node[k].ttw) - 1
  <2>1. node[k].state # "Off"
    BY <1>1, FireIs
  <2> QED  BY <1>1, <2>1, FireIs
<1>4. r.timers \in Nat
  BY <1>2, NodeFields DEF Moves, AcdOk
<1>5. due'[k] = 0
  <2>1. Least(due[k] - 1, r.timers) = 0
    BY <1>3, <1>4 DEF Least
  <2> QED  BY <1>2, <2>1 DEF Types
<1>6. queue \in [Node -> Seq(Arp)] /\ node[k].ipaddr \in AnyIp
  BY NodeFields DEF Types
<1>7. Waited(k, r) \/ Rested(k, r) \/ Probed(k, r) \/ Announces(k, r) \/ Obtains(k, r)
  BY <1>2 DEF TimerIs
<1>8. /\ \A j \in Node : Includes(queue'[j], queue[j])
      /\ Sends(k, node[k].ipaddr) => \A j \in link \ {k} : ToldIn(queue'[j], node[k].ipaddr)
      /\ Sends(k, None) => \A j \in link \ {k} : AskedIn(queue'[j], k, node[k].ipaddr)
  <2>1. CASE queue' = queue
    <3>1. \A j \in Node : Includes(queue'[j], queue[j])
      BY <2>1 DEF Includes
    <3> QED  BY <1>1, <1>6, <3>1, SendsEffect, Numbers
  <2>2. CASE Sends(k, None) \/ Sends(k, node[k].ipaddr)
    BY <1>1, <1>6, <2>2, SendsEffect, Numbers
  <2> QED  BY <1>7, <2>1, <2>2 DEF Waited, Rested, Probed, Announces, Obtains
<1>9. node'[k] = r /\ \A j \in Node \ {k} : node'[j] = node[j] /\ due'[j] = due[j]
  BY <1>2 DEF Moves, Types, r
<1>10. Beside(k)
  BY <1>8, <1>9 DEF Beside
<1>11. /\ \A j \in Node : \A a : Told(j, a)' <=> ToldIn(queue'[j], a)
       /\ \A j \in Node : \A i, a : Asked(j, i, a)' <=> AskedIn(queue'[j], i, a)
  BY DEF Told, ToldIn, Asked, AskedIn, Probe
<1>12. /\ \A j \in Node : \A a : Told(j, a) => Told(j, a)'
       /\ \A j \in Node : \A i, a : Asked(j, i, a) => Asked(j, i, a)'
  BY <1>8, <1>11 DEF Includes, Told, Asked
<1>13. r.ttw \in Nat /\ Fire(k)' = AtLeast1(r.ttw)
  <2>1. r.ttw \in Nat
    BY <1>2, NodeFields DEF Moves, AcdOk
  <2>2. AtLeast1(r.ttw) \in Nat
    BY <2>1 DEF AtLeast1
  <2>3. Fire(k)' = AtLeast1(r.ttw) - due'[k]
    BY <1>9 DEF Fire, AtLeast1
  <2> QED  BY <1>5, <2>1, <2>2, <2>3
<1>14. \A j \in Node \ {k} : StillTold(k, j) /\ StillAsked(k, j) /\ StillAsked(j, k)
  BY <1>12 DEF StillTold, StillAsked
<1>15. CASE Waited(k, r) \/ Rested(k, r)
  <2>1. ASSUME Waited(k, r)  PROVE Kept(k)
    <3>1. node[k].state \in Claims => node[k].ttw >= 2 /\ r.ttw = node[k].ttw - 1
      BY <2>1 DEF Waited
    <3>2. node[k].state \in Claims => AtLeast1(node[k].ttw) = node[k].ttw /\ AtLeast1(r.ttw) = node[k].ttw - 1
      BY <1>3, <1>13, <3>1 DEF AtLeast1
    <3>3. node[k].state \in Claims => Fire(k)' = Fire(k)
      BY <1>3, <1>13, <3>1, <3>2
    <3>4. due'[k] <= due[k]
      BY <1>3, <1>5
    <3> QED  BY <1>9, <2>1, <3>3, <3>4 DEF Waited, Kept
  <2>2. ASSUME Rested(k, r)  PROVE Kept(k)
    BY <1>9, <2>2 DEF Rested, Kept, Claims
  <2>3. Kept(k)
    BY <1>15, <2>1, <2>2
  <2> QED  BY <1>10, <1>14, <2>3, ConflictsKept
<1>16. CASE Probed(k, r) \/ Announces(k, r) \/ Obtains(k, r)
  <2>1. ASSUME NEW j \in Node \ {k}, j \notin link  PROVE Pair(k, j)' /\ Pair(j, k)'
    <3>1. node'[j].state = "Off" /\ node'[j].ip = None
      BY <1>9, <2>1, Present
    <3> QED  BY <3>1, PairAbsent
  <2>2. ASSUME NEW j \in Node \ {k}, j \in link  PROVE Pair(k, j)' /\ Pair(j, k)'
    <3>1. Pair(k, j) /\ Pair(j, k) /\ j \in Node /\ j # k
      BY <2>2 DEF Conflicts
    <3>2. node'[j] = node[j] /\ due'[j] = due[j] /\ Fire(j)' = Fire(j)
      BY <1>10, BesideIs
    <3>3. /\ \A a : Told(j, a) => Told(j, a)'
          /\ \A a : Told(k, a) => Told(k, a)'
          /\ \A a : Asked(k, j, a) => Asked(k, j, a)'
          /\ \A a : Asked(j, k, a) => Asked(j, k, a)'
      BY <1>12, <3>1
    <3>4. node[j].state # "Off" => Fire(j) \in Nat /\ due[j] \in {0, 1}
      BY <3>1, FireIs
    <3>10. node[k].ipaddr \in Ip
      <4>1. AcdOk(node[k])
        BY DEF Types
      <4> QED  BY <1>16, <4>1 DEF AcdOk, Probed, Announces, Obtains
    <3>5. PICK a0 \in Ip : a0 = node[k].ipaddr
      BY <3>10
    <3>6. node'[k] = r
      BY <1>9
    <3>7. CASE Probed(k, r)
      <4>1. /\ node[k].state \in {"ProbeWait", "Probing"} /\ r.ipaddr = a0 /\ r.ip = node[k].ip
            /\ r.state = "Probing" \/ (r.state = "AnnounceWait" /\ r.ttw = kAnnounceWait * kAcdTicksPerSecond)
        BY <3>5, <3>7 DEF Probed
      <4>2. AskedIn(queue'[j], k, a0)
        BY <1>8, <2>2, <3>5, <3>7 DEF Probed
      <4>3. Asked(j, k, a0)'
        BY <1>11, <3>1, <4>2
      <4>4. r.state = "AnnounceWait" => Fire(k)' >= 1 /\ Fire(k)' >= Gap /\ Fire(k)' \in Nat
        BY <1>13, <4>1, SpacedIs
      <4>5. ASSUME NEW a \in Ip  PROVE NotTaken(k, j, a)' /\ NotTaken(j, k, a)'
        <5>1. NotTaken(k, j, a)'
          BY <3>6, <4>1, <4>3, <4>4 DEF NotTaken, Is
        <5>2. NotTaken(j, k, a)
          BY <3>1 DEF Pair
        <5> QED  BY <3>2, <3>3, <3>6, <4>1, <5>1, <5>2 DEF NotTaken, Is
      <4>6. ASSUME NEW a \in Ip  PROVE Announced(k, j, a)' /\ Announced(j, k, a)'
        <5>1. Announced(j, k, a)'
          BY <3>6, <4>1 DEF Announced, Is
        <5> SUFFICES ASSUME node[j].state = "Announcing", node[j].ipaddr = a, a = a0
                     PROVE  Announced(k, j, a)'
          BY <3>2, <3>6, <4>1, <5>1 DEF Announced, Is
        <5>2. Fire(j) < Gap \/ (Told(k, a) /\ due[j] = 0)
          <6>1. Announced(k, j, a)
            BY <3>1 DEF Pair
          <6> QED  BY <1>3, <3>5, <4>1, <6>1 DEF Announced, Is
        <5>3. CASE r.state = "Probing"
          BY <1>5, <3>6, <5>3 DEF Announced, Is
        <5>4. CASE r.state = "AnnounceWait"
          <6>1. Fire(j)' < Fire(k)' \/ (Told(k, a)' /\ due'[j] = 0)
            <7>1. Gap \in Nat
              BY SpacedIs
            <7> QED  BY <3>2, <3>3, <3>4, <4>4, <5>2, <5>4, <7>1
          <6> QED  BY <3>6, <5>4, <6>1 DEF Announced, Is
        <5> QED  BY <4>1, <5>3, <5>4
      <4>7. ~SharedBy(k, j)' /\ ~SharedBy(j, k)'
        BY <3>1, <3>2, <3>6, <4>1 DEF Pair, SharedBy
      <4> QED  BY <4>5, <4>6, <4>7 DEF Pair
    <3>8. CASE Announces(k, r)
      <4>1. /\ node[k].state \in {"AnnounceWait", "Announcing"} /\ r.ipaddr = a0 /\ r.ip = node[k].ip
            /\ r.state = "Announcing" /\ node[k].ttw <= 1
        BY <3>5, <3>8 DEF Announces
      <4>2. ToldIn(queue'[j], a0)
        BY <1>8, <2>2, <3>5, <3>8 DEF Announces
      <4>3. Told(j, a0)'
        BY <1>11, <3>1, <4>2
      <4>4. Fire(k) = 0
        BY <1>3, <4>1 DEF AtLeast1
      <4>5. NotTaken(k, j, a0) /\ Announced(k, j, a0)
        BY <3>1, <3>5 DEF Pair
      <4>6. node[j].ip # a0
        BY <3>5, <4>1, <4>4, <4>5 DEF NotTaken, Is
      <4>7. Is(j, {"Announcing"}, a0) => due[j] = 0
        <5> SUFFICES ASSUME Is(j, {"Announcing"}, a0)  PROVE due[j] = 0
          OBVIOUS
        <5>1. node[j].state # "Off"
          BY DEF Is
        <5>2. CASE node[k].state = "AnnounceWait"
          <6>1. Fire(j) < Fire(k) \/ due[j] = 0
            BY <3>5, <4>5, <5>2 DEF Announced, Is
          <6> QED  BY <3>4, <4>4, <5>1, <6>1
        <5>3. CASE node[k].state = "Announcing"
          BY <1>3, <3>5, <4>5, <5>3 DEF Announced, Is
        <5> QED  BY <4>1, <5>2, <5>3
      <4>8. ASSUME NEW a \in Ip  PROVE NotTaken(k, j, a)' /\ NotTaken(j, k, a)'
        <5>1. NotTaken(k, j, a)'
          BY <3>2, <3>6, <4>1, <4>6 DEF NotTaken, Is
        <5>2. NotTaken(j, k, a)
          BY <3>1 DEF Pair
        <5> QED  BY <3>2, <3>3, <3>6, <4>1, <5>1, <5>2 DEF NotTaken, Is
      <4>9. ASSUME NEW a \in Ip  PROVE Announced(k, j, a)' /\ Announced(j, k, a)'
        <5>1. Announced(k, j, a)'
          BY <1>5, <3>2, <3>6, <4>1, <4>3, <4>7 DEF Announced, Is
        <5>2. Announced(j, k, a)'
          BY <1>5, <3>2, <3>6, <4>1, <4>3, <4>7 DEF Announced, Is
        <5> QED  BY <5>1, <5>2
      <4>10. ~SharedBy(k, j)' /\ ~SharedBy(j, k)'
        BY <3>1, <3>2, <3>6, <4>1 DEF Pair, SharedBy
      <4> QED  BY <4>8, <4>9, <4>10 DEF Pair
    <3>9. CASE Obtains(k, r)
      <4>1. node[k].state = "Announcing" /\ r.ip = a0 /\ r.state = "Off" /\ node[k].ttw <= 1
        BY <3>5, <3>9, Numbers DEF Obtains, Spaced
      <4>2. ToldIn(queue'[j], a0)
        BY <1>8, <2>2, <3>5, <3>9 DEF Obtains
      <4>3. Told(j, a0)'
        BY <1>11, <3>1, <4>2
      <4>4. Fire(k) = 0
        BY <1>3, <4>1 DEF AtLeast1
      <4>5. NotTaken(k, j, a0) /\ Announced(k, j, a0) /\ Announced(j, k, a0)
        BY <3>1, <3>5 DEF Pair
      <4>6. node[j].ip # a0
        BY <3>5, <4>1, <4>5 DEF NotTaken, Is
      <4>7. Is(j, {"AnnounceWait"}, a0) => Fire(j) >= 1
        <5> SUFFICES ASSUME Is(j, {"AnnounceWait"}, a0)  PROVE Fire(j) >= 1
          OBVIOUS
        <5>1. node[j].state # "Off"
          BY DEF Is
        <5>2. Fire(k) < Fire(j)
          BY <1>3, <3>5, <4>1, <4>5 DEF Announced, Is
        <5> QED  BY <3>4, <4>4, <5>1, <5>2
      <4>8. ~Is(j, {"Announcing"}, a0)
        BY <1>3, <3>5, <4>1, <4>5 DEF Announced, Is
      <4>9. ASSUME NEW a \in Ip  PROVE NotTaken(k, j, a)' /\ NotTaken(j, k, a)'
        <5>1. NotTaken(k, j, a)'
          BY <3>6, <4>1 DEF NotTaken, Is
        <5>2. NotTaken(j, k, a)'
          BY <3>2, <3>6, <4>1, <4>3, <4>7, <4>8 DEF NotTaken, Is
        <5> QED  BY <5>1, <5>2
      <4>10. ASSUME NEW a \in Ip  PROVE Announced(k, j, a)' /\ Announced(j, k, a)'
        BY <3>6, <4>1 DEF Announced, Is
      <4>11. ~SharedBy(k, j)' /\ ~SharedBy(j, k)'
        BY <3>2, <3>6, <4>1, <4>6 DEF SharedBy
      <4> QED  BY <4>9, <4>10, <4>11 DEF Pair
    <3> QED  BY <1>16, <3>7, <3>8, <3>9
  <2> QED  BY <1>10, <2>1, <2>2, ConflictsBeside
<1> QED  BY <1>7, <1>15, <1>16

LEMMA InputConflicts ==
    ASSUME Types, Types', Linked, Quiet, Conflicts, NEW k \in Node, Input(k)
    PROVE  Conflicts'
<1>1. PICK frame, r : InputIs(k, frame, r) /\ Moves(k, r)
  BY InputMoves
<1>2. node'[k] = r /\ \A j \in Node \ {k} : node'[j] = node[j] /\ due'[j] = due[j]
  BY <1>1 DEF Moves, Types
<1>3. Beside(k)
  BY <1>1, <1>2 DEF Beside, InputIs
<1>4. Unmoved(k, frame, r) \/ Defended(k, frame, r) \/ GivenUp(k, frame, r)
  BY <1>1 DEF InputIs
<1>5. Kept(k)
  <2>1. due[k] \in Nat /\ node[k].timers \in Nat /\ due[k] <= node[k].timers /\ r.timers \in Nat
    BY <1>1, NodeFields DEF Types, Moves, AcdOk
  <2>2. due'[k] = Least(due[k], r.timers)
    BY <1>1 DEF InputIs, Types
  <2>3. ASSUME r.state = node[k].state, r.ipaddr = node[k].ipaddr, r.ip = node[k].ip, r.ttw = node[k].ttw,
               r.timers = node[k].timers
        PROVE  Kept(k)
    <3>1. due'[k] = due[k]
      BY <2>1, <2>2, <2>3, LeastIs
    <3>2. Fire(k)' = Fire(k)
      BY <1>2, <2>3, <3>1 DEF Fire, AtLeast1
    <3> QED  BY <1>2, <2>1, <2>3, <3>1, <3>2 DEF Kept
  <2>4. CASE Unmoved(k, frame, r) \/ Defended(k, frame, r)
    BY <2>3, <2>4 DEF Unmoved, Defended
  <2>5. CASE GivenUp(k, frame, r)
    BY <1>2, <2>5 DEF GivenUp, Kept, Claims
  <2> QED  BY <1>4, <2>4, <2>5
<1>6. /\ \A j \in Node : \A a : Told(j, a)' <=> ToldIn(queue'[j], a)
      /\ \A j \in Node : \A i, a : Asked(j, i, a)' <=> AskedIn(queue'[j], i, a)
  BY DEF Told, ToldIn, Asked, AskedIn, Probe
<1>7. ASSUME NEW j \in Node \ {k}, j \in link  PROVE StillTold(k, j) /\ StillAsked(k, j) /\ StillAsked(j, k)
  <2>1. StillAsked(k, j)
    <3>1. \A i, a : Asked(j, i, a) => Asked(j, i, a)'
      BY <1>3, BesideIs
    <3> QED  BY <3>1 DEF StillAsked
  <2>2. StillAsked(j, k)
    <3> SUFFICES ASSUME NEW a \in Ip, node[k].ip = a, Asked(k, j, a)  PROVE Asked(k, j, a)' \/ Told(j, a)'
      BY DEF StillAsked
    <3>1. a # None /\ k \in link
      BY Numbers, Present
    <3>2. frame = Probe(j, a) \/ AskedIn(queue'[k], j, a)
      BY <1>1 DEF InputIs, Asked
    <3>3. frame = Probe(j, a) => ToldIn(queue'[j], a)
      BY <1>1, <1>7, <3>1 DEF InputIs
    <3> QED  BY <1>6, <3>2, <3>3
  <2>3. StillTold(k, j)
    <3> SUFFICES ASSUME NEW a \in Ip, Told(k, a), r.state \in Claims, r.ipaddr = a
                 PROVE  Told(k, a)' \/ (r.state = "Announcing" /\ Told(j, a)')
      BY <1>2 DEF StillTold
    <3>1. frame.sender_ip = a \/ ToldIn(queue'[k], a)
      BY <1>1 DEF InputIs, Told
    <3>2. CASE frame.sender_ip = a
      <4>1. Defended(k, frame, r)
        BY <1>4, <3>2 DEF Unmoved, GivenUp, Claims
      <4>2. node[k].ipaddr = a /\ r.state = "Announcing" /\ Defends(k, frame) /\ node[k].state = "Announcing"
        BY <4>1 DEF Defended
      <4>3. k \in link
        BY <4>2, Present
      <4>4. ToldIn(queue'[j], a)
        BY <1>1, <1>7, <4>2, <4>3 DEF InputIs
      <4> QED  BY <1>6, <4>2, <4>4
    <3>3. CASE ToldIn(queue'[k], a)
      BY <1>6, <3>3
    <3> QED  BY <3>1, <3>2, <3>3
  <2> QED  BY <2>1, <2>2, <2>3
<1>8. \A j \in Node \ {k} : (node[j].state # "Off" \/ node[j].ip # None) =>
         StillTold(k, j) /\ StillAsked(k, j) /\ StillAsked(j, k)
  BY <1>7, Present
<1> QED  BY <1>3, <1>5, <1>8, ConflictsKept

LEMMA StartConflicts ==
    ASSUME Types, Types', Linked, Quiet, Quiet', Conflicts, NEW k \in Node, NEW ipaddr \in Ip, NEW r,
           StartIs(k, ipaddr, r), Moves(k, r)
    PROVE  Conflicts'
<1>1. node'[k] = r /\ \A j \in Node \ {k} : node'[j] = node[j]
  BY DEF Moves, Types
<1>2. /\ due' = due /\ queue' = queue /\ r.ip = node[k].ip /\ r.state = "ProbeWait" /\ r.timers = node[k].timers + 1
      /\ r.ipaddr = ipaddr
  BY DEF StartIs
<1>3. Beside(k)
  BY <1>1, <1>2 DEF Beside, Includes
<1>4. due[k] = 0
  <2>1. r.timers = 1
    BY <1>1, <1>2 DEF Quiet, Settled
  <2>2. due[k] \in Nat /\ due[k] <= node[k].timers /\ node[k].timers \in Nat
    BY NodeFields DEF Types
  <2> QED  BY <1>2, <2>1, <2>2
<1>5. ASSUME NEW j \in Node \ {k}  PROVE Pair(k, j)' /\ Pair(j, k)'
  <2>1. Pair(k, j) /\ Pair(j, k) /\ j # k
    BY DEF Conflicts
  <2>2. node'[j] = node[j] /\ due' = due /\ queue' = queue /\ Fire(j)' = Fire(j)
    BY <1>1, <1>2, <1>3, BesideIs
  <2>3. ASSUME NEW a \in Ip  PROVE NotTaken(k, j, a)' /\ NotTaken(j, k, a)'
    <3>1. NotTaken(k, j, a)'
      BY <1>1, <1>2 DEF NotTaken, Is
    <3>2. NotTaken(j, k, a)
      BY <2>1 DEF Pair
    <3>3. (Told(j, a) => Told(j, a)') /\ (Asked(k, j, a) => Asked(k, j, a)')
      BY <2>2 DEF Told, ToldIn, Asked, AskedIn, Probe
    <3> QED  BY <1>1, <1>2, <2>2, <3>1, <3>2, <3>3 DEF NotTaken, Is
  <2>4. ASSUME NEW a \in Ip  PROVE Announced(k, j, a)' /\ Announced(j, k, a)'
    BY <1>1, <1>2, <1>4 DEF Announced, Is
  <2>5. ~SharedBy(k, j)' /\ ~SharedBy(j, k)'
    BY <1>1, <1>2, <2>1, <2>2 DEF Pair, SharedBy
  <2> QED  BY <2>3, <2>4, <2>5 DEF Pair
<1> QED  BY <1>3, <1>5, ConflictsBeside

LEMMA TickConflicts ==
    ASSUME Types, Quiet, Conflicts, Spaced, Tick
    PROVE  Conflicts'
<1>1. /\ \A n \in Node : due[n] = 0 /\ queue[n] = << >>
      /\ due' = [n \in Node |-> node[n].timers] /\ node' = node
  BY DEF Tick
<1>2. \A n \in Node : \A i, a : ~Told(n, a) /\ ~Asked(n, i, a)
  <2> TAKE n \in Node
  <2>1. 1 .. Len(queue[n]) = {}
    BY <1>1
  <2> QED  BY <2>1 DEF Told, ToldIn, Asked, AskedIn
<1>3. ASSUME NEW n \in Node, node[n].state # "Off"
      PROVE  Fire(n) \in Nat /\ Fire(n) >= 1 /\ Fire(n)' = Fire(n) - 1 /\ Fire(n) = AtLeast1(node[n].ttw)
  <2>1. /\ node[n].timers = 1 /\ due[n] = 0 /\ Fire(n) \in Nat
        /\ Fire(n) = AtLeast1(node[n].ttw) - due[n] /\ AtLeast1(node[n].ttw) >= 1 /\ AtLeast1(node[n].ttw) \in Nat
    BY <1>1, <1>3, FireIs
  <2>2. Fire(n)' = AtLeast1(node[n].ttw) - 1
    BY <1>1, <2>1 DEF Fire, AtLeast1
  <2> QED  BY <2>1, <2>2
<1>4. ASSUME NEW m \in Node, NEW n \in Node, m # n  PROVE Pair(m, n)'
  <2>1. Pair(m, n)
    BY <1>4 DEF Conflicts
  <2>2. ASSUME NEW a \in Ip  PROVE NotTaken(m, n, a)'
    <3>1. NotTaken(m, n, a)
      BY <2>1 DEF Pair
    <3>2. node[n].ip = a => ~Is(m, {"AnnounceWait"}, a) /\ ~Is(m, {"Announcing"}, a)
      BY <1>2, <3>1 DEF NotTaken
    <3> QED  BY <1>1, <3>2 DEF NotTaken, Is
  <2>3. ASSUME NEW a \in Ip  PROVE Announced(m, n, a)'
    <3> SUFFICES ASSUME Is(n, {"Announcing"}, a), node[m].state \in Claims, node[m].ipaddr = a
                 PROVE  Announced(m, n, a)'
      BY <1>1 DEF Announced, Is, Claims
    <3>1. Announced(m, n, a)
      BY <2>1 DEF Pair
    <3>2. node[n].state # "Off" /\ node[m].state # "Off" /\ node[n].state = "Announcing"
      BY DEF Is, Claims
    <3>3. /\ Fire(n) \in Nat /\ Fire(n) >= 1 /\ Fire(n)' = Fire(n) - 1 /\ Fire(n) = AtLeast1(node[n].ttw)
          /\ Fire(m) \in Nat /\ Fire(m) >= 1 /\ Fire(m)' = Fire(m) - 1
      BY <1>3, <3>2
    <3>4. CASE node[m].state \in {"ProbeWait", "Probing"}
      <4>1. AcdOk(node[n]) /\ node[n] \in Acd
        BY DEF Types
      <4>2. node[n].ttw \in Nat /\ node[n].ttw <= kAnnounceInterval * kAcdTicksPerSecond
        BY <3>2, <4>1, NodeFields DEF AcdOk
      <4>3. Fire(n) <= Gap /\ Gap \in Nat
        BY <3>3, <4>2, SpacedIs
      <4>4. Gap' = Gap
        BY DEF Gap, AtLeast1
      <4>5. Fire(n)' < Gap'
        BY <3>3, <4>3, <4>4
      <4> QED  BY <1>1, <3>4, <4>5 DEF Announced, Is
    <3>5. CASE node[m].state = "AnnounceWait"
      <4>1. Fire(n) < Fire(m)
        BY <1>2, <3>1, <3>5 DEF Announced, Is
      <4>2. Fire(n)' < Fire(m)'
        BY <3>3, <4>1
      <4> QED  BY <1>1, <3>5, <4>2 DEF Announced, Is
    <3>6. CASE node[m].state = "Announcing"
      BY <1>2, <3>1, <3>6 DEF Announced, Is
    <3> QED  BY <3>4, <3>5, <3>6 DEF Claims
  <2>4. ~SharedBy(m, n)'
    BY <1>1, <2>1 DEF Pair, SharedBy
  <2> QED  BY <2>2, <2>3, <2>4 DEF Pair
<1> QED  BY <1>4 DEF Conflicts

LEMMA ConflictsStep ==
    ASSUME Types, Types', Linked, Quiet, Quiet', Conflicts, Spaced, [Next]_vars
    PROVE  Conflicts'
<1>1. ASSUME NEW k \in Node, NEW ipaddr \in Ip, Start(k, ipaddr), queue' = queue, scenario' = scenario
      PROVE  Conflicts'
  <2>1. PICK r : StartIs(k, ipaddr, r) /\ Moves(k, r)
    BY <1>1, StartMoves
  <2> QED  BY <2>1, StartConflicts
<1>2. ASSUME node' = node, due' = due, queue' = queue  PROVE Conflicts'
  BY <1>2 DEF Conflicts, Pair, NotTaken, Announced, SharedBy, Is, Told, ToldIn, Asked, AskedIn, Probe, Fire, Gap, AtLeast1
<1>3. ASSUME NEW k \in Node, Set(k)  PROVE Conflicts'
  <2>1. scenario.own[k] \in Ip
    BY ConflictAssumption DEF Types
  <2> QED  BY <1>1, <1>3, <2>1 DEF Set
<1>4. ASSUME NEW k \in Node, NEW ipaddr \in Ip, SetPrimaryIp(k, ipaddr)  PROVE Conflicts'
  BY <1>1, <1>4 DEF SetPrimaryIp
<1>5. ASSUME NEW k \in Node, Lose(k)  PROVE FALSE
  <2>1. lost' = lost + 1 /\ lost' = 0 /\ lost \in Nat
    BY <1>5 DEF Lose, Quiet, Types
  <2> QED  BY <2>1
<1>6. ASSUME NEW k \in Node, SetLinkDown(k)  PROVE FALSE
  <2>1. flapped < scenario.flaps /\ scenario.flaps = 0 /\ flapped \in Nat
    BY <1>6 DEF SetLinkDown, Quiet, Types
  <2> QED  BY <2>1
<1>7. ASSUME NEW k \in Node, SetLinkUp(k)  PROVE Conflicts'
  BY <1>2, <1>7 DEF SetLinkUp
<1>8. CASE UNCHANGED vars
  BY <1>2, <1>8 DEF vars
<1> QED  BY <1>3, <1>4, <1>5, <1>6, <1>7, <1>8, TimerConflicts, InputConflicts, TickConflicts DEF Next

\* A node has its one timer while it claims an address; while no frame has been lost
\* every node that claims an address another has, or announces, knows of it or is
\* about to be told.
THEOREM ConflictSafety == ASSUME Spaced PROVE Spec => []AcdInv
<1>1. Init => AcdInv
  <2> SUFFICES ASSUME Init  PROVE AcdInv
    OBVIOUS
  <2>1. /\ node \in [Node -> Acd] /\ due = [n \in Node |-> 0] /\ queue = [n \in Node |-> << >>]
        /\ \A n \in Node : node[n].state = "Off" /\ node[n].timers = 0 /\ ~node[n].timer_id /\ node[n].ip = None
    BY Numbers DEF Init, Acd, States, AnyIp
  <2>2. \A n \in Node : AcdOk(node[n]) /\ due[n] <= node[n].timers
    BY <2>1 DEF AcdOk
  <2>3. queue \in [Node -> Seq(Arp)] /\ due \in [Node -> Nat]
    BY <2>1
  <2>4. Types
    BY <2>1, <2>2, <2>3 DEF Types, Init
  <2>5. Linked
    BY <2>1 DEF Linked, Init
  <2>6. Conflicts
    <3>1. ASSUME NEW m \in Node, NEW n \in Node, m # n  PROVE Pair(m, n)
      <4>1. ~SharedBy(m, n)
        BY <2>1 DEF SharedBy
      <4>2. ASSUME NEW a \in Ip  PROVE NotTaken(m, n, a) /\ Announced(m, n, a)
        BY <2>1 DEF NotTaken, Announced, Is
      <4> QED  BY <4>1, <4>2 DEF Pair
    <3> QED  BY <3>1 DEF Conflicts
  <2> QED  BY <2>4, <2>5, <2>6 DEF AcdInv
<1>2. AcdInv /\ [Next]_vars => AcdInv'
  <2> SUFFICES ASSUME AcdInv, [Next]_vars  PROVE AcdInv'
    OBVIOUS
  <2>1. Types' /\ Linked'
    BY TypesKept DEF AcdInv
  <2>2. Quiet' => Conflicts'
    BY <2>1, QuietBefore, ConflictsStep DEF AcdInv
  <2> QED  BY <2>1, <2>2 DEF AcdInv
<1> QED  BY <1>1, <1>2, PTL DEF Spec

\* While no frame has been lost, no link is interrupted and every node has its one
\* timer, two nodes never use one address, whatever the number of nodes, the
\* addresses they want and the order in which they probe.
THEOREM AddressIsNotShared == ASSUME Spaced PROVE Spec => []NotShared
<1>1. AcdInv => NotShared
  <2> SUFFICES ASSUME AcdInv, Quiet, NEW m \in Node, NEW n \in Node  PROVE ~SharedBy(m, n)
    BY DEF NotShared, Quiet
  <2>1. m # n => Pair(m, n)
    BY DEF AcdInv, Conflicts
  <2> QED  BY <2>1 DEF Pair, SharedBy
<1> QED  BY <1>1, ConflictSafety, PTL
-----------------------------------------------------------------------------
(* An address that is taken.                                               *)
\* No address is changed and no link interrupted: a node starts once.
Fixed == scenario.changes = 0 /\ scenario.flaps = 0

\* Node n probes an address that m has: a probe of n or an answer is on its way, or
\* every probe of it has been lost.
Keeps(m, n) ==
    \E a \in Ip :
       /\ node[m].ip = a /\ node[n].ipaddr = a /\ node[n].state # "Announcing"
       /\ node[n].state \in {"ProbeWait", "Probing"} =>
             \/ node[n].sent_num <= lost
             \/ due[n] = 0 /\ node[n].sent_num <= lost + 1 /\ (Asked(m, n, a) \/ Told(n, a))
       /\ node[n].state = "AnnounceWait" =>
             due[n] = 0 /\ lost + 1 >= kProbeNum /\ (Asked(m, n, a) \/ Told(n, a))

Single(acd) == acd.timers = (IF acd.state = "Off" THEN 0 ELSE 1) /\ (acd.ip # None => acd.state = "Off")
Once ==
    /\ lost <= scenario.losses
    /\ Fixed => \A n \in Node : Single(node[n]) /\ (n \notin started => node[n].sent_num = 0 /\ ~node[n].taken)
Warned ==
    Fixed /\ scenario.losses < kProbeNum =>
       \A n \in Node : node[n].taken /\ node[n].state \in Claims => \E m \in link \ {n} : Keeps(m, n)

TakenInv == Types /\ Linked /\ Once /\ Warned

LEMMA OnceIs ==
    ASSUME Types, Linked, Once, Fixed
    PROVE  /\ link = started
           /\ \A j \in Node : /\ due[j] > 0 => j \in link /\ node[j].state # "Off" /\ node[j].ip = None
                              /\ node[j].state # "Off" => j \in link /\ node[j].ip = None
<1>1. link = started
  BY DEF Linked, Fixed
<1>2. ASSUME NEW j \in Node, due[j] > 0 \/ node[j].state # "Off"
      PROVE  j \in link /\ node[j].state # "Off" /\ node[j].ip = None
  <2>1. AcdOk(node[j]) /\ due[j] \in Nat /\ due[j] <= node[j].timers /\ node[j].timers \in Nat
    BY NodeFields DEF Types
  <2>2. Single(node[j])
    BY DEF Once
  <2>3. node[j].timers > 0 /\ node[j].state # "Off" /\ node[j].ip = None
    BY <1>2, <2>1, <2>2 DEF Single, AcdOk
  <2> QED  BY <1>1, <2>3 DEF Linked
<1> QED  BY <1>1, <1>2

LEMMA OnceKept ==
    ASSUME Types, Linked, Once, [Next]_vars
    PROVE  Once'
<1>1. /\ \A n \in Node : AcdOk(node[n]) /\ node[n].timers \in Nat
      /\ node \in [Node -> Acd] /\ lost \in Nat /\ link \subseteq started /\ started \subseteq Node
      /\ scenario \in Scenarios /\ lost <= scenario.losses
  BY NodeFields DEF Types, Once
<1>2. {scenario.losses, scenario.changes, scenario.flaps} \subseteq Nat
  BY <1>1, ConflictAssumption
<1>3. ASSUME Fixed
      PROVE  \A n \in Node : Single(node[n]) /\ (n \notin started => node[n].sent_num = 0 /\ ~node[n].taken)
  BY <1>3 DEF Once
<1>4. ASSUME NEW k \in Node, NEW r, node' = [node EXCEPT ![k] = r], Fixed => Single(r), k \in started \/ r = node[k] \/ k \in started',
             started \subseteq started', scenario' = scenario, lost' = lost
      PROVE  Once'
  <2>1. node'[k] = r /\ \A n \in Node \ {k} : node'[n] = node[n]
    BY <1>1, <1>4
  <2>2. ASSUME Fixed, NEW n \in Node
        PROVE  Single(node'[n]) /\ (n \notin started' => node'[n].sent_num = 0 /\ ~node'[n].taken)
    <3>1. CASE n = k
      BY <1>3, <1>4, <2>1, <2>2, <3>1
    <3>2. CASE n # k
      BY <1>3, <1>4, <2>1, <2>2, <3>2
    <3> QED  BY <3>1, <3>2
  <2>3. \A n \in Node : Single(node[n])' <=> Single(node'[n])
    BY DEF Single
  <2> QED  BY <1>1, <1>4, <2>2, <2>3 DEF Once, Fixed
<1>5. ASSUME node' = node, started \subseteq started', scenario' = scenario, lost' <= scenario.losses
      PROVE  Once'
  <2>1. \A n \in Node : Single(node[n])' <=> Single(node[n])
    BY <1>5 DEF Single
  <2> QED  BY <1>3, <1>5, <2>1 DEF Once, Fixed
<1>6. ASSUME NEW k \in Node, Timer(k)  PROVE Once'
  <2>1. lost' = lost /\ scenario' = scenario /\ started' = started /\ (k \notin link => node' = node)
    BY <1>6 DEF Timer, budget
  <2>2. CASE k \in link
    <3> DEFINE r == node'[k]
    <3>1. TimerIs(k, r)
      BY <1>6, <2>2, TimerEffect
    <3> HIDE DEF r
    <3>2. Fixed => Single(r)
      <4>1. node[k].timers \in Nat /\ (Fixed => Single(node[k]))
        BY <1>1, <1>3
      <4> QED  BY <3>1, <4>1 DEF Single, TimerIs, Waited, Rested, Probed, Announces, Obtains
    <3>3. node' = [node EXCEPT ![k] = r]
      BY <3>1 DEF TimerIs
    <3> QED  BY <1>1, <1>4, <2>1, <2>2, <3>2, <3>3
  <2>3. CASE k \notin link
    BY <1>1, <1>5, <2>1, <2>3
  <2> QED  BY <2>2, <2>3
<1>7. ASSUME NEW k \in Node, Input(k)  PROVE Once'
  <2>1. lost' = lost /\ scenario' = scenario /\ started' = started
    BY <1>7 DEF Input, budget
  <2>2. PICK frame, r : InputIs(k, frame, r)
    BY <1>7, InputEffect
  <2>3. Fixed => Single(r)
    <3>1. node[k].timers \in Nat /\ (Fixed => Single(node[k]))
      BY <1>1, <1>3
    <3> QED  BY <2>2, <3>1 DEF Single, InputIs, Unmoved, Defended, GivenUp, Claims
  <2>4. k \in started \/ r = node[k]
    <3> SUFFICES ASSUME k \notin started  PROVE r = node[k]
      OBVIOUS
    <3>1. node[k].state = "Off"
      BY <1>1 DEF Linked, AcdOk
    <3> QED  BY <2>2, <3>1 DEF InputIs, Unmoved, Defended, GivenUp, Claims
  <2>5. node' = [node EXCEPT ![k] = r]
    BY <2>2 DEF InputIs
  <2> QED  BY <1>4, <2>1, <2>3, <2>4, <2>5
<1>8. ASSUME NEW k \in Node, Lose(k)  PROVE Once'
  <2>1. node' = node /\ lost < scenario.losses /\ lost' = lost + 1 /\ scenario' = scenario /\ started' = started
    BY <1>8 DEF Lose
  <2>2. lost' <= scenario.losses
    BY <1>1, <1>2, <2>1
  <2> QED  BY <1>5, <2>1, <2>2
<1>9. ASSUME NEW k \in Node, Set(k)  PROVE Once'
  <2>1. scenario.own[k] \in Ip
    BY <1>1, ConflictAssumption
  <2>2. /\ k \notin started /\ started' = started \cup {k} /\ Start(k, scenario.own[k])
        /\ queue' = queue /\ lost' = lost /\ scenario' = scenario
    BY <1>9 DEF Set
  <2>3. PICK r : StartIs(k, scenario.own[k], r) /\ Moves(k, r)
    BY <2>1, <2>2, StartMoves
  <2>4. Single(r)
    <3>1. node[k].timers = 0 /\ node[k].ip = None
      BY <2>2 DEF Linked
    <3> QED  BY <2>3, <3>1 DEF StartIs, Single
  <2>5. node' = [node EXCEPT ![k] = r]
    BY <2>3 DEF Moves
  <2> QED  BY <1>4, <2>2, <2>4, <2>5
<1>10. ASSUME NEW k \in Node, NEW ipaddr \in Ip, SetPrimaryIp(k, ipaddr)  PROVE Once'
  <2>1. /\ changed < scenario.changes /\ Start(k, ipaddr) /\ queue' = queue /\ lost' = lost /\ scenario' = scenario
        /\ started' = started /\ changed \in Nat /\ k \in started
    BY <1>10 DEF SetPrimaryIp, Types
  <2>2. PICK r : StartIs(k, ipaddr, r) /\ Moves(k, r)
    BY <2>1, StartMoves
  <2>3. ~Fixed
    BY <1>2, <2>1 DEF Fixed
  <2>4. node' = [node EXCEPT ![k] = r]
    BY <2>2 DEF Moves
  <2> QED  BY <1>4, <2>1, <2>3, <2>4
<1>11. ASSUME NEW k \in Node, SetLinkDown(k)  PROVE Once'
  <2> DEFINE r == Stops(node[k])
  <2>1. /\ flapped < scenario.flaps /\ node' = [node EXCEPT ![k] = r] /\ lost' = lost /\ scenario' = scenario
        /\ started' = started /\ flapped \in Nat /\ k \in started
    BY <1>1, <1>11 DEF SetLinkDown, Become, Types
  <2> HIDE DEF r
  <2>2. ~Fixed
    BY <1>2, <2>1 DEF Fixed
  <2> QED  BY <1>4, <2>1, <2>2
<1>12. ASSUME NEW k \in Node, SetLinkUp(k)  PROVE Once'
  BY <1>1, <1>5, <1>12 DEF SetLinkUp, budget
<1>13. ASSUME Tick  PROVE Once'
  BY <1>1, <1>5, <1>13 DEF Tick, budget
<1>14. CASE UNCHANGED vars
  BY <1>1, <1>5, <1>14 DEF vars, budget
<1> QED  BY <1>6, <1>7, <1>8, <1>9, <1>10, <1>11, <1>12, <1>13, <1>14 DEF Next

LEMMA KeepsOn ==
    ASSUME Types, Types', NEW m \in Node, NEW n \in Node, Keeps(m, n), lost' = lost,
           node'[m].ip = node[m].ip, node'[n].state = node[n].state, node'[n].ipaddr = node[n].ipaddr,
           node'[n].sent_num = node[n].sent_num, due'[n] <= due[n],
           \A a \in Ip : node[m].ip = a /\ node[n].ipaddr = a /\ (Asked(m, n, a) \/ Told(n, a)) =>
              Asked(m, n, a)' \/ Told(n, a)'
    PROVE  Keeps(m, n)'
<1>1. PICK a \in Ip :
         /\ node[m].ip = a /\ node[n].ipaddr = a /\ node[n].state # "Announcing"
         /\ node[n].state \in {"ProbeWait", "Probing"} =>
               \/ node[n].sent_num <= lost
               \/ due[n] = 0 /\ node[n].sent_num <= lost + 1 /\ (Asked(m, n, a) \/ Told(n, a))
         /\ node[n].state = "AnnounceWait" =>
               due[n] = 0 /\ lost + 1 >= kProbeNum /\ (Asked(m, n, a) \/ Told(n, a))
  BY DEF Keeps
<1>2. due[n] = 0 => due'[n] = 0
  <2>1. due[n] \in Nat /\ due'[n] \in Nat
    BY DEF Types
  <2> QED  BY <2>1
<1>3. Asked(m, n, a) \/ Told(n, a) => Asked(m, n, a)' \/ Told(n, a)'
  BY <1>1
<1>4. /\ node'[m].ip = a /\ node'[n].ipaddr = a /\ node'[n].state # "Announcing"
      /\ node'[n].state \in {"ProbeWait", "Probing"} =>
            \/ node'[n].sent_num <= lost'
            \/ due'[n] = 0 /\ node'[n].sent_num <= lost' + 1 /\ (Asked(m, n, a)' \/ Told(n, a)')
      /\ node'[n].state = "AnnounceWait" =>
            due'[n] = 0 /\ lost' + 1 >= kProbeNum /\ (Asked(m, n, a)' \/ Told(n, a)')
  BY <1>1, <1>2, <1>3
<1> QED  BY <1>4 DEF Keeps

\* The steps that could let node n come to use an address node m has.
LEMMA TimerWarned ==
    ASSUME Types, Types', Linked, Once, Warned, Fixed, scenario.losses < kProbeNum, NEW k \in Node, Timer(k),
           NEW n \in Node, node'[n].taken, node'[n].state \in Claims
    PROVE  \E m \in link' \ {n} : Keeps(m, n)'
<1>1. due[k] > 0 /\ k \in link /\ node[k].ip = None
  BY OnceIs DEF Timer
<1> DEFINE r == node'[k]
<1>2. /\ Moves(k, r) /\ TimerIs(k, r) /\ due' = [due EXCEPT ![k] = Least(due[k] - 1, r.timers)]
      /\ link' = link /\ lost' = lost
  BY <1>1, TimerMoves DEF budget
<1> HIDE DEF r
<1>3. r.timers \in Nat /\ due[k] \in Nat /\ due[k] - 1 \in Nat /\ due[k] <= node[k].timers
  BY <1>1, <1>2, NodeFields, SMTT(30) DEF Moves, AcdOk, Types
<1>4. due[k] = 1 /\ due'[k] = 0
  <2>1. due[k] = 1
    BY <1>1, <1>3 DEF Once, Single
  <2>2. Least(due[k] - 1, r.timers) = 0
    BY <1>3, <2>1 DEF Least
  <2> QED  BY <1>2, <2>1, <2>2 DEF Types
<1>5. node'[k] = r /\ r.taken = node[k].taken /\ \A j \in Node \ {k} : node'[j] = node[j] /\ due'[j] = due[j]
  BY <1>2 DEF Moves, Types, r, TimerIs
<1>6. Waited(k, r) \/ Rested(k, r) \/ Probed(k, r) \/ Announces(k, r) \/ Obtains(k, r)
  BY <1>2 DEF TimerIs
<1>7. queue \in [Node -> Seq(Arp)] /\ node[k].ipaddr \in AnyIp /\ None \in AnyIp /\ link \subseteq Node
  BY NodeFields, Numbers DEF Types
<1>8. /\ \A j \in Node : Includes(queue'[j], queue[j])
      /\ Sends(k, None) => \A j \in link \ {k} : AskedIn(queue'[j], k, node[k].ipaddr)
  <2>1. CASE Sends(k, None)
    BY <1>1, <1>7, <2>1, SendsEffect
  <2>2. CASE ~Sends(k, None)
    <3>1. CASE queue' = queue
      BY <2>2, <3>1 DEF Includes
    <3>2. CASE Sends(k, node[k].ipaddr)
      BY <1>1, <1>7, <2>2, <3>2, SendsEffect
    <3> QED  BY <1>6, <2>2, <3>1, <3>2 DEF Waited, Rested, Probed, Announces, Obtains
  <2> QED  BY <2>1, <2>2
<1>9. /\ \A j \in Node : \A a : Told(j, a) => Told(j, a)'
      /\ \A j \in Node : \A i, a : Asked(j, i, a) => Asked(j, i, a)'
      /\ \A j \in Node : \A i, a : AskedIn(queue'[j], i, a) => Asked(j, i, a)'
  BY <1>8 DEF Told, ToldIn, Asked, AskedIn, Probe, Includes
<1>10. node[n].taken /\ node[n].state \in Claims
  <2>1. CASE n = k
    BY <1>5, <1>6, <2>1 DEF Waited, Rested, Probed, Announces, Obtains, Claims
  <2>2. CASE n # k
    BY <1>5, <2>2
  <2> QED  BY <2>1, <2>2
<1>11. PICK m \in link \ {n} : Keeps(m, n)
  BY <1>10 DEF Warned
<1>12. m # k /\ m \in Node /\ node'[m] = node[m]
  <2>1. m # k
    BY <1>1, <1>11, Numbers DEF Keeps
  <2> QED  BY <1>5, <1>7, <2>1
<1>13. CASE n # k \/ Waited(k, r)
  <2>1. /\ node'[n].state = node[n].state /\ node'[n].ipaddr = node[n].ipaddr
        /\ node'[n].sent_num = node[n].sent_num /\ due'[n] <= due[n]
    <3>1. due[n] \in Nat
      BY DEF Types
    <3>2. CASE n # k
      BY <1>5, <3>1, <3>2
    <3>3. CASE n = k
      BY <1>4, <1>5, <1>13, <3>3 DEF Waited
    <3> QED  BY <3>2, <3>3
  <2>2. Keeps(m, n)'
    BY <1>2, <1>9, <1>11, <1>12, <2>1, KeepsOn
  <2> QED  BY <1>2, <1>11, <2>2
<1>14. CASE n = k /\ ~Waited(k, r)
  <2>1. PICK a \in Ip :
           /\ node[m].ip = a /\ node[k].ipaddr = a /\ node[k].state # "Announcing"
           /\ node[k].state \in {"ProbeWait", "Probing"} => node[k].sent_num <= lost
           /\ node[k].state # "AnnounceWait"
    BY <1>4, <1>11, <1>14 DEF Keeps
  <2>2. Probed(k, r)
    BY <1>5, <1>6, <1>14, <2>1 DEF Rested, Announces, Obtains, Claims
  <2>3. /\ node[k].sent_num <= lost /\ r.ipaddr = a
        /\ \/ r.state = "Probing" /\ r.sent_num = node[k].sent_num + 1
           \/ r.state = "AnnounceWait" /\ node[k].sent_num + 1 >= kProbeNum
    BY <2>1, <2>2 DEF Probed
  <2>4. Asked(m, k, a)'
    <3>1. AskedIn(queue'[m], k, a)
      BY <1>8, <1>11, <1>14, <2>1, <2>2 DEF Probed
    <3> QED  BY <1>9, <1>12, <3>1
  <2>5. node[k].sent_num \in Nat /\ lost \in Nat /\ kProbeNum \in Nat
    BY NodeFields, Numbers DEF Types
  <2>6. /\ node'[m].ip = a /\ node'[k].ipaddr = a /\ node'[k].state # "Announcing"
        /\ node'[k].state \in {"ProbeWait", "Probing"} => due'[k] = 0 /\ node'[k].sent_num <= lost' + 1
        /\ node'[k].state = "AnnounceWait" => due'[k] = 0 /\ lost' + 1 >= kProbeNum
    BY <1>2, <1>4, <1>5, <1>12, <2>1, <2>3, <2>5
  <2>7. Keeps(m, k)'
    BY <2>4, <2>6 DEF Keeps
  <2> QED  BY <1>2, <1>11, <1>14, <2>7
<1> QED  BY <1>13, <1>14

LEMMA InputWarned ==
    ASSUME Types, Types', Linked, Once, Warned, Fixed, scenario.losses < kProbeNum, NEW k \in Node, Input(k),
           NEW n \in Node, node'[n].taken, node'[n].state \in Claims
    PROVE  \E m \in link' \ {n} : Keeps(m, n)'
<1>1. PICK frame, r : InputIs(k, frame, r) /\ Moves(k, r)
  BY InputMoves
<1>2. link' = link /\ lost' = lost /\ link \subseteq Node
  BY InputMoves DEF budget, Types
<1>3. /\ node'[k] = r /\ r.taken = node[k].taken /\ due'[k] <= due[k]
      /\ \A j \in Node \ {k} : node'[j] = node[j] /\ due'[j] = due[j]
  <2>1. due[k] \in Nat /\ r.timers \in Nat /\ due'[k] = Least(due[k], r.timers)
    BY <1>1, NodeFields DEF Moves, AcdOk, Types, InputIs
  <2>2. due'[k] <= due[k]
    BY <2>1, LeastIs
  <2> QED  BY <1>1, <2>2 DEF Moves, Types, InputIs
<1>4. Unmoved(k, frame, r) \/ Defended(k, frame, r) \/ GivenUp(k, frame, r)
  BY <1>1 DEF InputIs
<1>5. node[n].taken /\ node[n].state \in Claims
  <2>1. CASE n = k
    BY <1>3, <1>4, <2>1 DEF Unmoved, Defended, GivenUp, Claims
  <2>2. CASE n # k
    BY <1>3, <2>2
  <2> QED  BY <2>1, <2>2
<1>6. PICK m \in link \ {n} : Keeps(m, n)
  BY <1>5 DEF Warned
<1>7. m \in Node /\ n \in link /\ node[n].state # "Announcing" /\ node[m].ip # None
  BY <1>2, <1>5, <1>6, OnceIs, Numbers DEF Keeps, Claims
<1>8. /\ node'[m].ip = node[m].ip /\ node'[n].state = node[n].state /\ node'[n].ipaddr = node[n].ipaddr
      /\ node'[n].sent_num = node[n].sent_num /\ due'[n] <= due[n] /\ (n = k => Unmoved(k, frame, r))
  <2>1. node'[m].ip = node[m].ip
    BY <1>3, <1>4, <1>7 DEF Unmoved, Defended, GivenUp
  <2>2. due[n] \in Nat
    BY DEF Types
  <2>3. n = k => Unmoved(k, frame, r)
    BY <1>3, <1>4, <1>7 DEF Defended, GivenUp, Claims
  <2> QED  BY <1>3, <2>1, <2>2, <2>3 DEF Unmoved
<1>9. /\ \A j \in Node : \A a : Told(j, a)' <=> ToldIn(queue'[j], a)
      /\ \A j \in Node : \A i, a : Asked(j, i, a)' <=> AskedIn(queue'[j], i, a)
  BY DEF Told, ToldIn, Asked, AskedIn, Probe
<1>10. /\ \A j \in Node \ {k} : \A a : Told(j, a) => Told(j, a)'
       /\ \A j \in Node \ {k} : \A i, a : Asked(j, i, a) => Asked(j, i, a)'
  <2>1. \A j \in Node \ {k} : Includes(queue'[j], queue[j])
    BY <1>1 DEF InputIs
  <2> QED  BY <1>9, <2>1 DEF Told, Asked, Includes
<1>11. ASSUME NEW a \in Ip, node[m].ip = a, node[n].ipaddr = a, Asked(m, n, a) \/ Told(n, a)
       PROVE  Asked(m, n, a)' \/ Told(n, a)'
  <2>1. CASE Told(n, a)
    <3>1. CASE n = k
      <4>1. Unmoved(k, frame, r)
        BY <1>8, <3>1
      <4>2. frame.sender_ip # a
        BY <1>5, <1>11, <3>1, <4>1 DEF Unmoved
      <4>3. ToldIn(queue'[k], a)
        BY <1>1, <2>1, <3>1, <4>2 DEF InputIs, Told
      <4> QED  BY <1>9, <3>1, <4>3
    <3>2. CASE n # k
      BY <1>10, <2>1, <3>2
    <3> QED  BY <3>1, <3>2
  <2>2. CASE Asked(m, n, a)
    <3>1. CASE m = k
      <4>1. frame = Probe(n, a) \/ AskedIn(queue'[k], n, a)
        BY <1>1, <2>2, <3>1 DEF InputIs, Asked
      <4>2. frame = Probe(n, a) => ToldIn(queue'[n], a)
        BY <1>1, <1>6, <1>7, <1>11, <3>1 DEF InputIs
      <4> QED  BY <1>9, <3>1, <4>1, <4>2
    <3>2. CASE m # k
      BY <1>7, <1>10, <2>2, <3>2
    <3> QED  BY <3>1, <3>2
  <2> QED  BY <1>11, <2>1, <2>2
<1>12. Keeps(m, n)'
  BY <1>2, <1>6, <1>7, <1>8, <1>11, KeepsOn
<1> QED  BY <1>2, <1>6, <1>12

LEMMA WarnedKept ==
    ASSUME Types, Types', Linked, Linked', Once, Once', Warned, [Next]_vars
    PROVE  Warned'
<1> SUFFICES ASSUME Fixed', scenario'.losses < kProbeNum, NEW n \in Node, node'[n].taken, node'[n].state \in Claims
             PROVE  \E m \in link' \ {n} : Keeps(m, n)'
  BY DEF Warned, Fixed
<1>1. scenario' = scenario
  BY DEF Next, Timer, Input, Lose, Set, SetPrimaryIp, SetLinkDown, SetLinkUp, Tick, budget, vars
<1>2. Fixed /\ scenario.losses < kProbeNum
  BY <1>1 DEF Fixed
<1>3. /\ link = started /\ link \subseteq Node /\ lost \in Nat /\ lost <= scenario.losses /\ scenario \in Scenarios
      /\ scenario.losses \in Nat /\ scenario.changes = 0 /\ scenario.flaps = 0 /\ node \in [Node -> Acd]
  BY <1>2, OnceIs, ConflictAssumption DEF Types, Once, Fixed
<1>4. ASSUME NEW m \in link \ {n}, Keeps(m, n), node' = node, due' = due, queue' = queue, lost' = lost
      PROVE  Keeps(m, n)'
  BY <1>4 DEF Keeps, Told, ToldIn, Asked, AskedIn, Probe
<1>5. ASSUME node' = node  PROVE \E m \in link \ {n} : Keeps(m, n)
  BY <1>2, <1>5 DEF Warned
<1>6. ASSUME NEW k \in Node, Lose(k)  PROVE \E m \in link' \ {n} : Keeps(m, n)'
  <2>1. node' = node /\ due' = due /\ link' = link /\ lost' = lost + 1 /\ lost < scenario.losses
    BY <1>6 DEF Lose
  <2>2. PICK m \in link \ {n} : Keeps(m, n)
    BY <1>5, <2>1
  <2>3. PICK a \in Ip :
           /\ node[m].ip = a /\ node[n].ipaddr = a /\ node[n].state # "Announcing"
           /\ node[n].state \in {"ProbeWait", "Probing"} => node[n].sent_num <= lost \/ node[n].sent_num <= lost + 1
           /\ node[n].state = "AnnounceWait" => lost + 1 >= kProbeNum
    BY <2>2 DEF Keeps
  <2>4. node[n].sent_num \in Nat /\ kProbeNum \in Nat
    BY NodeFields, Numbers DEF Types
  <2>5. node[n].state # "AnnounceWait"
    BY <1>2, <1>3, <2>1, <2>3, <2>4
  <2>6. node[n].state \in {"ProbeWait", "Probing"} => node[n].sent_num <= lost'
    BY <1>3, <2>1, <2>3, <2>4
  <2>7. Keeps(m, n)'
    BY <2>1, <2>3, <2>5, <2>6 DEF Keeps
  <2> QED  BY <2>1, <2>2, <2>7
<1>7. ASSUME NEW k \in Node, Set(k)  PROVE \E m \in link' \ {n} : Keeps(m, n)'
  <2>1. scenario.own[k] \in Ip
    BY <1>3, ConflictAssumption
  <2>2. /\ k \notin started /\ link' = link \cup {k} /\ Start(k, scenario.own[k])
        /\ queue' = queue /\ lost' = lost
    BY <1>7 DEF Set
  <2>3. PICK r : StartIs(k, scenario.own[k], r) /\ Moves(k, r)
    BY <1>1, <2>1, <2>2, StartMoves
  <2>4. /\ node'[k] = r /\ due' = due /\ queue' = queue /\ \A j \in Node \ {k} : node'[j] = node[j]
        /\ r.ip = node[k].ip /\ r.state = "ProbeWait" /\ r.ipaddr = scenario.own[k] /\ r.sent_num = node[k].sent_num
        /\ r.taken = (\E m \in link \ {k} : node[m].ip = scenario.own[k])
    BY <2>3 DEF Moves, Types, StartIs
  <2>5. CASE n = k
    <3>1. PICK m \in link \ {k} : node[m].ip = scenario.own[k]
      BY <2>4, <2>5
    <3>2. node'[k].sent_num <= lost'
      <4>1. node[k].sent_num = 0
        BY <1>2, <2>2 DEF Once
      <4> QED  BY <1>3, <2>2, <2>4, <4>1
    <3>3. node'[m].ip = scenario.own[k] /\ node'[k].ipaddr = scenario.own[k] /\ node'[k].state = "ProbeWait"
      BY <1>3, <2>4, <3>1
    <3>4. Keeps(m, k)'
      <4>1. PICK a \in Ip : a = scenario.own[k]
        BY <2>1
      <4>2. node'[m].ip = a /\ node'[k].ipaddr = a
        BY <3>3, <4>1
      <4> QED  BY <3>2, <3>3, <4>2 DEF Keeps
    <3> QED  BY <2>2, <2>5, <3>1, <3>4
  <2>6. CASE n # k
    <3>1. node'[n] = node[n]
      BY <2>4, <2>6
    <3>2. PICK m \in link \ {n} : Keeps(m, n)
      BY <1>2, <3>1 DEF Warned
    <3>3. node'[m] = node[m] /\ m \in Node
      BY <1>3, <2>2, <2>4, <3>2
    <3>4. due[n] <= due[n]
      BY DEF Types
    <3>5. \A a : (Asked(m, n, a) => Asked(m, n, a)') /\ (Told(n, a) => Told(n, a)')
      BY <2>4 DEF Told, ToldIn, Asked, AskedIn, Probe
    <3>6. Keeps(m, n)'
      BY <2>2, <2>4, <3>1, <3>2, <3>3, <3>4, <3>5, KeepsOn
    <3> QED  BY <2>2, <3>2, <3>6
  <2> QED  BY <2>5, <2>6
<1>8. ASSUME NEW k \in Node, NEW ipaddr \in Ip, SetPrimaryIp(k, ipaddr)  PROVE FALSE
  <2>1. changed < scenario.changes /\ changed \in Nat
    BY <1>8 DEF SetPrimaryIp, Types
  <2> QED  BY <1>3, <2>1
<1>9. ASSUME NEW k \in Node, SetLinkDown(k)  PROVE FALSE
  <2>1. flapped < scenario.flaps /\ flapped \in Nat
    BY <1>9 DEF SetLinkDown, Types
  <2> QED  BY <1>3, <2>1
<1>10. ASSUME NEW k \in Node, SetLinkUp(k)  PROVE FALSE
  BY <1>3, <1>10 DEF SetLinkUp
<1>11. ASSUME Tick  PROVE \E m \in link' \ {n} : Keeps(m, n)'
  <2>1. /\ node' = node /\ link' = link /\ queue' = queue /\ lost' = lost /\ \A j \in Node : queue[j] = << >>
    BY <1>11 DEF Tick, budget
  <2>2. PICK m \in link \ {n} : Keeps(m, n)
    BY <1>5, <2>1
  <2>3. m \in Node /\ 1 .. Len(queue[m]) = {} /\ 1 .. Len(queue[n]) = {}
    BY <1>3, <2>1
  <2>4. \A a : ~Asked(m, n, a) /\ ~Told(n, a)
    BY <2>3 DEF Told, ToldIn, Asked, AskedIn
  <2>5. Keeps(m, n)'
    BY <2>1, <2>2, <2>4 DEF Keeps
  <2> QED  BY <2>1, <2>2, <2>5
<1>12. CASE UNCHANGED vars
  <2>1. PICK m \in link \ {n} : Keeps(m, n)
    BY <1>5, <1>12 DEF vars
  <2> QED  BY <1>4, <1>12, <2>1 DEF vars, budget
<1> QED  BY <1>2, <1>6, <1>7, <1>8, <1>9, <1>10, <1>11, <1>12, TimerWarned, InputWarned DEF Next

\* What a node has that asks for an address another has had before: every probe of it
\* has been lost, or it is about to hear of the other.
THEOREM TakenSafety == Spec => []TakenInv
<1>1. Init => TakenInv
  <2> SUFFICES ASSUME Init  PROVE TakenInv
    OBVIOUS
  <2>1. Types /\ Linked
    <3>1. /\ node \in [Node -> Acd] /\ due = [n \in Node |-> 0] /\ queue = [n \in Node |-> << >>]
          /\ \A n \in Node : node[n].state = "Off" /\ node[n].timers = 0 /\ ~node[n].timer_id /\ node[n].ip = None
      BY Numbers DEF Init, Acd, States, AnyIp
    <3>2. \A n \in Node : AcdOk(node[n]) /\ due[n] <= node[n].timers
      BY <3>1 DEF AcdOk
    <3>3. queue \in [Node -> Seq(Arp)] /\ due \in [Node -> Nat]
      BY <3>1
    <3> QED  BY <3>1, <3>2, <3>3 DEF Types, Linked, Init
  <2>2. \A n \in Node : node[n].state = "Off" /\ node[n].timers = 0 /\ node[n].ip = None
                        /\ node[n].sent_num = 0 /\ node[n].taken = FALSE
    BY DEF Init
  <2>3. Once
    <3>1. scenario.losses \in Nat /\ lost = 0
      BY ConflictAssumption DEF Init
    <3> QED  BY <2>2, <3>1 DEF Once, Single
  <2>4. Warned
    BY <2>2 DEF Warned
  <2> QED  BY <2>1, <2>3, <2>4 DEF TakenInv
<1>2. TakenInv /\ [Next]_vars => TakenInv'
  BY TypesKept, OnceKept, WarnedKept DEF TakenInv
<1> QED  BY <1>1, <1>2, PTL DEF Spec

\* An address that a node uses is not taken by another that starts to ask for it:
\* with no address changed, no link interrupted and fewer frames lost than there are
\* probes, one that asked for it in vain keeps the address it has.
THEOREM TakenAddressIsKept == Spec => TakenIsKept
<1> DEFINE Keep == \A n \in Node :
             /\ scenario.flaps = 0 /\ scenario.changes = 0 /\ scenario.losses < kProbeNum
             /\ node[n].taken
             => node'[n].ip = node[n].ip
<1>1. TakenInv /\ [Next]_vars => Keep
  <2> SUFFICES ASSUME TakenInv, [Next]_vars, NEW n \in Node, Fixed, scenario.losses < kProbeNum, node[n].taken
               PROVE  node'[n].ip = node[n].ip
    BY DEF Fixed
  <2>1. Types /\ Linked /\ Once /\ Warned /\ node \in [Node -> Acd] /\ scenario \in Scenarios
    BY DEF TakenInv, Types
  <2>2. ASSUME NEW k \in Node, Timer(k)  PROVE node'[n].ip = node[n].ip
    <3>1. due[k] > 0 /\ k \in link
      BY <2>1, <2>2, OnceIs DEF Timer
    <3> DEFINE r == node'[k]
    <3>2. TimerIs(k, r)
      BY <2>1, <2>2, <3>1, TimerEffect
    <3>3. \A j \in Node \ {k} : node'[j] = node[j]
      BY <2>1, <3>2 DEF TimerIs
    <3> HIDE DEF r
    <3>4. CASE n = k
      <4>1. ~Obtains(k, r)
        <5> SUFFICES ASSUME node[k].state \in {"AnnounceWait", "Announcing"}  PROVE FALSE
          BY DEF Obtains
        <5>1. PICK m \in link \ {k} : Keeps(m, k)
          BY <2>1, <3>4 DEF Warned, Claims
        <5>2. due[k] = 0
          BY <5>1 DEF Keeps
        <5> QED  BY <3>1, <5>2
      <4>2. r.ip = node[k].ip
        BY <3>2, <4>1 DEF TimerIs, Waited, Rested, Probed, Announces
      <4> QED  BY <3>4, <4>2 DEF r
    <3>5. CASE n # k
      BY <3>3, <3>5
    <3> QED  BY <3>4, <3>5
  <2>3. ASSUME NEW k \in Node, Input(k)  PROVE node'[n].ip = node[n].ip
    <3>1. PICK frame, r : InputIs(k, frame, r)
      BY <2>1, <2>3, InputEffect
    <3>2. r.ip = node[k].ip /\ node' = [node EXCEPT ![k] = r]
      BY <3>1 DEF InputIs, Unmoved, Defended, GivenUp
    <3> QED  BY <2>1, <3>2
  <2>4. ASSUME NEW k \in Node, Set(k)  PROVE node'[n].ip = node[n].ip
    <3>1. scenario.own[k] \in Ip
      BY <2>1, ConflictAssumption
    <3>2. Start(k, scenario.own[k]) /\ queue' = queue /\ scenario' = scenario
      BY <2>4 DEF Set
    <3>3. PICK r : StartIs(k, scenario.own[k], r) /\ Moves(k, r)
      BY <2>1, <3>1, <3>2, StartMoves
    <3> QED  BY <2>1, <3>3 DEF StartIs, Moves
  <2>5. ASSUME NEW k \in Node, NEW ipaddr \in Ip, SetPrimaryIp(k, ipaddr)  PROVE node'[n].ip = node[n].ip
    <3>1. Start(k, ipaddr) /\ queue' = queue /\ scenario' = scenario
      BY <2>5 DEF SetPrimaryIp
    <3>2. PICK r : StartIs(k, ipaddr, r) /\ Moves(k, r)
      BY <2>1, <3>1, StartMoves
    <3> QED  BY <2>1, <3>2 DEF StartIs, Moves
  <2>6. ASSUME NEW k \in Node, SetLinkDown(k)  PROVE node'[n].ip = node[n].ip
    <3> DEFINE r == Stops(node[k])
    <3>1. node' = [node EXCEPT ![k] = r]
      BY <2>6 DEF SetLinkDown, Become
    <3>2. r.ip = node[k].ip
      BY <2>1, StopsOk DEF Types
    <3> HIDE DEF r
    <3> QED  BY <2>1, <3>1, <3>2
  <2>7. ASSUME NEW k \in Node, Lose(k) \/ SetLinkUp(k)  PROVE node' = node
    BY <2>7 DEF Lose, SetLinkUp
  <2>8. Tick \/ UNCHANGED vars => node' = node
    BY DEF Tick, vars
  <2> QED  BY <2>2, <2>3, <2>4, <2>5, <2>6, <2>7, <2>8 DEF Next
<1> QED  BY <1>1, TakenSafety, PTL DEF Spec, TakenIsKept
=============================================================================
