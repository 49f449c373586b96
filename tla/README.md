# TLA+ models of the DMX512/RDM node firmware

This directory holds TLA+ specifications of the firmware in `src/`: an Ethernet
node for the GD32 that turns Art-Net and E1.31 into DMX512 and that discovers
and controls RDM devices on its DMX512 lines. The specifications are checked
with TLC on small instances and, where marked, proved with TLAPS for every
value of their constants. `PROJECT.json` lists the runs, the mutations every
property is shown to detect, the source lines behind every definition, the
hazards and the findings.

Contents: 1. the system; 2. the models; 3. the runs; 4. fairness; 5. the
proofs; 6. the findings; 7. what is left out; 8. the plan.

## 1. The system

The firmware has no threads. `main()` calls the `Run()` of each component in
turn, for ever (the *super loop*); UDP packets arrive as callbacks out of the
network's `Run()`; software timers fire out of `SoftwareTimerRun()`, one timer
per pass. Only the drivers (USART, timers, Ethernet) run in interrupts. So a
"process" here is a component whose `Run()` does one small step, and the
interleavings that matter are those between the steps of a component and the
packets, timers, requests and frames that come in between them. The repository
has no tests.

### 1.1 Components

**RDM table of devices** (`lib-rdm/include/rdm_tod.h`). State: up to 200 UIDs,
a saved position for a round robin, a mute bit per entry. Operations: reset,
add, delete (moves entries and bits), find, next, mute, unmute. Users: the
discovery, the Art-Net gateway. *Hard*: deletion moves what positions refer to;
the table can be full. *Correct when*: no UID is in it twice, and bits and
positions belong to the entry they were set for.

**RDM discovery state machine** (`rdm_discovery_statemachine.cpp/.h`). State:
one of ten states, the state saved while late responses are awaited, retry
counters per kind of request, a stack of branches (ranges of UIDs) still to be
searched, the pointer to the last response. Operations: `Full`, `Incremental`,
`Stop`, `IsFinished`, `Process` (one step). It sends DISC_UN_MUTE, DISC_MUTE and
DISC_UNIQUE_BRANCH through the DMX driver and reads answers from the driver's
receive buffer. *Hard*: frames are lost, garbled by collisions, or late; retry
counters are shared by paths that reset them differently; the stack has a
fixed size; 48-bit arithmetic on the borders of branches; devices come and go.
*Correct when*: every device that answers is found and ends up in the table, no
other UID does, no device is left muted and unknown, nothing is searched twice,
the stack has room, and the discovery ends.

**RDM discovery scheduler** (`rdm_discovery.h`). State: the port whose turn it
is; per port whether RDM is enabled, a discovery waits, of which type, and
whether it is in the background discovery; one timer. It shares the one state
machine between the ports. Operations: `Full`, `Incremental`, `Stop`,
`Enable`, `Disable`, `EnableBackground`, `DisableBackground`, `Run`, the timer's
callback. *Hard*: requests and stops arrive between any two steps. *Correct
when*: the port a result is reported for is the one discovered, every request
is served, the background discovery recurs.

**Art-Net output gateway** (`lib-artnet/src/node/rdm/`, `DmxSend`,
`Dmx::SetPortDirection`). ArtTodControl commands the scheduler; when a discovery
starts, the output on its line is stopped; ArtTodRequest is answered with
ArtTodData to a list of controllers; ArtRdm is forwarded. *Hard*: three records
of whether an output runs (`is_transmitting`, `started_`, the port's state), each
changed elsewhere; ArtDmx and ArtSync keep coming during a discovery. *Correct
when*: the discovery has its line for itself and the output comes back after.

**Art-Net input gateway** (`artnetrdmcontroller.cpp`, `handlerdmin.cpp`,
`handlerdm.cpp`). Answers a controller on its DMX512 line for the UIDs that
ArtTodData put into its table. *Hard*: the table changes under a discovery in
progress; the round robin and the mutes persist. *Correct when*: on the line it
cannot be told from the responders it stands in for.

**Art-Net node** (`lib-artnet/src/node/`). ArtPoll and queued ArtPollReply,
ArtDmx with two-source merging, ArtSync and its time-out, ArtAddress,
fail-safe, loss of the network. *Hard*: which source is A or B and when it
expires; the synchronous mode; state given up in several places at once.
*Correct when*: what is output is what the latest live sources say, and what is
reported is what is done.

**Software timers** (`lib-superloop/src/softwaretimers.cpp`). A pool of 12
timers with a cursor; a deleted timer is replaced by the last. *Hard*: callbacks
change the pool the loop is walking. *Correct when*: every timer keeps its own
time and is served.

**DMX512/RDM driver** (`lib-dmx/src/gd32/`). Per port two transmit buffers with a
write and a read index, the state of the DMX512 output and of an RDM request,
which share a timer and a DMA channel, the state and direction of the port, and
its style (*delta* sends a frame when there is new data, *constant* goes on
sending); a receive buffer filled by an interrupt. *Hard*: the main loop waits
for states only interrupts make, and calls of the main loop are interrupted
anywhere. *Correct when*: a frame goes out as it was set, DMX512 and RDM do not
share a line, a port that is stopped is silent, no call waits for ever.

**RDM responder, queued messages, LLRP** (`lib-rdm/src/`). Handlers per
parameter, the mute flag, the LLRP probe. *Hard*: little; mostly data.

**E1.31 bridge** (`lib-e131/`). Two sources per port, priorities, HTP/LTP
merging, preview, stream-terminated, synchronisation, time-outs. *Hard*: as the
Art-Net node, with priorities.

**Network stack** (`lib-network/src/core/`). ARP cache and packet queue, address
conflict detection and AutoIP, DHCP client, IGMP, TCP, UDP. Address conflict
detection keeps a state, counts of probes, announcements and conflicts, the time
to wait and one software timer; it sees every ARP frame. *Hard*: frames are lost,
several nodes start at once, the link goes down, the address is changed while
another one is probed. *Correct when*: two nodes do not use one address, one
that is in use is kept, and an address nobody contests is obtained.

**Configuration store** (`lib-configstore/`). State: the store in RAM, one of
seven states of its writing, a timer. Updates set the state to *changed*; the
timer's callback erases and writes the flash memory step by step, through the
driver of the flash (`gd32_fmc.cpp`), which keeps a state machine of its own.
*Hard*: an update, a reboot or a failure of the power between two steps; the
installation of firmware uses the same driver. *Correct when*: what ends up in
flash is the last update, of one configuration.

**Flash install, TFTP** (`lib-flashcodeinstall/`, `lib-network/src/apps/`). Erases
and writes the firmware in chunks, through the same driver; a block-by-block
server.

**Show file, OSC, remote configuration, displays, board, sensors, pixel LEDs,
C library, hardware clock**: formats and drivers with little state.

**Vendored**: `lib-gd32`, CMSIS, `lib-fatfs`, parts of `lib-eve`.

### 1.2 How they interact

    ArtTodControl, timer          ArtDmx, ArtSync
            |                            |
            v                            v
     rdm::Discovery  --Starting-->  ArtNetNode --Start/Stop--> DmxSend
            |  Begin/Stop/IsFinished                              |
            v                                                     v
     StateMachine  --requests, SetPortDirection-->  Dmx driver  (one line)
            |                                           ^
            v                                           | frames, collisions
        rdm::Tod  <--ArtTodData--  input gateway  --->  devices or a gateway

    ConfigStore --erase, write--> gd32::fmc <--erase, write-- FlashCodeInstall
         ^ callback
    software timers --callback--> acd --probes, announcements--> arp <--> other nodes

## 2. The models

| Module | Models | State |
| --- | --- | --- |
| `RdmTod` | `rdm::Tod`, one operator per method | none (operators on a table) |
| `RdmDiscovery` | `StateMachine`, one action per branch of `Process` that changes something, on an open line that may bring any frame at any moment | the class's fields, the outstanding request, the receive buffer |
| `RdmBranches` | the strengthened invariant of the search | none |
| `DiscoveryJob` | abstract: a discovery as its user sees it | `job`, `finished`, `incremental` |
| `RdmLine` | `RdmDiscovery` with devices on a lossy line (the devices are not in the repository; they do what the state machine expects of them) | the devices, their mutes, a late frame, what is left of the scenario |
| `RdmProxy` | `RdmDiscovery` wired to the input gateway of another node | the gateway's table |
| `RdmGateway` | `ArtNetRdmController::RdmReceive` with HandleTodData and the resets | table, last answer |
| `RdmResponders` | abstract: a set of responders, each muted or not | `known`, `muted`, `answer` |
| `DiscoveryScheduler` | `rdm::Discovery`, built on `DiscoveryJob` | its bit masks as sets of ports |
| `ArtNetRdm` | output gateway: scheduler, ArtTodControl, ArtDmx, ArtSync, `DmxSend`, `SetPortDirection`, loss of the network | the scheduler's, and the records of each output |
| `SoftwareTimers` | the pool of timers | pool, cursor |
| `TimerSet` | abstract: a timer per owner | `timer` |
| `DmxOutput` | the output side of `Dmx` against its interrupts, `DmxSend`, and the calls ArtDmx, ArtSync, ArtRdm, a change of style and Blackout make to them | the fields named as in the code; `todo`, the steps left of the call the main loop is in |
| `ArtNetMerge` | `HandleDmx` with two sources, `dmxnode::Data`, `HandleSync`, the time-outs | the sources, data and output of each port; the last ArtDmx of each source |
| `AddressConflict` | `network::acd` with `arp::Input`, on several nodes and a network that loses frames | `struct Acd` and the timers of each node, frames under way |
| `ConfigStore` | `ConfigStore`, `gd32::fmc` (`src/h`, the driver that is built), `FlashCodeInstall`, `board::Reboot` | the store, the flash memory by words, the statics of the driver, what the main loop is doing |
| `MC*` | instances for TLC | |
| `RdmLine_proofs` (with `RdmDiscovery` and `RdmProxy`), `ArtNetRdm_proofs` (with the scheduler), `RdmGateway_proofs`, `SoftwareTimers_proofs`, `ConfigStore_proofs`, `ArtNetMerge_proofs`, `AddressConflict_proofs`, `DmxOutput_proofs` | proofs about the module named (section 5) | |

**From code to state.** Bit masks per port are sets of ports; a bounded array
with a count is a sequence; a UID is a natural number in `0 .. UidAll` with the
broadcast UID on top, as in the code, and the middle of a branch is computed as
the code computes it, including the masks that keep the sum of two 48-bit
numbers in range (`MidPosition`). Pointers into the receive buffer are a flag
(`response`) and the buffer itself (`rx.data`), so that a frame overwritten
before it is read is overwritten in the model too. `StateMachine::NewState` with
its argument for late responses is `NewState`; waiting for them is the state
`LateResponse` with `saved_state`.

**From code to actions.** A handler is one action, guards and trailing effects
included. `Process` is called again and again; calls that find that a time-out
has not passed are stuttering steps, and the time-out itself is an action that
is possible once the request is no longer outstanding (an answer takes less
than the 5.8 ms time-out; an answer that is later is `late` in `RdmLine`).
The actions are named after the state and the branch taken:
`DiscoveryTakeBranch`, `QfdGiveUp`, `MuteDeviceIsGone`, ...

**Composition.** `RdmDiscovery` leaves the line open: `LineStep` lets any frame
arrive. `RdmLine` and `RdmProxy` restrict that, one with devices, the other with
`RdmGateway`. `RdmDiscovery` implements `DiscoveryJob`, and `DiscoveryScheduler`
extends `DiscoveryJob` in its place, which keeps the scheduler small enough for
three ports. `ArtNetRdm` extends the scheduler.

**Interrupts.** In `DmxOutput` a call of the main loop is a list of steps, `todo`,
each as large as can be done without an interrupt seeing the difference (a
`memcpy` is two: `CopyHead` and `CopyTail`), and an interrupt may come between
any two. A busy wait is a step with a guard (`Drain`, `StartDmxOutput`). A step
may put the steps of a function it calls in front of the list, so that the
order of the code is kept.

**Time** in `ArtNetMerge` goes in ticks, and ages saturate just past their
time-out. In `AddressConflict` a tick is one call of `Timer` (100 ms in the code)
and frames arrive within it.

**Flash memory** in `ConfigStore` is a function from addresses to words; a word
that is programmed twice with different contents is `Garbage`. The calls of
`Erase` and `Write` that only poll are left out, those that move the driver's
state machine are actions, and its statics stay what the last caller left. The
driver is `lib-gd32/src/h/gd32_fmc.cpp`, the only one `lib-gd32/Makefile.GD32`
compiles for this microcontroller, as it is:

* it enters `kWriteBusy` first, where the address moves on (`:183`, `:203`): the first
  word of a page is never written and every other is one word further than it was to
  be. `Saved` and the page of the firmware are read at those addresses.
* `Read` refuses what ends at the last byte of the flash memory (`:37`, `:56`), and the
  sector of the store is the last. The constructor so never sees what was saved, and
  starts with the default (`Boot`, which does not read `flash`).
* `Erase` that finds a write under way is `assert(0)` and `__builtin_unreachable()`.
  With NDEBUG, which the libraries are compiled with, the compiler may let any of the other cases
  follow: `EraseUnreachable` is all of them. When that is to erase anew (what the code would do in
  `kIdle`) all is well; when the write is taken for an erase under way, `misled` is set,
  and as the length left in bytes is no number of sectors it may never come to 0 (`"Astray"`).
* `Write` that finds an erase under way ends that one (`:228`), and `Write` that finds
  another write goes on with it. Its caller is then told that its own is done. The
  histories `disturbed` and `spoilt` say when an installation met this.

`FMC_SIZE` is in bytes already (`gd32_fmc.h:37`) and multiplied by 1024 once more where it is
used (`gd32_fmc.cpp:37`, `flashcode.cpp:59`): the last sector is then at an address where
there is no memory. The model takes that sector to be there.

## 3. The runs

Each property is also checked against a mutation of the model that a plausible
bug would amount to (listed in `PROJECT.json`, defined next to the operator they
replace and marked "Mutant"), and TLC finds each violated there.

| Run | States | Asks |
| --- | --- | --- |
| `RdmLine` | 1 095 000 | Do two discoveries (each full or incremental) leave the table in step with a line that loses two frames and changes once in between? Does one discovery of six devices with a table of four fill the table and end? With a discovery stopped at any moment, a frame lost and one arbitrarily late, does the search stay within the stack, end, and act as a `DiscoveryJob`? |
| `RdmGateway` | 251 | Does an input gateway stand in for responders, whatever frames, ArtTodData and resets arrive in whatever order? |
| `RdmProxy` | 42 000 | Does a discovery through a gateway find its whole table, from any order of its entries, position of its round robin and mute bits, with a frame lost? |
| `DiscoveryScheduler` | 113 000 | Three ports, every command at any moment: is every request served for its own port, does the background discovery recur? |
| `ArtNetRdm` | 1 029 000 | Two ports with discoveries, ArtDmx and silences of the network, with ArtSync and without: is the line quiet during a discovery, does the output come back, are the reports so, does ArtSync find data? |
| `ArtNetRdm_sync` | violation | Finding 1 |
| `SoftwareTimers` | 10 400 | Four owners, three timers, one owner whose callback deletes its timer: does each timer keep its own time, and is it served although others come and go? |
| `DmxOutput` | 250 000 | Two outputs: are frames whole, is the line that of one sender, is a stopped port silent and a started one on its line, does every call return, is new data sent? |
| `ArtNetMerge` | 121 000 | Up to three sources: is the output the merge of what they sent last, is a stale source merged at most once, is data refused for a third source only, does the merge mode follow the ports? |
| `AddressConflict` | 178 000 | Two nodes that want one address or two: do they ever share it, is an address in use kept, does a node get its address? |
| `AddressConflict_probed` | violation | Finding 2 |
| `ConfigStore` | 742 000 | Updates, resets, reboots, erasures and chunks of an installation in any order and a failure of the power at any moment: does the flash memory hold the last update, and one configuration only, is it there when a reboot restarts, is the firmware what was sent, does saving end? |

**The bounds.**

* UIDs have three bits (`TopBit = 4`): 0 to 6 and broadcast. The code halves
  until one UID is left, and with three bits a branch is halved into unequal
  halves, equal halves and single UIDs, which are all the cases `Process`
  distinguishes. The proofs of section 5 hold for UIDs of any size.
* The retry counters are those of the code (3, 10, 3, 5, 5), so that "gives up
  after the n-th silence" is what the code does.
* Two losses are fewer than the smallest counter, 3, which is the premise `FewLosses`
  of `NoDeviceLost`, `NoDeviceInvented` and `NoDeviceSilenced`. It is tight: with three
  lost in the wrong places TLC finds each of them violated without it.
* Devices of the population may be present or not and muted or not at the
  start. `{0, 1, 6}` has neighbours and both ends; `{1, 2}` straddles the border
  of two halves.
* Two discoveries are enough for what one leaves behind for the next: the
  counters, the table, the saved state, a late frame.
* The table has four entries (seven in `RdmProxy`): enough for the stack, which
  has the same size and needs one entry per bit of a UID and one more.
* The gateway of `RdmProxy` has four UIDs and one frame is lost: the most of both that
  five questions allow (`EnoughRetries`), and tight: with five UIDs TLC finds one
  that is never heard (section 6).
* Three ports are the fewest for which a turn can be passed past a port that
  does not want it to one that does. Two are enough for `ArtNetRdm`, where a
  port is compared with one that is not being discovered.
* Networks: one with silences, and one with silences and ArtSync. What a network with
  ArtSync alone does, the second does too. `StartedSendsUnsynced` is about the first, as
  it is false where ArtSync comes (section 6). Whether a discovery is a full one is
  not told apart (`MCView`): no step of the node and no property depends on it.
* Intervals of timers are one or two ticks, so that two timers may be due at
  once or not, and the pool is smaller than the number of owners.
* `DmxOutput`: a frame has a head and a tail, the fewest parts for which it can
  be torn, and two values. Most scenarios call one port, as ports share nothing
  but `has_continuous_output`; the one with two ports is about that. What an
  application may call while an RDM request is out is part of the scenario
  (`turns`).
* `ArtNetMerge`: three sources compete for two places; two levels tell a highest
  from a last one; two slots tell a short frame from a long one. Two ports have
  one address or two. A tick is five seconds: the time-outs of a source (10 s),
  of the synchronous mode (4 s) and of the network (10 s) are 2, 1 and 2.
* `AddressConflict`: two nodes, as all is about pairs of them. A second has two
  ticks instead of ten, waits are 0 to 3 ticks, so that nodes are in or out of
  step; three probes and two announcements are those of the code. At most two
  frames are lost, fewer than there are probes.
* `ConfigStore`: a header and one word, firmware of two words, written in one chunk or
  two; two updates, as the second comes in the middle of the write of the first; two
  requests to erase for the firmware or to end its installation, as the second comes
  with something written, or with the store being written since the first; one failure of the power.
  Chunks are bounded by the size of the firmware, reboots are not bounded.

`CHECK_DEADLOCK FALSE` is said where a scenario runs out: a line with no
discovery left to start, a node that has its address.

## 4. Fairness

The super loop calls `Run()` again and again and does not depend on anything to
do so, hence weak fairness of `LineProcess \/ LineIsFinished`, `ProxyProcess`,
`Run`, `SoftwareTimerRun`. Every request sent on a line is dealt with (answered,
ignored or lost) within the time-out: weak fairness of `Devices` and
`GatewayAnswers`. Time passes: weak fairness of `Millis` and of the background
timer. A discovery that runs ends: the scheduler assumes that of its job because
`RdmLine` checks it (`DiscoveryEnds`). Nothing is assumed of packets, requests,
stops, devices and losses. `RequestsServed` and `BackgroundRecurs` are promised
only if discoveries are not stopped for ever: a stopped port keeps its turn, and
one that is stopped and asked for again and again keeps the others waiting
(`HaltsEnd`).

In `ConfigStore` the super loop serves the timer of the store, and what has the
processor (`ConfigstoreCommit` in a reboot, `Erase` and `WriteChunk` of the
installation) goes on: weak fairness of each. The requests to erase are bounded, as
without end they could take the processor for ever.

## 5. The proofs

`RdmLine_proofs`, first of `RdmDiscovery` (any size of UIDs, table, counters; any frames on the line):

* `Safety`: `Spec => [](TypeOK /\ BranchesInv)`. The assertion "Stack is full."
  of `Push` is `StackHasRoom`, and neither it nor `BranchesDisjoint` is inductive:
  that there is room depends on how large the branches on the stack may be.
  `BranchesInv` (module `RdmBranches`) adds that the branch at position `k` of
  the stack holds at most `Halving[k]` UIDs, where `Halving` is any sequence
  that starts at the number of UIDs or above, drops by no more than half per step
  and ends in 1 no later than the size of the table. `HalvingAssumption`
  says so; with 48-bit UIDs such a sequence has 48 steps (`2^48, 2^47, ...`
  rounded up) and `kTableSize` is 200. A branch that is taken from the top leaves
  at most that size, its halves fit the next two positions, and only a branch of
  two UIDs and more is split, so that the stack is never deeper than `Halving`.
* `PhaseOK` relates the state to the open branch, since the search passes
  through `LateResponse` and comes back; all is stated over `Phase`, the state
  the machine is in or will be back in.
* `MidPositionIsMiddle`: the masked sum of the code is the middle of the branch.
* `StackNeverFull`, `SearchedOnce`, `TypeCorrect` follow; `TypeStep` needs
  `BranchesInv` because the types of the borders rest on `lb <= ub`.
* `ImplementsJob`: `Spec => Job!JobSpec`, step by step.

Then of `RdmLine`: a line of any devices and any scenario is one of the lines
`RdmDiscovery` allows (`LineIsALine`), hence all of the above holds of it. What a
discovery is for is proved for any devices, which may be plugged in and out between two
discoveries: `EveryDeviceIsFound`, `NothingIsInvented`, `NobodyIsSilenced`.

* The premises are `InTime`, no answer comes later than it is waited for, and
  `FewLosses`, fewer frames are lost than the smallest of the counters.
* `FoundInv` is inductive. Its core is that a counter that went down while a
  device was there was paid for with a lost frame (`Paid`, of each kind of
  request), so that none reaches 0 while its device is plugged in. This needs what may still
  come on the line in each state: nothing that is taken (`Calm`, `Ignored`), or the answer
  to the request that is out, unless it is lost (`Missed`).
* For each state of the machine a predicate says which devices are muted, in the table, or in
  a branch to be searched (`Unsearched`, `MuteAt`, `Asked`, `SingleAt`,
  `QuickfindAt`, `BeingMuted`); `NothingIsLost` joins them. The two halves
  of a branch cover it, so that a split loses nobody.
* `DeleteIs` and `AddIs` say what the table's operations do to the set of its entries.
  A UID that is in the table twice would survive `Delete`, so the invariant has `OnlyOnce`.
* `StaysInv` is for a population that does not change: then no loss and no late answer
  puts a device in the table that is not on the line, since every frame, however late,
  comes from one that is.

Last of `RdmProxy`, for a gateway with any table, in any order, with any saved position
and any mutes:

* `ProxyIsALine`: what a gateway answers is again one of the lines of `RdmDiscovery`, so
  that the theorems above hold of it. One lemma per request says what `RdmReceive` does
  to the gateway's table and answers (`ServesUnMute`, `ServesMute`, `ServesBranch`).
* `GatewayIsFound`: `ProxySpec => []ProxiedAllFound`. The gateway answers a branch with
  one UID, so that no two ever collide, and the search stays with the first branch, which
  holds them all, until that has been silent `QuikfindDiscoveryCounter` times. That
  nobody is then left rests on the round robin. `Ahead` is how many questions it takes
  to come to a position. Without a loss the positions that are not muted are the next ones
  (`InOrder`), so that no question is in vain. A lost answer has moved the round robin on, and
  its UID comes again a whole round later: `Awaited` says that the questions left are enough for one UID
  not muted, with one round set aside for each frame that may still be lost.
  `ProxyInv` says the same of each state of the machine, as `FoundInv` does for devices.
* The attempt corrected the property, which was stated without a premise. It is false for the
  tables and losses `EnoughRetries` excludes (section 6). A gateway without an entry, which
  never answers, has an invariant of its own, `EmptyInv`.

`ArtNetRdm_proofs` (any number of ports and addresses), first of `DiscoveryScheduler`:
types; `ReportsItsOwnPort`, the assertion `port_index_ == port_index` of `Run`;
`NoRequestForgotten`. These are inductive as they stand. Then, a step of the node is a step of
the scheduler or leaves it alone (`NodeStepIsSchedulerStep`), so that
`NodeSchedules` takes over what is proved above. The rest is about the output:
`LineIsQuiet`, `OutputComesBack`, `ReportsAreTruthful`, `PendingHasData`, for any mix
of ArtSync, silences and discoveries; the first two say themselves where no ArtSync may
come, the last two except a port whose pending data a silence emptied (`emptied`).
They do not follow from one another by a step. `OutputInv` says
why they hold: without ArtSync the three records of an output agree, nothing is
pending, and a port whose line a discovery has is not started; with it, data that is pending has a length
or was emptied by a silence, and a port stays in `emptied` as long as one of its marks rests on that.

`RdmGateway_proofs` (any UIDs, any size of the table): `TableCorrect`, and `StandsIn`,
`Spec => Responders!Spec` step by step. A table is `WellFormed` when no UID is in it
twice, its length is within bounds, and saved position and mute bits are at entries in
use; one lemma per operation says that it keeps this and what it does to the set
of entries and of muted ones. That no UID is there twice makes the first entry
`FindIndex` meets the only one, and the number of responders that of the
entries, by a surjection.

`SoftwareTimers_proofs` (any owners, size of the pool, intervals): `TimersCorrect`, and
`ActsAsSet`, `TimersSpec => Abstract!TimerSpec`. The map takes an owner to the timer
it has in the pool. `WithoutView` says that replacing a deleted timer by the last
changes the view of its owner only, `ReplacedView` the same of a timer set anew; a
callback that deletes its timer puts another one under the cursor, and
`FireOnceStep` shows that this delays one other owner at most.

`ConfigStore_proofs` (a store and firmware of any size, any number of updates, installations
and failures of the power): `IdleMeansSaved`, `NeverMixed`, `InstalledWhole`,
`RebootSavesStore`. None is inductive: each says what the flash holds at the end, and the
driver gets there word by word, called by two users. `StoreInv` adds

* where the driver is and for whom (`Driver`: what is left plus where it is, is the end of
  its page; `Erasure`: a page whose erase is over is blank, and only the installation,
  which has the processor until it is done, leaves the driver in the page of the firmware);
* what the page of the store holds in each state of `ConfigStore`, whoever called
  (`StoreHolds`: the words behind the driver are the store's, those ahead still erased or
  already right);
* what it holds while no chunk came in the middle of its write (`Undisturbed`);
* what the page of the firmware holds while the driver did nothing else in its place
  (`Unspoilt`, with `ImageHolds` for each word).

The last three are given up when the driver is misled, and the theorems say so
(`~misled`): `misled` is the one thing that takes the flash memory out of the hands of both.

`ArtNetMerge_proofs` (any ports, sources, levels and time-outs): `MergingTruthful`,
`StaleOnce`, `RefusedJustly`, `OutputIsMerge`. A packet is taken by a loop over the
ports, each pass of which reads what the last one left: `Received`, a recursive function
of the port reached. `SetInduction`, induction over a set of port numbers, gives what
the loop keeps: a port it has not reached is as it was (`LoopFrame`), one that refuses
leaves its node alone (`LoopRefused`), and the merge bits stay right although the
passes in between change them one by one (`MergingLoop`). `MergeInv` adds to
`MergingTruthful` that a place is taken by a source that has been heard since
(`Known`, `Fresh`) and that its data is what that source sent last (`Held`).
`OutputIsTheMerge` is for scenarios in which no
two ports have the same address: ports that share one share what a source sent last,
and for these the property is model-checked only.

`AddressConflict_proofs` (any number of nodes and addresses): `NotShared` and
`TakenIsKept`.

* That no two nodes have an address once no frame is lost says nothing of the nodes
  that are about to. `AcdInv` adds, for each pair of nodes and each address
  (`Conflicts`): one that waits to announce an address the other has, has been told or
  its probe is still to be answered; of two that announce it, one hears the other
  before its own timer acts. The second part is about time: `Fire` is the number
  of ticks until a timer acts, and `Gap` those between two announcements.
* Its premise is `Spaced`: two announcements or more, and no more time between them than is waited
  before the first. The code has 2, 2 s and 2 s. TLC finds `NotShared` violated as soon
  as the interval is longer than the wait, or with one announcement.
* `TakenIsKept` has no premise. `TakenInv` counts for every node that wants an address
  somebody keeps: each probe it has sent is lost, or it or its answer is under way, so
  that the losses are no fewer than the probes when none is left.

`DmxOutput_proofs` (any number of ports, any frames, any order of the calls, and interrupts
before every step of them): `LineNotShared`, `FrameWhole`, `StoppedIsQuiet`, and in
scenarios without changes of style `StartedIsOnLine` and `EnabledOnce`. The state of
the main loop is the list of steps left, `todo`, so that a proof needs to know
what can be in it:

* `Types` says so by pairs: `Chained`, which step may follow which (`Follows`). A
  call of several ports is one `FlattenSeq` of their calls, and that such a list
  is chained is shown by induction over the ports (`FlattenIs`, from
  `SetInduction`). `Cur` and `After`, the step to come and the one after it, are
  all the invariants speak of, with `Left`, the set of the steps left.
* `LineNotShared` is not inductive: that nothing starts an output whose request is
  out rests on what the call that has the port still has to do. `TurnsInv` says for
  each port that a request has the port to itself (`RequestAlone`), how its state,
  direction and `started` go together, up to the step that is about to make them
  agree (`PortIs`), what the step to come finds (`FoundBy`), and for the whole call
  that no step left is for a port whose request is out (`Claimed`).
* `BuffersInv` says which buffer is on the line and what it holds while a copy is
  between `CopyHead` and `CopyTail`; it holds with changes of style as well.
* `StopsInv` is for requests that come at any time, when `TurnsInv` is false: an output
  that is not idle is started, or is started or waited for by a step left.
  Where there are Blackout and ArtSync, `TurnsInv` takes its place.
* The attempt corrected two of the properties. TLC found them violated with two
  ports, which the run has in one scenario only: `StoppedIsQuiet` when a Blackout meets
  a request and an ArtSync follows, `StartedIsOnLine` when a change of style of one
  port loses the request of another. Their premises now name both (section 6).

**Only model-checked**: liveness (`DiscoveryEnds`, `ProxyDiscoveryEnds`, `RequestsServed`,
`BackgroundRecurs`, `TimersFire` and those of `DmxOutput`, `AddressConflict` and
`ConfigStore`), which is out of the prover's reach; `OutputIsMerge` for ports that share an address;
`StartedIsOnLine` and `EnabledOnce` with changes of style.

## 6. The findings

1. **ArtSync during a discovery loses the output** (`ArtNetRdm_sync`,
   `artnetnode.cpp:1087`). ArtSync starts the output, the next RDM request takes it
   off the line, and `started_` stays set.
2. **Two nodes that probe one address do not notice** (`AddressConflict_probed`,
   `acd.cpp:283`). The second half of the test, "someone else is probing it",
   wants a sender address other than 0 and the node's own hardware address, which
   no probe of somebody else has. One lost announcement is then enough for two
   nodes to use one address.

Behaviour the models show that is not a run of its own, because the properties
state what holds around it. Each can be seen by dropping the named condition:

* *A discovery may never end* (`rdm_discovery_statemachine.cpp:492`). QUICKFIND
  gives up when its counter is 0 and does not set it back; after five exchanges
  that failed every later one fails at once, and a branch is asked for ever.
  `RdmLine` stays below five losses.
* *MUTE takes any frame for an acknowledgement* (`rdm_discovery_statemachine.cpp:327`),
  also one that is late, or the answer to the last request of the device before. A
  device that is gone may then stay in the table (`NoDeviceInvented`). As many losses as
  a counter has retries leave a device muted or not asked (`FewLosses`).
* *A lost frame may hide a UID of a gateway* (`artnetrdmcontroller.cpp:101`). An input gateway
  answers a branch only if the next UID of its round robin lies in it and is not muted, so that
  silence does not mean that nobody is left. Without a loss this firmware finds every
  table, because the round robin and the search go in step. When the answer of the last UID
  that is not muted is lost, the round robin has to pass all the others before it comes
  again, and QUICKFIND_DISCOVERY gives up after five silences: a table of five UIDs or more
  may then miss one until the next discovery (`EnoughRetries`).
* *A flush may be lost* (`rdm_discovery.h:114`). The background timer turns a
  waiting full discovery into an incremental one.
* *ArtSync after a silence* (`artnetnode.cpp:632`). A silence clears the length of the data
  of a port and keeps its mark of data pending. The second ArtSync after it
  (the first only enters the synchronous mode) finds the mark: the assertion of `DmxSend::Sync` is false, and with NDEBUG nothing is started
  while `is_transmitting` is set (`:1087`). The report is then false, and `HandleDmx`, which
  starts a port that is not transmitting (`:1052`), never starts it. `SyncHasData` and
  `ReportTruthful` hold but for these ports (`emptied`), and are false without that
  exception.
* *A one-shot timer moves another timer* (`softwaretimers.cpp:168`). A callback that
  deletes its timer puts another one under the cursor, which is then set by the
  interval of the deleted one (`FireOnce` of `TimerSet` allows it). Callbacks that
  do so for ever can starve a timer (the premise of `TimersFire`).
* *ArtDmx or ArtRdm while an RDM request is out* (`dmx.cpp:545`). The last interrupt
  of the request turns a line that has become an output back into an input, and
  the port stays `started_` (`turns` in `StartedIsOnLine`, `LineNotShared`).
* *Style changes* (`dmx.cpp:2541`). When a port is made constant and another one is
  already, all constant outputs are stopped and started again, those that were
  stopped too (`StoppedIsQuiet`). A request for RDM that is out is then lost; its
  interrupts may still come, and turn a port that has been started since off the
  line (`StartedIsOnLine`).
* *Torn frames* (`dmx.cpp:1656`). The buffers are exchanged before the data is
  copied: a frame whose DMA starts during the copy is partly new (`copying`).
* *Blackout* (`dmx.cpp:1616`) fills the first buffer whichever is being sent, and
  finds the port of an RDM request not idle, which is an assertion of
  `DataEnable` (`EnabledOnce`). It may enable a port that is stopped while its request is
  out, which the next ArtSync then starts (`StoppedIsQuiet`).
* *A source that comes back may be refused* (`artnetnode.cpp:951`). The physical port
  of a place whose source has timed out still counts when the other source has
  the same address (`RefusedJustly` is said of different addresses).
* *A merge bit outlives a silence* (`artnetnode.cpp:586`): the port is then output at
  once although it has one source (`MergingTruthful`). A change of address keeps
  the sources of the old one (`OutputIsMerge`), and a refused packet is not
  offered to the ports after the one that refused it (`Accepts`).
* *Two timers for one node* (`acd.cpp:223`). A start while probing adds a second
  timer that nobody deletes; a conflict leaves the node without an address; an
  interrupted link during the probes leaves a static address unconfigured.
* *Nothing is where it is looked for in the flash memory* (`src/h/gd32_fmc.cpp:203`, `:56`). Every
  page is written from its second word on, the store as well as the firmware, and the store
  is never read back: after each restart the node has the default configuration. The
  constructor asserts that the read has succeeded (`configstore.h:98`); an application that
  is compiled without NDEBUG (the line is commented out in its `Makefile.GD32`, as in
  `gd32_emac_artnet_dmx_multi`) stops there. The properties say what is in the flash memory, one word
  further than it was to be, which is all this driver can do.
* *An update while the store is being written* (`configstore.h:515`). The erase that follows
  finds the driver writing: its assertion fails (`gd32_fmc.cpp:149`), and what comes then
  is up to the compiler. The model has each outcome; `misled` are those in which the
  write is taken for an erase under way, after which an idle store may not be saved, and saving may not end.
* *Two users of one flash driver.* An erase for the firmware that comes while the store is
  being erased ends with that erase, and leaves the old firmware; a chunk that comes while the
  store is being written is that write for the driver, and counts as written (`spoilt`). When the
  store was updated in the middle of its write, such a chunk writes it on, and the page holds words
  of two configurations until it is erased (`disturbed`).
* *Failure of the power* between erasing and writing loses the configuration; in
  the middle of writing it leaves the first words of it and erased ones behind them.
* *The callback of the store changes its own interval* (`configstore.h:590`): the next expiry is
  still set by the interval it had before.

Seen while reading and not modelled: AtcIncOff and disabling RDM leave a waiting
discovery waiting (`rdm_discovery.h:70`, `:87`); the first ArtTodRequest of a
controller is not answered, since the controller is put on the list after the
answer is sent (`handlerdm.cpp:55`).

## 7. What is left out

* Times. A time-out is an action that may happen when the code's condition can
  be true; that LATE_RESPONSE waits long enough for a late frame is not shown.
* `ArtNetRdm`: merging (it is in `ArtNetMerge`), fail-safe playback, outputs
  switched off or on when the network falls silent (Blackout is in `DmxOutput`),
  `ArtNetNode::Stop`, ArtTodRequest with the list of controllers, the way back of
  an RDM response.
* `ArtNetMerge`: the discovery (it is in `ArtNetRdm`), input ports merged locally,
  sACN ports, the switch that turns merge time-outs off.
* `DmxOutput`: the input side; the lengths of break, mark and frame.
* `AddressConflict`: AutoIP and DHCP as users of the detection, secondary addresses,
  the passive mode, which nothing reaches.
* `RdmGateway`: the guard on the destination of the last ArtRdm
  (`handlerdmin.cpp:49`), and a DISC_UNIQUE_BRANCH addressed to one UID, for which the code writes its
  answer over the frame it reads the UID from; the model answers with the UID. No
  controller of this repository sends one, and no property depends on either.
* `ArtNetMerge`: `HandleSync` also clears the length of the data that was pending; in that
  module nothing reads it (in `ArtNetRdm` it is `loaded`).
* `ConfigStore`: the SPI flash, which waits in the call and has no state machine, and the
  driver of the F family, which is not built; `WriteFirmware`, which erases and writes a whole file in one call;
  chunks that are no multiple of four bytes (refused by the driver, and counted as
  written all the same); firmware that differs from one upload to the next;
  `chunk_state_`, which decides the answer of `WriteChunkComplete` and nothing else; the
  watchdog that `board::Reboot` sets, which ends what has run astray as a failure of the power does.
* The contents of packets, DMX data, RDM parameters, logging, displays, LEDs.
* The interrupt handlers of the input: a frame is in the receive buffer as a whole.
* The components of section 1.1 with no module in section 2.

## 8. The plan

Done: RDM table, discovery, scheduler, gateways, the shared line, timers, DMX
output, merging, address conflicts, the configuration store.

Next, in this order:

1. Proofs: `DmxOutput` with changes of style, where a call of one port steps through
   all the others.
2. `E131Bridge`: sources and priorities, as `ArtNetMerge`.
3. `ArtRdm`: ArtTodRequest, the list of controllers, forwarding of ArtRdm and of
   the response to its destination, with `RdmDiscovery` on the same receive buffer.
4. The receive state machine of the driver's interrupts against `RdmReceive`.
5. `Dhcp`, AutoIP on top of `AddressConflict`.
6. `RdmResponder`: to close `RdmLine` with the repository's own responder.

The runs stay few: a new scenario of a module joins its run, as `RdmLine` has
three of them.
