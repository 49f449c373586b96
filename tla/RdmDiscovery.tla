---------------------------- MODULE RdmDiscovery ----------------------------
(***************************************************************************)
(* The RDM discovery state machine of one port: class                      *)
(* rdm::discovery::StateMachine of lib-rdm.  Each action is one call of    *)
(* Process() that changes something, or one of Full, Incremental and Stop; *)
(* calls that only find that time has not passed yet are stuttering steps. *)
(*                                                                         *)
(* The line is open: Spec allows any frame to arrive at any moment, so     *)
(* what is proved of Spec holds for every population of devices and every  *)
(* kind of noise.  RdmLine closes it with devices, RdmProxy with another   *)
(* gateway.  A request stays in `wire' until the line has dealt with it;   *)
(* the receive timeout (5800 us) is longer than an answer takes, so it     *)
(* fires only when the request is no longer outstanding.                   *)
(***************************************************************************)
EXTENDS Integers, Sequences

CONSTANTS
    TopBit,                 \* bit 47 of a UID, 0x800000000000
    TableSize,              \* kTableSize of the table, kDiscoveryStackSize too
    UnmuteCounter,          \* kUnmuteCounter
    MuteCounter,            \* kMuteCounter
    DiscoveryCounter,       \* kDiscoveryCounter
    QuikfindCounter,        \* kQuikfindCounter
    QuikfindDiscoveryCounter \* kQuikfindDiscoveryCounter

ASSUME ConstantsAssumption ==
    /\ TopBit \in Nat \ {0} /\ TopBit % 2 = 0
    /\ TableSize \in Nat \ {0}
    /\ UnmuteCounter \in Nat /\ MuteCounter \in Nat /\ DiscoveryCounter \in Nat
    /\ QuikfindCounter \in Nat /\ QuikfindDiscoveryCounter \in Nat

VARIABLES
    state, saved_state, is_finished, do_incremental,
    unmute, mute, discovery, stack, single_device, quick_find, quick_find_discovery,
    response,   \* response_ is not null; it points into rx.data
    tod,        \* the table of the port, see RdmTod
    wire,       \* the request the line has not dealt with, or Quiet
    rx          \* the receive buffer of the port and its complete flag

control  == <<state, saved_state, is_finished, do_incremental>>
commands == <<unmute, mute, single_device, quick_find, quick_find_discovery>>
search   == <<discovery, stack>>
port     == <<wire, rx>>
vars     == <<control, commands, search, response, tod, port>>

MaxUid == 2 * TopBit - 2            \* 0xfffffffffffe
UidAll == 2 * TopBit - 1            \* the broadcast UID, rdm::kUidAll
Uid    == 0 .. UidAll
Table  == INSTANCE RdmTod
-----------------------------------------------------------------------------
(* Requests on the wire and frames in the receive buffer.                  *)
Quiet == [pid |-> "none", lb |-> 0, ub |-> 0]
DiscUnMute       == [pid |-> "DISC_UN_MUTE", lb |-> UidAll, ub |-> UidAll]
DiscMute(uid)    == [pid |-> "DISC_MUTE", lb |-> uid, ub |-> uid]
DiscBranch(l, u) == [pid |-> "DISC_UNIQUE_BRANCH", lb |-> l, ub |-> u]

Wire == [pid : {"none", "DISC_UN_MUTE", "DISC_MUTE", "DISC_UNIQUE_BRANCH"}, lb : Uid, ub : Uid]

\* "mute" and "unmute": the response to a DISC_MUTE, to a DISC_UN_MUTE;
\* "other": any other RDM message with a good checksum; "branch": a discovery
\* response whose checksum is right; "garbled": one whose checksum is wrong.
\* RDM messages with a bad checksum are dropped by Dmx::RdmReceive.
Frame == [kind : {"mute", "unmute", "other", "branch", "garbled"}, uid : Uid]

Garbled        == [kind |-> "garbled", uid |-> 0]
MuteAck(uid)   == [kind |-> "mute", uid |-> uid]
BranchAck(uid) == [kind |-> "branch", uid |-> uid]

Transmit(request) == wire' = request
Expired           == wire = Quiet /\ ~rx.complete

\* message_.Receive: a frame is handed over once; its data stays in the buffer.
Receive      == rx' = [rx EXCEPT !.complete = FALSE]
Received     == rx.complete /\ Receive /\ response' = TRUE
TimedOut     == Expired /\ response' = FALSE /\ UNCHANGED rx

NewState(s, late) ==
    IF late /\ state # "LateResponse"
    THEN state' = "LateResponse" /\ saved_state' = s
    ELSE state' = s /\ UNCHANGED saved_state

Stay == UNCHANGED control
Goto(s)     == NewState(s, FALSE) /\ UNCHANGED <<is_finished, do_incremental>>
GotoLate(s) == NewState(s, TRUE) /\ UNCHANGED <<is_finished, do_incremental>>

Push(stk, branch) == IF Len(stk) = TableSize THEN stk ELSE Append(stk, branch)
Pop(stk)         == SubSeq(stk, 1, Len(stk) - 1)

\* The middle of a branch, the top bits added apart so that the sum fits.
MidPosition(lb, ub) ==
    ((lb % TopBit) + (ub % TopBit)) \div 2
        + (IF ub >= TopBit THEN TopBit \div 2 ELSE 0)
        + (IF lb >= TopBit THEN TopBit \div 2 ELSE 0)
-----------------------------------------------------------------------------
NotRunning(counter) == [counter |-> counter, running |-> FALSE]
NoBranch == [lb |-> 0, ub |-> 0, counter |-> 0, running |-> FALSE]

Init ==
    /\ state = "Idle" /\ saved_state = "Idle"
    /\ is_finished = FALSE /\ do_incremental = FALSE
    /\ unmute = NotRunning(0) /\ single_device = NotRunning(0)
    /\ mute = [tod_entries |-> 0, counter |-> 0, uid |-> 0, running |-> FALSE]
    /\ quick_find = [counter |-> 0, uid |-> 0, running |-> FALSE]
    /\ quick_find_discovery = NotRunning(0)
    /\ discovery = NoBranch /\ stack = << >>
    /\ response = FALSE
    /\ tod = Table!Reset
    /\ wire = Quiet /\ rx = [data |-> Garbled, complete |-> FALSE]

(* Start is reached from Full and from Incremental.                        *)
\* Mutant: a discovery started over another.
StartOver(incremental, entries) ==
    /\ NewState("Unmute", FALSE)
    /\ is_finished' = FALSE
    /\ do_incremental' = incremental
    /\ unmute' = NotRunning(UnmuteCounter)
    /\ mute' = [mute EXCEPT !.tod_entries = entries, !.counter = MuteCounter, !.running = FALSE]
    /\ stack' = Push(<< >>, [lb |-> 0, ub |-> MaxUid])
    /\ discovery' = [discovery EXCEPT !.counter = DiscoveryCounter, !.running = FALSE]
    /\ UNCHANGED <<single_device, quick_find, quick_find_discovery, response, port>>

Start(incremental, entries) ==
    /\ state = "Idle"
    /\ NewState("Unmute", FALSE)
    /\ is_finished' = FALSE
    /\ do_incremental' = incremental
    /\ unmute' = NotRunning(UnmuteCounter)
    /\ mute' = [mute EXCEPT !.tod_entries = entries, !.counter = MuteCounter, !.running = FALSE]
    /\ stack' = Push(<< >>, [lb |-> 0, ub |-> MaxUid])
    /\ discovery' = [discovery EXCEPT !.counter = DiscoveryCounter, !.running = FALSE]
    /\ single_device' = NotRunning(MuteCounter)
    /\ quick_find' = [quick_find EXCEPT !.counter = QuikfindCounter, !.running = FALSE]
    /\ quick_find_discovery' = NotRunning(QuikfindDiscoveryCounter)
    /\ UNCHANGED <<response, port>>

Full == Start(FALSE, mute.tod_entries) /\ tod' = Table!Reset

Incremental == Start(TRUE, Table!UidCount(tod)) /\ UNCHANGED tod

\* The scheduler asks once, in the Run() in which the discovery has ended.
IsFinished ==
    /\ is_finished
    /\ is_finished' = FALSE
    /\ UNCHANGED <<state, saved_state, do_incremental, commands, search, response, tod, port>>

Stop ==
    /\ state # "Idle"
    /\ is_finished' = FALSE
    /\ NewState("Idle", TRUE)
    /\ UNCHANGED <<do_incremental, commands, search, response, tod, port>>

(* LATE_RESPONSE: what arrives meanwhile is received and dropped.          *)
\* Mutant: the saved state is not restored.
LateForEver ==
    /\ state = "LateResponse"
    /\ Receive
    /\ UNCHANGED <<control, commands, search, response, tod, wire>>

LateResponse ==
    /\ state = "LateResponse"
    /\ state' = saved_state
    /\ Receive
    /\ UNCHANGED <<saved_state, is_finished, do_incremental, commands, search, response, tod, wire>>
-----------------------------------------------------------------------------
(* UNMUTE: kUnmuteCounter broadcasts, whatever comes back.                 *)
UnmuteDone ==
    /\ state = "Unmute" /\ unmute.counter = 0
    /\ unmute' = NotRunning(UnmuteCounter)
    /\ Goto(IF do_incremental THEN "Mute" ELSE "Discovery")
    /\ UNCHANGED <<mute, single_device, quick_find, quick_find_discovery, search, response, tod, port>>

UnmuteSend ==
    /\ state = "Unmute" /\ unmute.counter > 0 /\ ~unmute.running
    /\ Transmit(DiscUnMute)
    /\ unmute' = [unmute EXCEPT !.running = TRUE]
    /\ Stay
    /\ UNCHANGED <<mute, single_device, quick_find, quick_find_discovery, search, response, tod, rx>>

UnmuteReceive ==
    /\ state = "Unmute" /\ unmute.counter > 0 /\ unmute.running
    /\ rx.complete /\ Receive
    /\ Stay
    /\ UNCHANGED <<commands, search, response, tod, wire>>

UnmuteTimeOut ==
    /\ state = "Unmute" /\ unmute.counter > 0 /\ unmute.running
    /\ Expired
    /\ unmute' = NotRunning(unmute.counter - 1)
    /\ Stay
    /\ UNCHANGED <<mute, single_device, quick_find, quick_find_discovery, search, response, tod, port>>
-----------------------------------------------------------------------------
(* MUTE: an incremental discovery mutes the entries of the table, last     *)
(* first, and deletes the one that does not answer kMuteCounter times.     *)
MuteOther == UNCHANGED <<unmute, single_device, quick_find, quick_find_discovery, search>>

MuteDone ==
    /\ state = "Mute" /\ mute.tod_entries = 0
    /\ mute' = [mute EXCEPT !.running = FALSE]
    /\ Goto("Discovery")
    /\ MuteOther /\ UNCHANGED <<response, tod, port>>

\* Mutant: the entry of a device that is gone is not deleted.
MuteGoneIsKept ==
    /\ state = "Mute" /\ mute.tod_entries > 0 /\ mute.counter = 0
    /\ mute' = [mute EXCEPT !.counter = MuteCounter, !.running = FALSE, !.tod_entries = @ - 1]
    /\ Stay
    /\ MuteOther /\ UNCHANGED <<response, tod, port>>

MuteDeviceIsGone ==
    /\ state = "Mute" /\ mute.tod_entries > 0 /\ mute.counter = 0
    /\ mute' = [mute EXCEPT !.counter = MuteCounter, !.running = FALSE, !.tod_entries = @ - 1]
    /\ tod' = Table!Delete(tod, mute.uid)
    /\ Stay
    /\ MuteOther /\ UNCHANGED <<response, port>>

MuteSend ==
    /\ state = "Mute" /\ mute.tod_entries > 0 /\ mute.counter > 0 /\ ~mute.running
    /\ LET uid == Table!CopyUidEntry(tod, mute.tod_entries, UidAll)
       IN  /\ mute' = [mute EXCEPT !.uid = uid, !.running = TRUE]
           /\ Transmit(DiscMute(uid))
    /\ Stay
    /\ MuteOther /\ UNCHANGED <<response, tod, rx>>

\* Any frame counts as the answer; the counter keeps what the device used up.
MuteResponse ==
    /\ state = "Mute" /\ mute.tod_entries > 0 /\ mute.counter > 0 /\ mute.running
    /\ Received
    /\ mute' = [mute EXCEPT !.tod_entries = @ - 1, !.running = FALSE]
    /\ Stay
    /\ MuteOther /\ UNCHANGED <<tod, wire>>

MuteTimeOut ==
    /\ state = "Mute" /\ mute.tod_entries > 0 /\ mute.counter > 0 /\ mute.running
    /\ TimedOut
    /\ mute' = [mute EXCEPT !.counter = @ - 1]
    /\ Transmit(DiscMute(mute.uid))
    /\ Stay
    /\ MuteOther /\ UNCHANGED tod
-----------------------------------------------------------------------------
(* DISCOVERY: take the next branch and ask who is in it.                   *)
\* A frame, or the last retransmission gone out: the answer to that one is
\* not waited for.
DiscoveryAnswered ==
    /\ state = "Discovery" /\ discovery.running
    /\ rx.complete \/ discovery.counter = 0
    /\ response' = rx.complete /\ Receive
    /\ discovery' = [discovery EXCEPT !.running = FALSE]
    /\ Goto("Dub")
    /\ UNCHANGED <<commands, stack, tod, wire>>

DiscoveryTimeOut ==
    /\ state = "Discovery" /\ discovery.running /\ discovery.counter > 0
    /\ TimedOut
    /\ discovery' = [discovery EXCEPT !.counter = @ - 1]
    /\ Transmit(DiscBranch(discovery.lb, discovery.ub))
    /\ Stay
    /\ UNCHANGED <<commands, stack, tod>>

DiscoveryNoMore ==
    /\ state = "Discovery" /\ ~discovery.running /\ stack = << >>
    /\ GotoLate("Finished")
    /\ UNCHANGED <<commands, search, response, tod, port>>

Top == stack[Len(stack)]

DiscoveryTakeSingle ==
    /\ state = "Discovery" /\ ~discovery.running /\ stack # << >>
    /\ Top.lb = Top.ub
    /\ stack' = Pop(stack)
    /\ discovery' = [discovery EXCEPT !.lb = Top.lb, !.ub = Top.ub]
    /\ quick_find_discovery' = [quick_find_discovery EXCEPT !.running = FALSE]
    /\ GotoLate("DiscoverySingleDevice")
    /\ UNCHANGED <<unmute, mute, single_device, quick_find, response, tod, port>>

\* Mutant: the branch that is searched stays on the stack.
DiscoveryPeekBranch ==
    /\ state = "Discovery" /\ ~discovery.running /\ stack # << >>
    /\ Top.lb # Top.ub
    /\ discovery' = [lb |-> Top.lb, ub |-> Top.ub, counter |-> DiscoveryCounter, running |-> TRUE]
    /\ Transmit(DiscBranch(Top.lb, Top.ub))
    /\ Stay
    /\ UNCHANGED <<commands, stack, response, tod, rx>>

DiscoveryTakeBranch ==
    /\ state = "Discovery" /\ ~discovery.running /\ stack # << >>
    /\ Top.lb # Top.ub
    /\ stack' = Pop(stack)
    /\ discovery' = [lb |-> Top.lb, ub |-> Top.ub, counter |-> DiscoveryCounter, running |-> TRUE]
    /\ Transmit(DiscBranch(Top.lb, Top.ub))
    /\ Stay
    /\ UNCHANGED <<commands, response, tod, rx>>
-----------------------------------------------------------------------------
(* DISCOVERY_SINGLE_DEVICE: a branch of one UID is muted without asking.   *)
SingleOther == UNCHANGED <<unmute, mute, quick_find, quick_find_discovery, search>>

\* Class and source are looked at, the parameter is not.
IsFromSingle == rx.data.kind \in {"mute", "unmute"} /\ rx.data.uid = discovery.lb

SingleGiveUp ==
    /\ state = "DiscoverySingleDevice" /\ single_device.counter = 0
    /\ single_device' = NotRunning(QuikfindDiscoveryCounter)
    /\ GotoLate("Discovery")
    /\ SingleOther /\ UNCHANGED <<response, tod, port>>

SingleSend ==
    /\ state = "DiscoverySingleDevice" /\ single_device.counter > 0 /\ ~single_device.running
    /\ Transmit(DiscMute(discovery.lb))
    /\ single_device' = [single_device EXCEPT !.running = TRUE]
    /\ Stay
    /\ SingleOther /\ UNCHANGED <<response, tod, rx>>

SingleResponse ==
    /\ state = "DiscoverySingleDevice" /\ single_device.counter > 0 /\ single_device.running
    /\ Received
    /\ IsFromSingle
    /\ tod' = Table!AddUid(tod, discovery.lb)
    /\ single_device' = NotRunning(QuikfindDiscoveryCounter)
    /\ Goto("Discovery")
    /\ SingleOther /\ UNCHANGED wire

SingleIgnore ==
    /\ state = "DiscoverySingleDevice" /\ single_device.counter > 0 /\ single_device.running
    /\ Received
    /\ ~IsFromSingle
    /\ Stay
    /\ SingleOther /\ UNCHANGED <<single_device, tod, wire>>

SingleTimeOut ==
    /\ state = "DiscoverySingleDevice" /\ single_device.counter > 0 /\ single_device.running
    /\ TimedOut
    /\ single_device' = [single_device EXCEPT !.counter = @ - 1]
    /\ Transmit(DiscMute(discovery.lb))
    /\ Stay
    /\ SingleOther /\ UNCHANGED tod
-----------------------------------------------------------------------------
(* DUB: what came back on the branch, read from the receive buffer.        *)
DubSilent ==
    /\ state = "Dub" /\ ~response
    /\ Goto("Discovery")
    /\ UNCHANGED <<commands, search, response, tod, port>>

DubOneDevice ==
    /\ state = "Dub" /\ response /\ rx.data.kind = "branch"
    /\ quick_find' = [quick_find EXCEPT !.uid = rx.data.uid]
    /\ GotoLate("Quickfind")
    /\ UNCHANGED <<unmute, mute, single_device, quick_find_discovery, search, response, tod, port>>

\* Mutants: halves with a gap between them, halves that overlap.
DubCollisionGap ==
    /\ state = "Dub" /\ response /\ rx.data.kind # "branch"
    /\ LET mid == MidPosition(discovery.lb, discovery.ub)
       IN  stack' = Push(Push(stack, [lb |-> discovery.lb, ub |-> mid - 1]),
                         [lb |-> mid + 1, ub |-> discovery.ub])
    /\ GotoLate("Discovery")
    /\ UNCHANGED <<commands, discovery, response, tod, port>>

DubCollisionOverlap ==
    /\ state = "Dub" /\ response /\ rx.data.kind # "branch"
    /\ LET mid == MidPosition(discovery.lb, discovery.ub)
       IN  stack' = Push(Push(stack, [lb |-> discovery.lb, ub |-> mid]),
                         [lb |-> mid, ub |-> discovery.ub])
    /\ GotoLate("Discovery")
    /\ UNCHANGED <<commands, discovery, response, tod, port>>

\* The upper half is pushed last and so searched first.
DubCollision ==
    /\ state = "Dub" /\ response /\ rx.data.kind # "branch"
    /\ LET mid == MidPosition(discovery.lb, discovery.ub)
       IN  stack' = Push(Push(stack, [lb |-> discovery.lb, ub |-> mid]),
                         [lb |-> mid + 1, ub |-> discovery.ub])
    /\ GotoLate("Discovery")
    /\ UNCHANGED <<commands, discovery, response, tod, port>>
-----------------------------------------------------------------------------
(* QUICKFIND: mute the one device that was heard.                          *)
QuickfindOther == UNCHANGED <<unmute, mute, single_device, quick_find_discovery, search>>

\* The counter is left at 0: no device is muted here again in this discovery
\* unless an acknowledgement resets it.
QuickfindGiveUp ==
    /\ state = "Quickfind" /\ quick_find.counter = 0
    /\ quick_find' = [quick_find EXCEPT !.running = FALSE]
    /\ Goto("QuickfindDiscovery")
    /\ QuickfindOther /\ UNCHANGED <<response, tod, port>>

QuickfindSend ==
    /\ state = "Quickfind" /\ quick_find.counter > 0 /\ ~quick_find.running
    /\ wire = Quiet                   \* kReceiveTimeOut since the last transmission
    /\ Transmit(DiscMute(quick_find.uid))
    /\ quick_find' = [quick_find EXCEPT !.running = TRUE]
    /\ Stay
    /\ QuickfindOther /\ UNCHANGED <<response, tod, rx>>

QuickfindInvalid ==
    /\ state = "Quickfind" /\ quick_find.counter > 0 /\ quick_find.running
    /\ Received
    /\ rx.data.kind # "mute"
    /\ Stay
    /\ QuickfindOther /\ UNCHANGED <<quick_find, tod, wire>>

QuickfindResponse ==
    /\ state = "Quickfind" /\ quick_find.counter > 0 /\ quick_find.running
    /\ Received
    /\ rx.data.kind = "mute"
    /\ tod' = IF rx.data.uid = quick_find.uid THEN Table!AddUid(tod, quick_find.uid) ELSE tod
    /\ quick_find' = [quick_find EXCEPT !.counter = QuikfindCounter, !.running = FALSE]
    /\ Goto("QuickfindDiscovery")
    /\ QuickfindOther /\ UNCHANGED wire

QuickfindTimeOut ==
    /\ state = "Quickfind" /\ quick_find.counter > 0 /\ quick_find.running
    /\ TimedOut
    /\ quick_find' = [quick_find EXCEPT !.counter = @ - 1, !.running = FALSE]
    /\ Stay
    /\ QuickfindOther /\ UNCHANGED <<tod, wire>>
-----------------------------------------------------------------------------
(* QUICKFIND_DISCOVERY: ask the same branch again.                         *)
QfdOther == UNCHANGED <<unmute, mute, single_device, search>>

QfdGiveUp ==
    /\ state = "QuickfindDiscovery" /\ quick_find_discovery.counter = 0
    /\ quick_find_discovery' = NotRunning(QuikfindDiscoveryCounter)
    /\ GotoLate("Discovery")
    /\ QfdOther /\ UNCHANGED <<quick_find, response, tod, port>>

QfdSend ==
    /\ state = "QuickfindDiscovery" /\ quick_find_discovery.counter > 0 /\ ~quick_find_discovery.running
    /\ wire = Quiet                   \* kReceiveTimeOut since the last transmission
    /\ Transmit(DiscBranch(discovery.lb, discovery.ub))
    /\ quick_find_discovery' = [quick_find_discovery EXCEPT !.running = TRUE]
    /\ Stay
    /\ QfdOther /\ UNCHANGED <<quick_find, response, tod, rx>>

QfdOneDevice ==
    /\ state = "QuickfindDiscovery" /\ quick_find_discovery.counter > 0 /\ quick_find_discovery.running
    /\ Received
    /\ rx.data.kind = "branch"
    /\ quick_find' = [quick_find EXCEPT !.uid = rx.data.uid]
    /\ quick_find_discovery' = NotRunning(QuikfindDiscoveryCounter)
    /\ GotoLate("Quickfind")
    /\ QfdOther /\ UNCHANGED <<tod, wire>>

QfdCollision ==
    /\ state = "QuickfindDiscovery" /\ quick_find_discovery.counter > 0 /\ quick_find_discovery.running
    /\ Received
    /\ rx.data.kind # "branch"
    /\ quick_find_discovery' = NotRunning(QuikfindDiscoveryCounter)
    /\ Goto("Dub")
    /\ QfdOther /\ UNCHANGED <<quick_find, tod, wire>>

\* Mutants: silence is not counted, the first silence ends the branch.
QfdForEver ==
    /\ state = "QuickfindDiscovery" /\ quick_find_discovery.counter > 0 /\ quick_find_discovery.running
    /\ TimedOut
    /\ quick_find_discovery' = NotRunning(quick_find_discovery.counter)
    /\ Stay
    /\ QfdOther /\ UNCHANGED <<quick_find, tod, wire>>

QfdOnce ==
    /\ state = "QuickfindDiscovery" /\ quick_find_discovery.counter > 0 /\ quick_find_discovery.running
    /\ TimedOut
    /\ quick_find_discovery' = NotRunning(0)
    /\ Stay
    /\ QfdOther /\ UNCHANGED <<quick_find, tod, wire>>

QfdTimeOut ==
    /\ state = "QuickfindDiscovery" /\ quick_find_discovery.counter > 0 /\ quick_find_discovery.running
    /\ TimedOut
    /\ quick_find_discovery' = NotRunning(quick_find_discovery.counter - 1)
    /\ Stay
    /\ QfdOther /\ UNCHANGED <<quick_find, tod, wire>>
-----------------------------------------------------------------------------
(* FINISHED: is_finished_ is read by the scheduler in the same Run().      *)
Finish ==
    /\ state = "Finished"
    /\ is_finished' = TRUE
    /\ NewState("Idle", FALSE)
    /\ UNCHANGED <<do_incremental, commands, search, response, tod, port>>

Process ==
    \/ LateResponse
    \/ UnmuteDone \/ UnmuteSend \/ UnmuteReceive \/ UnmuteTimeOut
    \/ MuteDone \/ MuteDeviceIsGone \/ MuteSend \/ MuteResponse \/ MuteTimeOut
    \/ DiscoveryAnswered \/ DiscoveryTimeOut \/ DiscoveryNoMore
    \/ DiscoveryTakeSingle \/ DiscoveryTakeBranch
    \/ SingleGiveUp \/ SingleSend \/ SingleResponse \/ SingleIgnore \/ SingleTimeOut
    \/ DubSilent \/ DubOneDevice \/ DubCollision
    \/ QuickfindGiveUp \/ QuickfindSend \/ QuickfindInvalid \/ QuickfindResponse \/ QuickfindTimeOut
    \/ QfdGiveUp \/ QfdSend \/ QfdOneDevice \/ QfdCollision \/ QfdTimeOut
    \/ Finish

(* The line: it deals with a request, and frames arrive, asked for or not. *)
Arrives(frame) == rx' = [data |-> frame, complete |-> TRUE]

LineStep ==
    /\ wire' \in {wire, Quiet}
    /\ \E frame \in Frame : rx' = rx \/ Arrives(frame)
    /\ UNCHANGED <<control, commands, search, response, tod>>

Command == Full \/ Incremental \/ IsFinished \/ Stop

Next == Command \/ Process \/ LineStep

Spec == Init /\ [][Next]_vars
-----------------------------------------------------------------------------
(* Properties.                                                             *)
Counter(max) == [counter : 0 .. max, running : BOOLEAN]
Larger(a, b) == IF a > b THEN a ELSE b
States == {"Idle", "Unmute", "Mute", "Discovery", "DiscoverySingleDevice", "Dub",
           "Quickfind", "QuickfindDiscovery", "LateResponse", "Finished"}
Branch == [lb : Uid, ub : Uid]

\* The type of every variable.
TypeOK ==
    /\ state \in States /\ saved_state \in States \ {"LateResponse"}
    /\ is_finished \in BOOLEAN /\ do_incremental \in BOOLEAN
    /\ unmute \in Counter(UnmuteCounter)
    /\ mute \in [tod_entries : 0 .. TableSize, counter : 0 .. MuteCounter, uid : Uid, running : BOOLEAN]
    /\ discovery \in [lb : Uid, ub : Uid, counter : 0 .. DiscoveryCounter, running : BOOLEAN]
    /\ stack \in Seq(Branch)
    /\ single_device \in Counter(Larger(MuteCounter, QuikfindDiscoveryCounter))
    /\ quick_find \in [counter : 0 .. QuikfindCounter, uid : Uid, running : BOOLEAN]
    /\ quick_find_discovery \in Counter(QuikfindDiscoveryCounter)
    /\ response \in BOOLEAN
    /\ tod \in Table!Tod /\ Len(tod.tod) <= TableSize
    /\ wire \in Wire
    /\ rx \in [data : Frame, complete : BOOLEAN]

\* The state the machine is in, or will be in after the late responses.
Phase == IF state = "LateResponse" THEN saved_state ELSE state

\* A branch has been taken from the stack and is still being searched.
BranchOpen ==
    \/ Phase = "Discovery" /\ discovery.running
    \/ Phase \in {"DiscoverySingleDevice", "Dub", "Quickfind", "QuickfindDiscovery"}

\* The assertion "Stack is full." of Push is never reached: whenever the
\* machine may split a branch there is room for both halves.
StackHasRoom == (Phase = "Dub" => Len(stack) + 2 <= TableSize) /\ Len(stack) <= TableSize

\* The branches still to be searched and the open one are not empty, lie in
\* the range of UIDs and do not overlap: nothing is searched twice.
BranchesDisjoint ==
    /\ \A i \in 1 .. Len(stack) : stack[i].lb <= stack[i].ub /\ stack[i].ub <= MaxUid
    /\ \A i, j \in 1 .. Len(stack) : i < j => stack[i].ub < stack[j].lb
    /\ BranchOpen => /\ discovery.lb <= discovery.ub /\ discovery.ub <= MaxUid
                     /\ \A i \in 1 .. Len(stack) : stack[i].ub < discovery.lb

\* The machine as its user sees it.  After Stop it still waits for the late
\* responses before it is idle.
JobState ==
    IF state = "Idle" THEN "idle"
    ELSE IF state = "LateResponse" /\ saved_state = "Idle" THEN "stopping"
    ELSE "running"

Job == INSTANCE DiscoveryJob WITH
           job <- JobState, finished <- is_finished, incremental <- do_incremental

\* The machine behaves as a discovery job: it begins only when idle, keeps the
\* type it began with, is not finished while it runs, and a discovery that was
\* stopped ends without ever being reported as finished.
ActsAsJob == Job!JobSpec
=============================================================================
