------------------------------ MODULE RdmLine -------------------------------
(***************************************************************************)
(* RdmDiscovery on a line of RDM responders.  The devices are not part of  *)
(* the repository: they do what the state machine expects of a responder   *)
(* (answer a DISC_MUTE addressed to them, answer a DISC_UNIQUE_BRANCH      *)
(* that covers them while they are not muted).  The line may lose a frame, *)
(* garble a discovery response, and an answer may come after the receive   *)
(* timeout; a scenario bounds how often each of these happens.  A frame    *)
(* that ArtNetNode::HandleRdmIn takes from the port while a discovery runs *)
(* is, to the state machine, a lost one.                                   *)
(***************************************************************************)
EXTENDS RdmDiscovery, FiniteSets

CONSTANT
    Scenarios       \* what may happen on the line, a set of Scenario

\* devices: the UIDs of the devices that can be plugged in; and how often a
\* frame is lost or garbled, an answer comes after the timeout, a device is
\* plugged in or unplugged, and a discovery is started and stopped.
Scenario == [devices : SUBSET (0 .. MaxUid), losses : Nat, lates : Nat,
             changes : Nat, runs : Nat, stops : Nat]

ASSUME ScenariosAssumption == Scenarios \subseteq Scenario

VARIABLES
    present, muted,     \* the devices on the line and those that are muted
    late,               \* a frame still to come, or NoFrame
    scenario,           \* one of Scenarios; never changes
    losses, lates, changes, runs, stops     \* what is left of the scenario

budgets  == <<losses, lates, changes, runs, stops>>
line     == <<present, muted, late, scenario, budgets>>
lineVars == <<vars, line>>

devices == scenario.devices

NoFrame == [kind |-> "none", uid |-> 0]

LineInit ==
    /\ Init
    /\ \E s \in Scenarios :
          /\ scenario = s
          /\ losses = s.losses /\ lates = s.lates /\ changes = s.changes
          /\ runs = s.runs /\ stops = s.stops
    /\ present \in SUBSET devices /\ muted \in SUBSET present
    /\ late = NoFrame
-----------------------------------------------------------------------------
Lose(n) == n <= losses /\ losses' = losses - n

\* The frame reaches the receive buffer in time, late, or not at all.
Reply(frame) ==
    \/ Arrives(frame) /\ UNCHANGED <<late, losses, lates>>
    \/ Lose(1) /\ UNCHANGED <<rx, late, lates>>
    \/ /\ late = NoFrame /\ lates > 0
       /\ late' = frame /\ lates' = lates - 1
       /\ UNCHANGED <<rx, losses>>

NoReply == UNCHANGED <<rx, late, losses, lates>>

Answered ==
    /\ wire' = Quiet
    /\ UNCHANGED <<control, commands, search, response, tod, present, scenario, changes, runs, stops>>

\* Every device unmutes itself but those that miss the broadcast.
DevicesUnMute ==
    /\ wire = DiscUnMute
    /\ Answered
    /\ muted' \in SUBSET muted
    /\ Lose(Cardinality(muted'))
    /\ UNCHANGED <<rx, late, lates>>

DevicesMute ==
    /\ wire.pid = "DISC_MUTE"
    /\ Answered
    /\ IF wire.lb = UidAll
       THEN muted' = present /\ NoReply
       ELSE IF wire.lb \notin present
       THEN UNCHANGED muted /\ NoReply
       ELSE \/ muted' = muted \cup {wire.lb} /\ Reply(MuteAck(wire.lb))
            \/ UNCHANGED <<muted, rx, late, lates>> /\ Lose(1)

Responders == {d \in present \ muted : wire.lb <= d /\ d <= wire.ub}

\* One device is heard or garbled; of several, the line carries a mixture or
\* the one that drowns the others.
DevicesBranch ==
    /\ wire.pid = "DISC_UNIQUE_BRANCH"
    /\ Answered
    /\ UNCHANGED muted
    /\ \/ Responders = {} /\ NoReply
       \/ \E d \in Responders : Reply(BranchAck(d))
       \/ Cardinality(Responders) > 1 /\ Reply(Garbled)
       \/ Cardinality(Responders) = 1 /\ Lose(1) /\ Arrives(Garbled) /\ UNCHANGED <<late, lates>>

LateArrival ==
    /\ late # NoFrame
    /\ Arrives(late)
    /\ late' = NoFrame
    /\ UNCHANGED <<control, commands, search, response, tod, wire, present, muted, scenario, budgets>>

\* Between two discoveries devices come, not muted, and go.
Plug ==
    /\ state = "Idle" /\ ~is_finished /\ changes > 0
    /\ \E d \in devices :
         \/ d \in present /\ present' = present \ {d} /\ muted' = muted \ {d}
         \/ d \notin present /\ present' = present \cup {d} /\ UNCHANGED muted
    /\ changes' = changes - 1
    /\ UNCHANGED <<vars, late, scenario, losses, lates, runs, stops>>

Devices == DevicesUnMute \/ DevicesMute \/ DevicesBranch

LineFull == runs > 0 /\ ~is_finished /\ Full /\ runs' = runs - 1
            /\ UNCHANGED <<present, muted, late, scenario, losses, lates, changes, stops>>

LineIncremental == runs > 0 /\ ~is_finished /\ Incremental /\ runs' = runs - 1
                   /\ UNCHANGED <<present, muted, late, scenario, losses, lates, changes, stops>>

LineStop == stops > 0 /\ Stop /\ stops' = stops - 1
            /\ UNCHANGED <<present, muted, late, scenario, losses, lates, changes, runs>>

LineIsFinished == IsFinished /\ UNCHANGED line

LineProcess == Process /\ UNCHANGED line

LineNext ==
    \/ LineFull \/ LineIncremental \/ LineStop
    \/ LineProcess \/ LineIsFinished
    \/ Devices \/ LateArrival \/ Plug

\* The super loop keeps calling Run(), and every request is dealt with.
LineSpec == LineInit /\ [][LineNext]_lineVars /\ WF_lineVars(LineProcess \/ LineIsFinished) /\ WF_lineVars(Devices)
-----------------------------------------------------------------------------
(* Properties.                                                             *)
InOpenBranch(d) ==
    \/ \E i \in 1 .. Len(stack) : stack[i].lb <= d /\ d <= stack[i].ub
    \/ BranchOpen /\ discovery.lb <= d /\ d <= discovery.ub

TableFull == Cardinality(Table!Entries(tod)) = TableSize

\* A late answer is not awaited long enough for these: QUICKFIND takes any
\* acknowledgement for the one it asked for.  And a request that is lost every
\* time it is repeated leaves its device muted, or not asked at all.
InTime    == scenario.lates = 0
FewLosses == \A counter \in {UnmuteCounter, MuteCounter, DiscoveryCounter,
                             QuikfindCounter, QuikfindDiscoveryCounter} : scenario.losses < counter

\* A device that is plugged in never falls out of the search: until the
\* discovery has ended it is in the table or in a branch still to be
\* searched, and when it has ended it is in the table, unless every entry of
\* that is taken.
NoDeviceLost ==
    InTime /\ FewLosses /\ (Phase # "Idle" \/ is_finished) =>
        TableFull \/ \A d \in present : d \in Table!Entries(tod) \/ InOpenBranch(d)

\* Once a discovery is past its MUTE state the table holds devices that are on
\* the line and no others.  (MUTE takes any frame for an acknowledgement, also
\* one that is late, or the answer to the last request of the device before.)
NoDeviceInvented ==
    /\ (InTime /\ FewLosses) \/ scenario.changes = 0
    /\ Phase \notin {"Idle", "Unmute", "Mute"}
    => Table!Entries(tod) \subseteq present

\* No device is left muted, and so deaf to the rest of the discovery, without
\* being in the table, unless it is the one being muted or the table is full.
NoDeviceSilenced ==
    InTime /\ FewLosses /\ Phase = "Discovery" /\ ~discovery.running /\ ~TableFull =>
        muted \subseteq Table!Entries(tod)

\* A discovery that has been started ends.
DiscoveryEnds == state # "Idle" ~> state = "Idle"
=============================================================================
