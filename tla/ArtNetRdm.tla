----------------------------- MODULE ArtNetRdm ------------------------------
(***************************************************************************)
(* The output gateway of an Art-Net node around rdm::Discovery: the        *)
(* commands of ArtTodControl, the callback Starting, and the DMX output    *)
(* that shares the line with the discovery: ArtDmx, ArtSync, DmxSend, and  *)
(* Dmx::SetPortDirection, which every RDM request goes through and which   *)
(* takes the output off the line.                                          *)
(*                                                                         *)
(* Every port is an output with a single ArtDmx source, RDM is enabled for *)
(* the node, and the node keeps its last state when the network falls      *)
(* silent (kNetworklossLastState).                                         *)
(***************************************************************************)
EXTENDS DiscoveryScheduler

CONSTANTS
    Address,        \* the port address of each port
    Networks        \* the networks the node may be in: what "sync", ArtSync,
                    \* and "silence", ten seconds of it, occur there

ASSUME NodeAssumption == DOMAIN Address = Port /\ Networks \subseteq SUBSET {"sync", "silence"}

VARIABLES
    discovery_disabled,     \* ports with bit 4 of good_output_b set
    transmitting,           \* output_port_[].is_transmitting
    pending,                \* output_port_[].is_data_pending
    synchronous,            \* state_.is_synchronous_mode
    loaded,                 \* ports whose dmxnode::Data has a length
    started,                \* DmxSend::started_
    on_line,                \* ports whose sv_port_state is kTx: DMX is sent
    emptied,                \* history: ports whose pending data a silence emptied
    network                 \* one of Networks; never changes

output   == <<transmitting, pending, synchronous, loaded, started, on_line, emptied>>
nodeVars == <<schedVars, output, discovery_disabled, network>>

At(address) == {p \in Port : Address[p] = address}
Rdm         == enabled              \* SetRdm keeps good_output_b and enabled_ together

\* ArtNetNode::Start: a full discovery of the ports that have RDM enabled.
NodeInit ==
    /\ JobInit
    /\ port_index = 0 /\ job_port = 0
    /\ enabled \in SUBSET Port
    /\ waiting = enabled /\ full = enabled /\ running = (enabled # {})
    /\ background = {} /\ timer = FALSE
    /\ discovery_disabled = {} /\ network \in Networks
    /\ transmitting = {} /\ pending = {} /\ synchronous = FALSE
    /\ loaded = {} /\ started = {} /\ on_line = {} /\ emptied = {}
-----------------------------------------------------------------------------
(* DmxSend.                                                                *)
StartOutput(ports) ==
    /\ started' = started \cup ports
    /\ on_line' = on_line \cup (ports \ started)

\* Mutants: one of the two records of the output is left as it was.
StopKeepsStarted(p) ==
    IF p \in transmitting
    THEN /\ transmitting' = transmitting \ {p}
         /\ on_line' = IF p \in started THEN on_line \ {p} ELSE on_line
         /\ UNCHANGED started
    ELSE UNCHANGED <<transmitting, started, on_line>>

StopKeepsTransmitting(p) ==
    IF p \in transmitting
    THEN /\ started' = started \ {p}
         /\ on_line' = IF p \in started THEN on_line \ {p} ELSE on_line
         /\ UNCHANGED transmitting
    ELSE UNCHANGED <<transmitting, started, on_line>>

StopOutputPort(p) ==
    IF p \in transmitting
    THEN /\ transmitting' = transmitting \ {p}
         /\ started' = started \ {p}
         /\ on_line' = IF p \in started THEN on_line \ {p} ELSE on_line
    ELSE UNCHANGED <<transmitting, started, on_line>>
-----------------------------------------------------------------------------
(* ArtTodControl.                                                          *)
AtcFlush(ports) ==
    Full(ports) /\ UNCHANGED <<jobVars, turn, enabled, bgVars, output, discovery_disabled>>

AtcEnd(ports) ==
    Stop(ports) /\ UNCHANGED <<turn, enabled, bgVars, output, discovery_disabled>>

AtcIncon(ports) ==
    /\ EnableBackground(ports)
    /\ discovery_disabled' = discovery_disabled \ ports
    /\ UNCHANGED <<jobVars, turn, enabled, asked, output>>

AtcIncoff(ports) ==
    /\ DisableBackground(ports)
    /\ discovery_disabled' = discovery_disabled \cup ports
    /\ UNCHANGED <<turn, enabled, output>>

HandleTodControl(address) ==
    LET ports == At(address) \cap Rdm
    IN  AtcFlush(ports) \/ AtcEnd(ports) \/ AtcIncon(ports) \/ AtcIncoff(ports)

SetRdm(p, enable) ==
    /\ IF enable THEN Enable(p) ELSE Disable(p)
    /\ UNCHANGED <<jobVars, turn, asked, bgVars, output, discovery_disabled>>
-----------------------------------------------------------------------------
(* The main loop.                                                          *)
\* Ports marked as having data pending that has no length.
Unfounded == pending \ loaded

NodeRun ==
    /\ Run
    /\ IF job' = "running" THEN StopOutputPort(job_port') /\ emptied' = emptied \ ({job_port'} \ Unfounded)
                           ELSE UNCHANGED <<transmitting, started, on_line, emptied>>
    /\ UNCHANGED <<pending, synchronous, loaded, discovery_disabled>>

\* A discovery sends a request: Dmx::SetPortDirection disables the data.
DiscoveryTransmit ==
    /\ job = "running"
    /\ on_line' = on_line \ {job_port}
    /\ UNCHANGED <<schedVars, transmitting, pending, synchronous, loaded, started, emptied, discovery_disabled>>

NodeTick == Tick /\ UNCHANGED <<output, discovery_disabled>>
-----------------------------------------------------------------------------
(* The data.                                                               *)
\* Ports taken for transmitting whose output is not started: the output of an
\* ArtDmx that is not synchronous does not start them again.
Unstarted == transmitting \ started

\* Mutant: the discovery of the port is not looked at.
HandleDmxAnyway(address) ==
    LET ports == At(address)
    IN  /\ loaded' = loaded \cup ports
        /\ IF synchronous
           THEN pending' = pending \cup ports /\ UNCHANGED <<transmitting, started, on_line>>
           ELSE /\ StartOutput(ports \ transmitting)
                /\ transmitting' = transmitting \cup ports
                /\ UNCHANGED pending
        /\ emptied' = emptied \ (ports \ Unstarted)
    /\ UNCHANGED <<schedVars, synchronous, discovery_disabled>>

HandleDmx(address) ==
    LET ports == {p \in At(address) : ~IsRunning(p)}
    IN  /\ loaded' = loaded \cup ports
        /\ IF synchronous
           THEN pending' = pending \cup ports /\ UNCHANGED <<transmitting, started, on_line>>
           ELSE /\ StartOutput(ports \ transmitting)
                /\ transmitting' = transmitting \cup ports
                /\ UNCHANGED pending
        /\ emptied' = emptied \ (ports \ Unstarted)
    /\ UNCHANGED <<schedVars, synchronous, discovery_disabled>>

\* Mutant: the data sent is still marked as pending.
SyncStaysPending ==
    /\ "sync" \in network
    /\ IF ~synchronous
       THEN synchronous' = TRUE /\ UNCHANGED <<transmitting, loaded, started, on_line, emptied>>
       ELSE /\ StartOutput(loaded)
            /\ loaded' = {}
            /\ emptied' = emptied \ loaded
            /\ transmitting' = transmitting \cup pending
            /\ UNCHANGED synchronous
    /\ UNCHANGED <<schedVars, pending, discovery_disabled>>

\* The first ArtSync only enters the synchronous mode.  An ArtSync is taken from
\* the sender of the last ArtDmx, for whatever address that was, so that one may
\* come before any data for these ports.
HandleSync ==
    /\ "sync" \in network
    /\ IF ~synchronous
       THEN synchronous' = TRUE /\ UNCHANGED <<transmitting, pending, loaded, started, on_line, emptied>>
       ELSE /\ StartOutput(loaded)
            /\ loaded' = {}
            /\ emptied' = emptied \ loaded
            /\ transmitting' = transmitting \cup pending
            /\ pending' = {}
            /\ UNCHANGED synchronous
    /\ UNCHANGED <<schedVars, discovery_disabled>>

\* The first packet after four seconds without an ArtSync.
SyncTimeOut ==
    /\ synchronous /\ synchronous' = FALSE
    /\ UNCHANGED <<schedVars, transmitting, pending, loaded, started, on_line, emptied, discovery_disabled>>

\* Ten seconds without a packet: the length of the data is cleared, the mark of
\* data pending is not.
SetNetworkDataLossCondition ==
    /\ "silence" \in network
    /\ synchronous' = FALSE
    /\ loaded' = {}
    /\ emptied' = emptied \cup pending
    /\ UNCHANGED <<schedVars, transmitting, pending, started, on_line, discovery_disabled>>

NodeNext ==
    \/ \E a \in {Address[p] : p \in Port} :
          \/ HandleTodControl(a)
          \/ HandleDmx(a)
    \/ \E p \in Port, enable \in BOOLEAN : SetRdm(p, enable)
    \/ NodeRun \/ DiscoveryTransmit \/ NodeTick
    \/ HandleSync \/ SyncTimeOut \/ SetNetworkDataLossCondition

NodeSpec == NodeInit /\ [][NodeNext /\ UNCHANGED network]_nodeVars
-----------------------------------------------------------------------------
\* Nothing is sent on a line whose discovery is under way but the discovery's
\* own requests: ArtDmx does not start an output there, and an output that
\* was started is found and stopped.  Only ArtSync does not look.
QuietLine == "sync" \notin network => \A p \in Port : IsRunning(p) => p \notin on_line

\* "received ArtDmx packets will be buffered and output": a port the node
\* takes for started sends, once its line is free of the discovery.
StartedSends == \A p \in started : IsRunning(p) \/ p \in on_line

\* It does where no ArtSync is sent.
StartedSendsUnsynced == "sync" \notin network => StartedSends

\* The assertion of DmxSend::Sync(port_index): when an ArtSync outputs the data
\* that is pending there is data, through time-outs of the synchronous mode and
\* discoveries, on all ports but those whose pending data a silence has emptied
\* and that had no ArtDmx since.  The mark of data pending outlives the silence,
\* and for these ports the assertion is false.
SyncHasData == [][HandleSync /\ synchronous => pending \subseteq loaded \cup emptied]_nodeVars

\* What ArtPollReply says of a port is so: one "transmitting" is started in
\* DmxSend, unless an ArtSync found its pending data emptied by a silence (it is
\* then marked as transmitting, and nothing is started); and bit 4, "Background
\* discovery is disabled", is not shown for one in the background discovery.
ReportTruthful ==
    /\ transmitting \subseteq started \cup emptied
    /\ discovery_disabled \cap background = {}
=============================================================================
