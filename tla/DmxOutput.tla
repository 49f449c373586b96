----------------------------- MODULE DmxOutput ------------------------------
(***************************************************************************)
(* The DMX512 output of the driver, Dmx, and the calls DmxSend and the     *)
(* Art-Net node make to it from the main loop.  A port has two buffers;    *)
(* the timer interrupt makes the break and the mark and starts the DMA,    *)
(* and the end of the DMA is an interrupt too.  An RDM request goes out    *)
(* through the same timer and the same DMA, and its last interrupt turns   *)
(* the line around to receive.                                             *)
(*                                                                         *)
(* The main loop runs the steps in `todo' one at a time, and an interrupt  *)
(* may come between any two of them.                                       *)
(***************************************************************************)
EXTENDS Naturals, Sequences, FiniteSets, SequencesExt

CONSTANTS
    NumPorts,
    Value,          \* what a frame may hold
    Zero, FullOn,   \* the frames of Blackout and FullOn
    Scenarios       \* the calls that occur, of "sync", "rdm", "style" and "fill"
                    \* and whether they wait for an RDM request ("turns"), the
                    \* ports they are about and the data that is set

Port   == 0 .. NumPorts - 1
Frames == Value \cup {Zero, FullOn}

ASSUME OutputAssumption ==
    /\ NumPorts \in Nat \ {0} /\ Zero # FullOn /\ Value \cap {Zero, FullOn} = {}
    /\ Scenarios \subseteq [calls : SUBSET {"sync", "rdm", "style", "fill", "turns"},
                             ports : SUBSET Port, values : SUBSET Value]

VARIABLES
    port_state,     \* sv_port_state
    direction,      \* port_direction_
    output_style, has_continuous_output,
    state,          \* s_DmxTxBuffer[].state
    rdm,            \* s_RdmTxBuffer[].state
    timer,          \* ports whose compare value lies ahead
    wire,           \* the DMA of each port
    data, write_index, read_index, data_pending,
    started,        \* DmxSend::started_
    todo,           \* what the main loop still has to do of the call it is in
    scenario        \* one of Scenarios; never changes

ports   == <<port_state, direction>>
styles  == <<output_style, has_continuous_output>>
sending == <<state, rdm, timer, wire>>
buffers == <<data, write_index, read_index, data_pending>>
vars    == <<ports, styles, sending, buffers, started, todo, scenario>>

Step(op, p, arg) == [op |-> op, port |-> p, arg |-> arg]
Now(op, p)       == todo # <<>> /\ Head(todo).op = op /\ Head(todo).port = p
Then(steps)      == todo' = steps \o Tail(todo)
If(condition, steps) == IF condition THEN steps ELSE <<>>
ForEachPort(Steps(_)) == FlattenSeq([i \in 1 .. NumPorts |-> Steps(i - 1)])

Quiet == [kind |-> "none", index |-> 0, head |-> Zero, copying |-> FALSE]

Init ==
    /\ port_state = [p \in Port |-> "kIdle"] /\ direction = [p \in Port |-> "kInput"]
    /\ output_style = [p \in Port |-> "kDelta"] /\ has_continuous_output = FALSE
    /\ state = [p \in Port |-> "kIdle"] /\ rdm = [p \in Port |-> "kIdle"]
    /\ timer = {} /\ wire = [p \in Port |-> Quiet]
    /\ data = [p \in Port |-> [i \in {0, 1} |-> [head |-> Zero, tail |-> Zero]]]
    /\ write_index = [p \in Port |-> 0] /\ read_index = [p \in Port |-> 0]
    /\ data_pending = {} /\ started = {} /\ todo = <<>>
    /\ scenario \in Scenarios
-----------------------------------------------------------------------------
(* Interrupts.                                                             *)
\* DmaRestartDmxTx: the data that was set last, if it has not been sent.
DmaStart(p) ==
    LET index == write_index[p]
    IN  /\ read_index' = [read_index EXCEPT ![p] = index]
        /\ wire' = [wire EXCEPT ![p] =
             [kind |-> "dmx", index |-> index, head |-> data[p][index].head,
              copying |-> Now("CopyHead", p) \/ Now("CopyTail", p)]]
        /\ UNCHANGED <<data, write_index, data_pending>>

\* The timer interrupt of a DMX512 output.
DmxTimer(p) ==
    /\ p \in timer /\ state[p] # "kIdle"
    /\ CASE state[p] = "kDmxInter" ->
              state' = [state EXCEPT ![p] = "kDmxBreak"] /\ UNCHANGED <<timer, wire, buffers>>
         [] state[p] = "kDmxBreak" ->
              state' = [state EXCEPT ![p] = "kDmxMab"] /\ UNCHANGED <<timer, wire, buffers>>
         [] state[p] = "kDmxMab" ->
              timer' = timer \ {p} /\ DmaStart(p) /\ UNCHANGED state
    /\ UNCHANGED <<rdm, ports>>

\* The timer interrupt of an RDM request.  Its last one turns the line around:
\* SetPortDirection<kInput, true>.
RdmTimer(p) ==
    /\ p \in timer /\ state[p] = "kIdle"
    /\ CASE rdm[p] = "kIdle" -> timer' = timer \ {p} /\ UNCHANGED <<rdm, wire, ports>>
         [] rdm[p] = "kBreak" ->
              rdm' = [rdm EXCEPT ![p] = "kMab"] /\ UNCHANGED <<timer, wire, ports>>
         [] rdm[p] = "kMab" ->
              /\ timer' = timer \ {p}
              /\ wire' = [wire EXCEPT ![p] = [Quiet EXCEPT !.kind = "rdm"]]
              /\ UNCHANGED <<rdm, ports>>
         [] rdm[p] = "kDirection" ->
              /\ timer' = timer \ {p} /\ rdm' = [rdm EXCEPT ![p] = "kIdle"]
              /\ direction' = [direction EXCEPT ![p] = "kInput"]
              /\ port_state' = [port_state EXCEPT ![p] = "kRx"]
              /\ UNCHANGED wire
    /\ UNCHANGED <<state, buffers>>

\* Mutant: the next frame of a continuous output is not scheduled.
DmaEndNoTimer(p) ==
    /\ wire[p].kind # "none" /\ wire' = [wire EXCEPT ![p] = Quiet]
    /\ CASE state[p] # "kIdle" /\ output_style[p] = "kDelta" ->
              state' = [state EXCEPT ![p] = "kIdle"] /\ UNCHANGED <<rdm, timer>>
         [] state[p] # "kIdle" /\ output_style[p] = "kConstant" ->
              state' = [state EXCEPT ![p] = "kDmxInter"] /\ UNCHANGED <<rdm, timer>>
         [] state[p] = "kIdle" /\ rdm[p] # "kIdle" ->
              /\ rdm' = [rdm EXCEPT ![p] = "kDirection"] /\ timer' = timer \cup {p}
              /\ UNCHANGED state
         [] OTHER -> UNCHANGED <<state, rdm, timer>>
    /\ UNCHANGED <<ports, buffers>>

DmaEnd(p) ==
    /\ wire[p].kind # "none" /\ wire' = [wire EXCEPT ![p] = Quiet]
    /\ CASE state[p] # "kIdle" /\ output_style[p] = "kDelta" ->
              state' = [state EXCEPT ![p] = "kIdle"] /\ UNCHANGED <<rdm, timer>>
         [] state[p] # "kIdle" /\ output_style[p] = "kConstant" ->
              /\ state' = [state EXCEPT ![p] = "kDmxInter"] /\ timer' = timer \cup {p}
              /\ UNCHANGED rdm
         [] state[p] = "kIdle" /\ rdm[p] # "kIdle" ->
              /\ rdm' = [rdm EXCEPT ![p] = "kDirection"] /\ timer' = timer \cup {p}
              /\ UNCHANGED state
         [] OTHER -> UNCHANGED <<state, rdm, timer>>
    /\ UNCHANGED <<ports, buffers>>

Interrupt(p) ==
    (DmxTimer(p) \/ RdmTimer(p) \/ DmaEnd(p)) /\ UNCHANGED <<styles, started, todo, scenario>>
-----------------------------------------------------------------------------
(* The steps of the main loop: the port.                                   *)
SetPortDirection(p, enable) ==
    /\ Now("SetPortDirection", p)
    /\ direction' = [direction EXCEPT ![p] = "kOutput"]
    /\ Then(If(direction[p] # "kOutput" \/ ~enable, <<Step("DataDisable", p, "")>>)
              \o If(enable, <<Step("DataEnable", p, "")>>))
    /\ UNCHANGED <<port_state, styles, sending, buffers, started>>

\* An assertion wants port_state[p] to be kIdle: see EnabledOnce.
DataEnable(p) ==
    /\ Now("DataEnable", p)
    /\ IF direction[p] = "kOutput"
       THEN /\ port_state' = [port_state EXCEPT ![p] = "kTx"]
            /\ state' = [state EXCEPT ![p] = "kIdle"]
            /\ Then(<<Step("SetOutputStyle", p, output_style[p])>>)
       ELSE /\ port_state' = [port_state EXCEPT ![p] = "kRx"]
            /\ Then(<<>>) /\ UNCHANGED state
    /\ UNCHANGED <<direction, styles, rdm, timer, wire, buffers, started>>

\* Mutants: the end of the frame is not waited for; the state of the port stays.
DataDisableAtOnce(p) ==
    /\ Now("DataDisable", p) /\ Then(<<>>)
    /\ port_state' = [port_state EXCEPT ![p] = "kIdle"]
    /\ UNCHANGED <<direction, styles, sending, buffers, started>>

DataDisableKeepsState(p) ==
    /\ Now("DataDisable", p)
    /\ Then(If(port_state[p] # "kIdle" /\ direction[p] = "kOutput", <<Step("Drain", p, "")>>))
    /\ UNCHANGED <<ports, styles, sending, buffers, started>>

DataDisable(p) ==
    /\ Now("DataDisable", p)
    /\ port_state' = [port_state EXCEPT ![p] = "kIdle"]
    /\ Then(If(port_state[p] # "kIdle" /\ direction[p] = "kOutput", <<Step("Drain", p, "")>>))
    /\ UNCHANGED <<direction, styles, sending, buffers, started>>

\* Mutant: only an output that has stopped is waited for.
DrainIdle(p) ==
    /\ Now("Drain", p) /\ Then(<<>>)
    /\ state[p] = "kIdle"
    /\ UNCHANGED <<ports, styles, sending, buffers, started>>

\* The wait of DataDisable, which takes a continuous output after its frame.
Drain(p) ==
    /\ Now("Drain", p) /\ Then(<<>>)
    /\ state[p] = "kIdle" \/ (state[p] = "kDmxInter" /\ wire[p] = Quiet)
    /\ state' = [state EXCEPT ![p] = "kIdle"]
    /\ UNCHANGED <<ports, styles, rdm, timer, wire, buffers, started>>

\* A start waits until the UART has sent what it has.
StartDmxOutput(p) ==
    /\ Now("StartDmxOutput", p) /\ Then(<<>>)
    /\ wire[p] = Quiet
    /\ state' = [state EXCEPT ![p] = "kDmxBreak"] /\ timer' = timer \cup {p}
    /\ UNCHANGED <<ports, styles, rdm, wire, buffers, started>>

RdmTransmit(p) ==
    /\ Now("RdmTransmit", p) /\ Then(<<>>)
    /\ wire[p] = Quiet
    /\ rdm' = [rdm EXCEPT ![p] = "kBreak"] /\ timer' = timer \cup {p}
    /\ UNCHANGED <<ports, styles, state, wire, buffers, started>>

SetOutputStyle(p, style) ==
    /\ Now("SetOutputStyle", p)
    /\ output_style' = [output_style EXCEPT ![p] = style]
    /\ has_continuous_output' = (\E q \in Port : output_style'[q] = "kConstant")
    /\ IF style = "kDelta" THEN Then(<<>>)
       ELSE IF has_continuous_output
       THEN Then(ForEachPort(LAMBDA q : <<Step("Halt", q, "")>>)
                   \o ForEachPort(LAMBDA q : <<Step("Resume", q, "")>>))
       ELSE Then(If(direction[p] = "kOutput", <<Step("StartDmxOutput", p, "")>>))
    /\ UNCHANGED <<ports, sending, buffers, started>>

\* The bodies of the two loops of SetOutputStyle.
IsContinuous(p) == output_style[p] = "kConstant" /\ direction[p] = "kOutput"

Halt(p) ==
    /\ Now("Halt", p) /\ Then(If(IsContinuous(p), <<Step("DataDisable", p, "")>>))
    /\ UNCHANGED <<ports, styles, sending, buffers, started>>

Resume(p) ==
    /\ Now("Resume", p) /\ Then(If(IsContinuous(p), <<Step("StartDmxOutput", p, "")>>))
    /\ UNCHANGED <<ports, styles, sending, buffers, started>>
-----------------------------------------------------------------------------
(* The steps of the main loop: the data.                                   *)
\* Mutant: always the first buffer.
TakeFirst(p) ==
    /\ Now("TakeBuffer", p) /\ Then(<<>>)
    /\ data_pending' = data_pending \cup {p}
    /\ UNCHANGED <<ports, styles, sending, data, write_index, read_index, started>>

\* SetSendDataInternal: take the buffer that is not being sent, then copy the
\* data into it.
TakeBuffer(p) ==
    /\ Now("TakeBuffer", p) /\ Then(<<>>)
    /\ write_index' = [write_index EXCEPT ![p] = 1 - read_index[p]]
    /\ data_pending' = data_pending \cup {p}
    /\ UNCHANGED <<ports, styles, sending, data, read_index, started>>

CopyHead(p, v) ==
    /\ Now("CopyHead", p) /\ Then(<<>>)
    /\ data' = [data EXCEPT ![p][write_index[p]].head = v]
    /\ UNCHANGED <<ports, styles, sending, write_index, read_index, data_pending, started>>

CopyTail(p, v) ==
    /\ Now("CopyTail", p) /\ Then(<<>>)
    /\ data' = [data EXCEPT ![p][write_index[p]].tail = v]
    /\ UNCHANGED <<ports, styles, sending, write_index, read_index, data_pending, started>>

MayStart(p) == port_state[p] = "kTx" /\ output_style[p] = "kDelta" /\ state[p] = "kIdle"

StartSendStyleDirect(p) ==
    /\ Now("StartSendStyleDirect", p)
    /\ Then(If(MayStart(p), <<Step("StartDmxOutput", p, "")>>))
    /\ UNCHANGED <<ports, styles, sending, buffers, started>>

Sync(p) ==
    /\ Now("Sync", p)
    /\ Then(If(p \in data_pending /\ MayStart(p), <<Step("StartDmxOutput", p, "")>>))
    /\ data_pending' = data_pending \ {p}
    /\ UNCHANGED <<ports, styles, sending, data, write_index, read_index, started>>

\* The body of the loops of Blackout and FullOn; the first buffer is filled.
Fill(p, v) ==
    /\ Now("Fill", p)
    /\ Then(If(direction[p] = "kOutput",
               <<Step("DataDisable", p, ""), Step("Clear", p, v), Step("DataEnable", p, "")>>))
    /\ UNCHANGED <<ports, styles, sending, buffers, started>>

Clear(p, v) ==
    /\ Now("Clear", p) /\ Then(<<>>)
    /\ data' = [data EXCEPT ![p][0] = [head |-> v, tail |-> v]]
    /\ UNCHANGED <<ports, styles, sending, write_index, read_index, data_pending, started>>

\* DmxSend::Start and DmxSend::Stop.
Start(p) ==
    /\ Now("Start", p)
    /\ started' = started \cup {p}
    /\ Then(If(p \notin started, <<Step("SetPortDirection", p, TRUE)>>))
    /\ UNCHANGED <<ports, styles, sending, buffers>>

\* Mutant: the port stays marked as started.
StopKeepsStarted(p) ==
    /\ Now("Stop", p)
    /\ Then(If(p \in started, <<Step("SetPortDirection", p, FALSE)>>))
    /\ UNCHANGED <<ports, styles, sending, buffers, started>>

Stop(p) ==
    /\ Now("Stop", p)
    /\ started' = started \ {p}
    /\ Then(If(p \in started, <<Step("SetPortDirection", p, FALSE)>>))
    /\ UNCHANGED <<ports, styles, sending, buffers>>

MainStep ==
    /\ todo # <<>> /\ UNCHANGED scenario
    /\ LET p == Head(todo).port
            arg == Head(todo).arg
       IN  \/ SetPortDirection(p, arg) \/ DataEnable(p) \/ DataDisable(p) \/ Drain(p)
           \/ StartDmxOutput(p) \/ RdmTransmit(p)
           \/ SetOutputStyle(p, arg) \/ Halt(p) \/ Resume(p)
           \/ TakeBuffer(p) \/ CopyHead(p, arg) \/ CopyTail(p, arg)
           \/ StartSendStyleDirect(p) \/ Sync(p)
           \/ Fill(p, arg) \/ Clear(p, arg)
           \/ Start(p) \/ Stop(p)
-----------------------------------------------------------------------------
(* The calls.                                                              *)
Occurs(call) == call \in scenario.calls

SetData(p, v) == <<Step("TakeBuffer", p, ""), Step("CopyHead", p, v), Step("CopyTail", p, v)>>

Call(steps) ==
    /\ todo = <<>> /\ todo' = steps
    /\ UNCHANGED <<ports, styles, sending, buffers, started, scenario>>

\* Whether a call may be made for a port: in "turns" it has no RDM request out,
\* or one that was lost and that the caller has timed out.
Free(p) == Occurs("turns") => rdm[p] = "kIdle" \/ (p \notin timer /\ wire[p] = Quiet)

\* ArtDmx: DataOutput, then DmxSend::Start.
HandleDmx(p, v) ==
    /\ Free(p)
    /\ Call(SetData(p, v) \o <<Step("StartSendStyleDirect", p, ""), Step("Start", p, "")>>)

\* ArtSync: DmxSend::Sync of the ports that have data, then of all.
HandleSync(some, v) ==
    /\ Occurs("sync") /\ \A p \in some : Free(p)
    /\ Call(ForEachPort(LAMBDA p : If(p \in some, SetData(p, v)))
              \o ForEachPort(LAMBDA p : <<Step("Sync", p, "")>>)
              \o ForEachPort(LAMBDA p : If(p \in some, <<Step("Start", p, "")>>)))

\* Mutant: the output is stopped after the request.
HandleRdmThenStop(p) ==
    /\ Occurs("rdm") /\ Free(p)
    /\ Call(<<Step("RdmTransmit", p, ""), Step("Stop", p, "")>>)

\* ArtRdm: StopOutputPort, then Rdm::TransmitRaw.
HandleRdm(p) ==
    /\ Occurs("rdm") /\ Free(p)
    /\ Call(<<Step("Stop", p, ""), Step("SetPortDirection", p, FALSE), Step("RdmTransmit", p, "")>>)

\* ArtAddress.
HandleStyle(p, style) ==
    /\ Occurs("style") /\ output_style[p] # style /\ Free(p)
    /\ Call(<<Step("SetOutputStyle", p, style)>>)

\* The network is lost: Blackout or FullOn.
HandleDataLoss(v) ==
    /\ Occurs("fill") /\ \A p \in Port : Free(p)
    /\ Call(ForEachPort(LAMBDA p : <<Step("Fill", p, v)>>))

Calls ==
    \/ \E p \in scenario.ports, v \in scenario.values : HandleDmx(p, v)
    \/ \E some \in SUBSET scenario.ports \ {{}}, v \in scenario.values : HandleSync(some, v)
    \/ \E p \in scenario.ports : HandleRdm(p)
    \/ \E p \in scenario.ports, style \in {"kDelta", "kConstant"} : HandleStyle(p, style)
    \/ \E v \in {Zero, FullOn} : HandleDataLoss(v)

Next == Calls \/ MainStep \/ \E p \in Port : Interrupt(p)

\* The interrupts come.  The main loop gets on, and sees a state of an interrupt
\* that comes back again and again: it polls, and the time between two frames is
\* at least that of a slot.
Spec == Init /\ [][Next]_vars /\ SF_vars(MainStep) /\ \A p \in Port : WF_vars(Interrupt(p))
-----------------------------------------------------------------------------
\* The two buffers keep a frame on the line apart from the data that is set
\* meanwhile: a frame whose DMA starts while no data is being copied for the
\* port goes out as it was set.
FrameWhole ==
    (Occurs("rdm") => Occurs("turns")) /\ ~(Occurs("style") /\ Occurs("fill")) =>
       \A p \in Port :
          LET frame == data[p][wire[p].index]
          IN  wire[p].kind = "dmx" /\ ~wire[p].copying =>
                 frame.head = wire[p].head /\ frame.tail = wire[p].head

\* A DMX512 frame and an RDM request never share the line, as long as the
\* calls leave a port alone while its request is out and every style is delta.
LineNotShared ==
    Occurs("turns") /\ ~Occurs("style") =>
       \A p \in Port : state[p] # "kIdle" => rdm[p] = "kIdle"

\* "Stop DMX if was running": a port that is stopped sends no more, when every
\* style is delta.  (A change to the style constant restarts other ports, and a
\* Blackout while a request is out may enable a stopped port, which the next
\* ArtSync then starts.)
StoppedIsQuiet ==
    /\ ~Occurs("style") /\ todo = <<>>
    /\ Occurs("rdm") /\ Occurs("sync") /\ Occurs("fill") => Occurs("turns")
    => \A p \in Port \ started : state[p] = "kIdle"

\* "data is transmitting": a port that is started drives the line, when the calls
\* leave a port alone while its RDM request is out.  (If they do not, the last
\* interrupt of the request turns the line away from the output.  A change of
\* style may lose a request of another port, which is then taken for timed out
\* while its interrupts are still to come.)
StartedIsOnLine ==
    /\ Occurs("turns") /\ todo = <<>>
    /\ Occurs("style") => ~Occurs("fill") /\ Cardinality(scenario.ports) = 1
    => \A p \in started : direction[p] = "kOutput"

\* The assertion of DataEnable, which holds unless a Blackout finds a port whose
\* RDM request is out, or was lost to a change of style.
EnabledOnce ==
    Occurs("turns") /\ ~(Occurs("style") /\ Occurs("fill")) =>
       \A p \in Port : Now("DataEnable", p) => port_state[p] = "kIdle"

\* No call waits for ever for an interrupt that does not come.
CallsReturn == todo # <<>> ~> todo = <<>>

\* New data of a continuous output that is started is sent, unless Blackout or
\* a change of style starts the output again and again.
NewDataSent == ~Occurs("fill") /\ <>[][UNCHANGED output_style]_vars => \A p \in Port :
    (p \in started /\ output_style[p] = "kConstant" /\ read_index[p] # write_index[p])
       ~> (read_index[p] = write_index[p] \/ p \notin started \/ output_style[p] = "kDelta")
=============================================================================
