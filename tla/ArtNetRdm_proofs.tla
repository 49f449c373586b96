-------------------------- MODULE ArtNetRdm_proofs ---------------------------
(***************************************************************************)
(* Theorems of DiscoveryScheduler and of ArtNetRdm, for any number of      *)
(* ports and addresses.  TurnOfJob and NothingForgotten are inductive as   *)
(* they stand.  A step of the node is a step of the scheduler, so what is  *)
(* proved of that holds of the node; the rest is about the output and      *)
(* rests on OutputInv.                                                     *)
(***************************************************************************)
EXTENDS ArtNetRdm, TLAPS

-----------------------------------------------------------------------------
(* The scheduler.                                                          *)
\* The ports are a ring.
LEMMA PortFacts ==
    /\ 0 \in Port
    /\ \A p \in Port : NextPort(p) \in Port
BY PortsAssumption DEF Port, NextPort

\* The turn is always that of a port.
LEMMA TurnAfterType ==
    ASSUME SchedulerTypeOK, NEW ended \in BOOLEAN
    PROVE  TurnAfter(ended) \in Port
BY PortFacts DEF TurnAfter, SchedulerTypeOK

\* No step of the scheduler leaves the types.
LEMMA SchedulerTypeStep ==
    ASSUME SchedulerTypeOK, [SchedulerNext]_schedVars
    PROVE  SchedulerTypeOK'
<1> USE DEF SchedulerTypeOK
<1>1. CASE Command
  <2>1. CASE \E p \in Port : (Enable(p) \/ Disable(p)) /\ UNCHANGED <<jobVars, turn, asked, bgVars>>
    BY <2>1 DEF Enable, Disable, jobVars, turn, asked, bgVars
  <2>2. CASE \E ports \in SUBSET Port : Full(ports) /\ UNCHANGED <<jobVars, turn, enabled, bgVars>>
    BY <2>2 DEF Full, Request, jobVars, turn, bgVars
  <2>3. CASE \E ports \in SUBSET Port : EnableBackground(ports) /\ UNCHANGED <<jobVars, turn, enabled, asked>>
    BY <2>3 DEF EnableBackground, jobVars, turn, asked
  <2>4. CASE \E ports \in SUBSET Port : DisableBackground(ports) /\ UNCHANGED <<turn, enabled>>
    BY <2>4 DEF DisableBackground, Stop, Halt, jobVars, turn, asked
  <2>5. CASE \E ports \in SUBSET Port : Stop(ports) /\ UNCHANGED <<turn, enabled, bgVars>>
    BY <2>5 DEF Stop, Halt, jobVars, turn, asked, bgVars
  <2> QED  BY <1>1, <2>1, <2>2, <2>3, <2>4, <2>5 DEF Command
<1>2. CASE Tick
  BY <1>2 DEF Tick, TimerBackGround, Incremental, Request, jobVars, turn, bgVars
<1>3. CASE Run
  <2>1. PICK ended \in BOOLEAN : Schedule(ended) /\ UNCHANGED <<enabled, bgVars>>
    BY <1>3 DEF Run
  <2>2. TurnAfter(ended) \in Port /\ NextPort(TurnAfter(ended)) \in Port
    BY TurnAfterType, PortFacts
  <2> QED  BY <2>1, <2>2 DEF Schedule, Rest, Start, PassTurn, turn, bgVars
<1>4. CASE UNCHANGED schedVars
  BY <1>4 DEF schedVars, jobVars, turn, asked, bgVars
<1> QED  BY <1>1, <1>2, <1>3, <1>4 DEF SchedulerNext

\* The scheduler's variables keep their types, for any number of ports.
THEOREM SchedulerTypeCorrect == SchedulerSpec => []SchedulerTypeOK
<1>1. SchedulerInit => SchedulerTypeOK
  BY PortFacts DEF SchedulerInit, JobInit, SchedulerTypeOK
<1>2. SchedulerTypeOK /\ [SchedulerNext]_schedVars => SchedulerTypeOK'
  BY SchedulerTypeStep
<1> QED  BY <1>1, <1>2, PTL DEF SchedulerSpec

\* No step of the scheduler breaks the assertion of Run.
LEMMA TurnStep ==
    ASSUME TurnOfJob, [SchedulerNext]_schedVars
    PROVE  TurnOfJob'
<1> USE DEF TurnOfJob
<1>1. CASE Command
  BY <1>1 DEF Command, Full, Request, EnableBackground, DisableBackground, Stop, Halt,
              jobVars, turn, asked, bgVars
<1>2. CASE Tick
  BY <1>2 DEF Tick, TimerBackGround, Incremental, Request, jobVars, turn
<1>3. CASE Run
  <2>1. CASE job = "running" /\ Schedule(TRUE)
    BY <2>1 DEF Schedule, Rest, Start, PassTurn
  <2>2. CASE job # "running" /\ Schedule(finished)
    BY <2>2 DEF Schedule, Rest, Start, PassTurn
  <2> QED  BY <1>3, <2>1, <2>2 DEF Run
<1>4. CASE UNCHANGED schedVars
  BY <1>4 DEF schedVars, jobVars, turn, asked
<1> QED  BY <1>1, <1>2, <1>3, <1>4 DEF SchedulerNext

\* The assertion port_index_ == port_index of Run holds, and the result of a
\* discovery is reported in the Run() in which it ends.
THEOREM ReportsItsOwnPort == SchedulerSpec => []TurnOfJob
<1>1. SchedulerInit => TurnOfJob
  BY DEF SchedulerInit, JobInit, TurnOfJob
<1>2. TurnOfJob /\ [SchedulerNext]_schedVars => TurnOfJob'
  BY TurnStep
<1> QED  BY <1>1, <1>2, PTL DEF SchedulerSpec

\* No step of the scheduler forgets a request or the timer.
LEMMA NothingForgottenStep ==
    ASSUME NothingForgotten, [SchedulerNext]_schedVars
    PROVE  NothingForgotten'
<1> USE DEF NothingForgotten
<1>1. CASE Command
  BY <1>1 DEF Command, Full, Request, EnableBackground, DisableBackground, Stop,
              jobVars, turn, asked, bgVars
<1>2. CASE Tick
  BY <1>2 DEF Tick, TimerBackGround, Incremental, Request, bgVars
<1>3. CASE Run
  BY <1>3 DEF Run, Schedule, Rest, Start, PassTurn, bgVars
<1>4. CASE UNCHANGED schedVars
  BY <1>4 DEF schedVars, asked, bgVars
<1> QED  BY <1>1, <1>2, <1>3, <1>4 DEF SchedulerNext

\* A scheduler that sleeps has no request waiting, and a background discovery
\* has its timer.
THEOREM NoRequestForgotten == SchedulerSpec => []NothingForgotten
<1>1. SchedulerInit => NothingForgotten
  BY DEF SchedulerInit, NothingForgotten
<1>2. NothingForgotten /\ [SchedulerNext]_schedVars => NothingForgotten'
  BY NothingForgottenStep
<1> QED  BY <1>1, <1>2, PTL DEF SchedulerSpec
-----------------------------------------------------------------------------
(* The node.                                                               *)
\* The strengthening.  Without ArtSync the three records of an output agree, and
\* a port whose line a discovery has is not started.  With it, data that is
\* pending has a length unless a silence emptied it, and that alone makes a port
\* transmit in the report but not in DmxSend.
OutputInv ==
    /\ "sync" \notin network =>
          /\ on_line = started /\ started = transmitting
          /\ pending = {} /\ synchronous = FALSE
          /\ \A p \in Port : IsRunning(p) => p \notin started
    /\ pending \subseteq loaded \cup emptied
    /\ ReportTruthful

\* What the node does to the discovery is what the scheduler allows.
LEMMA NodeStepIsSchedulerStep ==
    ASSUME SchedulerTypeOK, [NodeNext /\ UNCHANGED network]_nodeVars
    PROVE  [SchedulerNext]_schedVars
<1>1. CASE \E a \in {Address[p] : p \in Port} : HandleTodControl(a)
  <2>1. PICK a \in {Address[p] : p \in Port} : HandleTodControl(a)
    BY <1>1
  <2>2. At(a) \cap Rdm \in SUBSET Port
    BY DEF At
  <2> QED  BY <2>1, <2>2 DEF HandleTodControl, AtcFlush, AtcEnd, AtcIncon, AtcIncoff, SchedulerNext, Command
<1>2. CASE \E a \in {Address[p] : p \in Port} : HandleDmx(a)
  BY <1>2 DEF HandleDmx
<1>3. CASE \E p \in Port, enable \in BOOLEAN : SetRdm(p, enable)
  BY <1>3 DEF SetRdm, SchedulerNext, Command
<1>4. CASE NodeRun \/ NodeTick
  BY <1>4 DEF NodeRun, NodeTick, SchedulerNext
<1>5. CASE DiscoveryTransmit \/ HandleSync \/ SyncTimeOut \/ SetNetworkDataLossCondition
  BY <1>5 DEF DiscoveryTransmit, HandleSync, SyncTimeOut, SetNetworkDataLossCondition
<1>6. CASE UNCHANGED nodeVars
  BY <1>6 DEF nodeVars
<1> QED  BY <1>1, <1>2, <1>3, <1>4, <1>5, <1>6 DEF NodeNext

\* The discovery of the node keeps the promises of the scheduler: the result of
\* a discovery is that of its own port, and no request is forgotten.
THEOREM NodeSchedules == NodeSpec => [](SchedulerTypeOK /\ TurnOfJob /\ NothingForgotten)
<1>1. NodeInit => SchedulerTypeOK /\ TurnOfJob /\ NothingForgotten
  BY PortFacts DEF NodeInit, JobInit, SchedulerTypeOK, TurnOfJob, NothingForgotten
<1>2. SchedulerTypeOK /\ TurnOfJob /\ NothingForgotten /\ [NodeNext /\ UNCHANGED network]_nodeVars
        => (SchedulerTypeOK /\ TurnOfJob /\ NothingForgotten)'
  BY NodeStepIsSchedulerStep, SchedulerTypeStep, TurnStep, NothingForgottenStep
<1> QED  BY <1>1, <1>2, PTL DEF NodeSpec

\* A discovery that starts in Run starts on a port; one that does not leaves
\* nothing running.
LEMMA RunEndsJob ==
    ASSUME SchedulerTypeOK, Run
    PROVE  (job' = "running" /\ job_port' \in Port) \/ job' = "idle"
<1>1. PICK ended \in BOOLEAN : Schedule(ended)
  BY DEF Run, SchedulerTypeOK
<1>2. TurnAfter(ended) \in Port
  BY TurnAfterType
<1> QED  BY <1>1, <1>2 DEF Schedule, Rest, Start, PassTurn

\* No step of the node breaks the strengthened invariant.
LEMMA OutputStep ==
    ASSUME SchedulerTypeOK, OutputInv, [NodeNext /\ UNCHANGED network]_nodeVars
    PROVE  OutputInv'
<1> USE DEF OutputInv, ReportTruthful, IsRunning
<1>1. CASE \E a \in {Address[p] : p \in Port} : HandleTodControl(a)
  <2>1. PICK a \in {Address[p] : p \in Port} : HandleTodControl(a) /\ UNCHANGED network
    BY <1>1 DEF NodeNext, nodeVars
  <2>2. CASE AtcFlush(At(a) \cap Rdm)
    BY <2>1, <2>2 DEF AtcFlush, jobVars, turn, bgVars, output
  <2>3. CASE AtcEnd(At(a) \cap Rdm)
    BY <2>1, <2>3 DEF AtcEnd, Stop, Halt, jobVars, turn, bgVars, asked, output
  <2>4. CASE AtcIncon(At(a) \cap Rdm)
    BY <2>1, <2>4 DEF AtcIncon, EnableBackground, jobVars, turn, asked, output
  <2>5. CASE AtcIncoff(At(a) \cap Rdm)
    BY <2>1, <2>5 DEF AtcIncoff, DisableBackground, Stop, Halt, Rdm, jobVars, turn, asked, output
  <2> QED  BY <2>1, <2>2, <2>3, <2>4, <2>5 DEF HandleTodControl
<1>2. CASE \E a \in {Address[p] : p \in Port} : HandleDmx(a)
  <2>1. PICK a \in {Address[p] : p \in Port} : HandleDmx(a) /\ UNCHANGED network
    BY <1>2 DEF NodeNext, nodeVars
  <2> QED  BY <2>1 DEF HandleDmx, StartOutput, Unstarted, schedVars, jobVars, turn, bgVars
<1>3. CASE \E p \in Port, enable \in BOOLEAN : SetRdm(p, enable)
  BY <1>3 DEF SetRdm, Enable, Disable, jobVars, turn, bgVars, output, NodeNext, nodeVars
<1>4. CASE NodeRun
  <2>1. (job' = "running" /\ job_port' \in Port) \/ job' = "idle"
    BY <1>4, RunEndsJob DEF NodeRun
  <2>2. UNCHANGED <<pending, loaded, synchronous, discovery_disabled, background, network>>
    BY <1>4 DEF NodeRun, Run, bgVars, NodeNext, nodeVars
  <2>3. CASE job' = "running" /\ job_port' \in Port
    <3>1. StopOutputPort(job_port') /\ emptied' = emptied \ ({job_port'} \ Unfounded)
      BY <1>4, <2>3 DEF NodeRun
    <3>2. transmitting' = transmitting \ {job_port'}
      BY <3>1 DEF StopOutputPort
    <3>3. started \ {job_port'} \subseteq started'
      BY <3>1 DEF StopOutputPort
    <3>4. pending' \subseteq loaded' \cup emptied'
      BY <2>2, <3>1 DEF Unfounded
    <3>5. transmitting' \subseteq started' \cup emptied'
      BY <3>1, <3>2, <3>3
    <3>6. "sync" \notin network => /\ on_line' = started' /\ started' = transmitting'
                                  /\ \A p \in Port : IsRunning(p)' => p \notin started'
      BY <3>1, <3>2 DEF StopOutputPort
    <3> QED  BY <2>2, <3>4, <3>5, <3>6
  <2>4. CASE job' = "idle"
    BY <1>4, <2>2, <2>4 DEF NodeRun
  <2> QED  BY <2>1, <2>3, <2>4
<1>5. CASE DiscoveryTransmit
  BY <1>5 DEF DiscoveryTransmit, SchedulerTypeOK, schedVars, jobVars, turn, bgVars, NodeNext, nodeVars
<1>6. CASE NodeTick
  BY <1>6 DEF NodeTick, Tick, jobVars, turn, bgVars, output, NodeNext, nodeVars
<1>7. CASE HandleSync
  BY <1>7 DEF HandleSync, StartOutput, schedVars, jobVars, turn, bgVars, NodeNext, nodeVars
<1>8. CASE SyncTimeOut
  BY <1>8 DEF SyncTimeOut, schedVars, jobVars, turn, bgVars, NodeNext, nodeVars
<1>9. CASE SetNetworkDataLossCondition
  BY <1>9 DEF SetNetworkDataLossCondition, schedVars, jobVars, turn, bgVars, NodeNext, nodeVars
<1>10. CASE UNCHANGED nodeVars
  BY <1>10 DEF nodeVars, schedVars, jobVars, turn, bgVars, output
<1> QED  BY <1>1, <1>2, <1>3, <1>4, <1>5, <1>6, <1>7, <1>8, <1>9, <1>10 DEF NodeNext

\* The strengthened invariant holds, whatever the network does.
THEOREM OutputSafety == NodeSpec => [](SchedulerTypeOK /\ OutputInv)
<1>1. NodeInit => SchedulerTypeOK /\ OutputInv
  BY PortFacts DEF NodeInit, JobInit, SchedulerTypeOK, OutputInv, ReportTruthful, IsRunning
<1>2. SchedulerTypeOK /\ OutputInv /\ [NodeNext /\ UNCHANGED network]_nodeVars
        => (SchedulerTypeOK /\ OutputInv)'
  BY NodeStepIsSchedulerStep, SchedulerTypeStep, OutputStep
<1> QED  BY <1>1, <1>2, PTL DEF NodeSpec

\* Without ArtSync nothing but a discovery is sent on the line it has, whatever
\* ArtDmx, commands and silences there are.
THEOREM LineIsQuiet == NodeSpec => []QuietLine
<1>1. OutputInv => QuietLine
  BY DEF OutputInv, QuietLine
<1> QED  BY <1>1, OutputSafety, PTL

\* Without ArtSync a port that is started sends, also after a discovery.
THEOREM OutputComesBack == NodeSpec => []StartedSendsUnsynced
<1>1. OutputInv => StartedSendsUnsynced
  BY DEF OutputInv, StartedSendsUnsynced, StartedSends
<1> QED  BY <1>1, OutputSafety, PTL

\* What ArtPollReply says of transmitting and of the background discovery is so,
\* but for a port whose pending data a silence had emptied when an ArtSync came.
THEOREM ReportsAreTruthful == NodeSpec => []ReportTruthful
<1>1. OutputInv => ReportTruthful
  BY DEF OutputInv
<1> QED  BY <1>1, OutputSafety, PTL

\* The assertion of DmxSend::Sync: pending data has a length when an ArtSync
\* comes, on every port but those whose data a silence emptied while it was
\* pending, which have had no ArtDmx since.
THEOREM PendingHasData == NodeSpec => SyncHasData
<1>1. OutputInv => [HandleSync /\ synchronous => pending \subseteq loaded \cup emptied]_nodeVars
  BY DEF OutputInv
<1> QED  BY <1>1, OutputSafety, PTL DEF SyncHasData
=============================================================================
