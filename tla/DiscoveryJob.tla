---------------------------- MODULE DiscoveryJob ----------------------------
(***************************************************************************)
(* What a user of rdm::discovery::StateMachine sees of it: whether a       *)
(* discovery is under way (IsRunning), whether one has ended and nobody    *)
(* asked yet (IsFinished), and of which type it was.  RdmDiscovery is      *)
(* shown to implement this; DiscoveryScheduler is built on it.             *)
(***************************************************************************)
VARIABLES
    job,         \* "idle"; "running"; "stopping": waiting for late responses
    finished,    \* is_finished_
    incremental  \* do_incremental_

jobVars == <<job, finished, incremental>>

JobInit == job = "idle" /\ finished = FALSE /\ incremental = FALSE

Begin(type) ==
    /\ job = "idle"
    /\ job' = "running" /\ finished' = FALSE /\ incremental' = type

\* The discovery has run to its end.
Complete == job = "running" /\ job' = "idle" /\ finished' = TRUE /\ UNCHANGED incremental

\* Stop waits for late responses, unless the machine was already doing so.
Halt ==
    /\ job # "idle"
    /\ job' \in {"stopping", "idle"} /\ finished' = FALSE /\ UNCHANGED incremental

Halted == job = "stopping" /\ job' = "idle" /\ UNCHANGED <<finished, incremental>>

Ask == finished /\ finished' = FALSE /\ UNCHANGED <<job, incremental>>

JobNext == (\E type \in BOOLEAN : Begin(type)) \/ Complete \/ Halt \/ Halted \/ Ask

JobSpec == JobInit /\ [][JobNext]_jobVars
=============================================================================
