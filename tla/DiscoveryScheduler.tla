------------------------- MODULE DiscoveryScheduler -------------------------
(***************************************************************************)
(* class rdm::Discovery: one state machine shared by the ports of the      *)
(* node, a bit per port for what is enabled, waiting, of type full and in  *)
(* the background, and the software timer of the background discovery.     *)
(* The operations take the set of ports the caller applies them to.        *)
(***************************************************************************)
EXTENDS DiscoveryJob, Integers

CONSTANT kPorts

ASSUME PortsAssumption == kPorts \in Nat \ {0}

VARIABLES
    port_index,     \* the scheduler's turn
    job_port,       \* port_index_ of the state machine
    enabled, waiting,
    full,           \* type_: the ports whose waiting discovery is a full one
    running,
    background, timer   \* s_bg_discovery; s_timer_id is not -1

asked    == <<waiting, full, running>>
bgVars   == <<background, timer>>
turn     == <<port_index, job_port>>
schedVars == <<jobVars, turn, enabled, asked, bgVars>>

Port == 0 .. kPorts - 1

IsRunning(p) == job # "idle" /\ job_port = p

SchedulerInit ==
    /\ JobInit
    /\ port_index = 0 /\ job_port = 0
    /\ enabled = {} /\ waiting = {} /\ full = {} /\ running = FALSE
    /\ background = {} /\ timer = FALSE
-----------------------------------------------------------------------------
(* A request for ports that are not enabled is ignored.                    *)
\* Mutant: the scheduler is not woken up.
RequestAsleep(ports, type) ==
    LET accepted == ports \cap enabled
    IN  /\ waiting' = waiting \cup accepted
        /\ full' = IF type = "full" THEN full \cup accepted ELSE full \ accepted
        /\ UNCHANGED running

Request(ports, type) ==
    LET accepted == ports \cap enabled
    IN  /\ waiting' = waiting \cup accepted
        /\ full' = IF type = "full" THEN full \cup accepted ELSE full \ accepted
        /\ running' = (running \/ accepted # {})

Full(ports)        == Request(ports, "full")
Incremental(ports) == Request(ports, "incremental")

\* Only the discovery under way can be stopped, and only on its own port.
Stop(ports) ==
    IF job # "idle" /\ job_port \in ports \cap enabled
    THEN Halt /\ waiting' = waiting \ {job_port} /\ UNCHANGED <<full, running>>
    ELSE UNCHANGED <<jobVars, asked>>

\* The timer is added for any port, enabled or not.
EnableBackground(ports) ==
    /\ background' = background \cup (ports \cap enabled)
    /\ timer' = (timer \/ ports # {})

\* Mutant: the timer is deleted although other ports are in the background.
DisableBackgroundOfAll(ports) ==
    /\ background' = background \ (ports \cap enabled)
    /\ timer' = (timer /\ ports = {})
    /\ Stop(ports)

DisableBackground(ports) ==
    /\ background' = background \ (ports \cap enabled)
    /\ timer' = (timer /\ (ports = {} \/ background' # {}))
    /\ Stop(ports)

Enable(p)  == enabled' = enabled \cup {p}
Disable(p) == enabled' = enabled \ {p}

TimerBackGround ==
    /\ timer
    /\ Incremental(background)
-----------------------------------------------------------------------------
(* Run: one step of the state machine, then, once it is idle, whose turn   *)
(* it is next.  A step that leaves the discovery under way is a stuttering *)
(* step; the others are one action, with `ended' what is_finished_ is      *)
(* when the scheduler asks.                                                *)
NextPort(p) == (p + 1) % kPorts

\* The port whose discovery has just ended gives up its turn.
TurnAfter(ended) ==
    IF ~ended THEN port_index ELSE IF waiting = {} THEN 0 ELSE NextPort(port_index)

\* Mutant: the turn moves on when a discovery starts.
StartAndPass(p) ==
    /\ job' = "running" /\ finished' = FALSE /\ incremental' = (p \notin full)
    /\ job_port' = p /\ port_index' = NextPort(p)
    /\ waiting' = waiting \ {p}
    /\ UNCHANGED running

Start(p) ==
    /\ job' = "running" /\ finished' = FALSE /\ incremental' = (p \notin full)
    /\ job_port' = p /\ port_index' = p
    /\ waiting' = waiting \ {p}
    /\ UNCHANGED running

\* Mutant: the turn stays on a port that does not wait.
PassNoTurn(p) ==
    /\ job' = "idle" /\ finished' = FALSE
    /\ port_index' = p
    /\ UNCHANGED <<incremental, job_port, waiting, running>>

\* Somebody waits, but not on the port whose turn it is.
PassTurn(p) ==
    /\ job' = "idle" /\ finished' = FALSE
    /\ port_index' = NextPort(p)
    /\ UNCHANGED <<incremental, job_port, waiting, running>>

Rest(ended) ==
    /\ job' = "idle" /\ finished' = FALSE
    /\ port_index' = TurnAfter(ended)
    /\ running' = ~ended
    /\ UNCHANGED <<incremental, job_port, waiting>>

Schedule(ended) ==
    /\ UNCHANGED full
    /\ \/ /\ ~running
          /\ job' = "idle" /\ finished' = ended
          /\ UNCHANGED <<incremental, turn, waiting, running>>
       \/ running /\ waiting = {} /\ Rest(ended)
       \/ running /\ TurnAfter(ended) \in waiting /\ Start(TurnAfter(ended))
       \/ running /\ waiting # {} /\ TurnAfter(ended) \notin waiting /\ PassTurn(TurnAfter(ended))

Run ==
    /\ \/ job = "running" /\ Schedule(TRUE)
       \/ job # "running" /\ Schedule(finished)
    /\ UNCHANGED <<enabled, bgVars>>
-----------------------------------------------------------------------------
Command ==
    \/ \E p \in Port :
          \/ Enable(p) /\ UNCHANGED <<jobVars, turn, asked, bgVars>>
          \/ Disable(p) /\ UNCHANGED <<jobVars, turn, asked, bgVars>>
    \/ \E ports \in SUBSET Port :
          \/ Full(ports) /\ UNCHANGED <<jobVars, turn, enabled, bgVars>>
          \/ EnableBackground(ports) /\ UNCHANGED <<jobVars, turn, enabled, asked>>
          \/ DisableBackground(ports) /\ UNCHANGED <<turn, enabled>>
          \/ Stop(ports) /\ UNCHANGED <<turn, enabled, bgVars>>

Tick == TimerBackGround /\ UNCHANGED <<jobVars, turn, enabled, bgVars>>

SchedulerNext == Command \/ Tick \/ Run

\* The main loop calls Run and the timers for ever; RdmLine shows that a
\* discovery comes to its end.
SchedulerFairness == WF_schedVars(Run) /\ WF_schedVars(Tick)

SchedulerSpec == SchedulerInit /\ [][SchedulerNext]_schedVars /\ SchedulerFairness
-----------------------------------------------------------------------------
\* The type of every variable.
SchedulerTypeOK ==
    /\ job \in {"idle", "running", "stopping"} /\ finished \in BOOLEAN /\ incremental \in BOOLEAN
    /\ port_index \in Port /\ job_port \in Port
    /\ enabled \subseteq Port /\ waiting \subseteq Port /\ full \subseteq Port
    /\ running \in BOOLEAN
    /\ background \subseteq Port /\ timer \in BOOLEAN

\* The assertion port_index_ == port_index of Run: the discovery that ends is
\* that of the port whose turn it is, so its result is reported for that port,
\* and it is reported in the Run() in which it ends.
TurnOfJob == (job # "idle" => running /\ port_index = job_port) /\ ~finished

\* No request is left behind a scheduler that sleeps, and the background
\* discovery always has its timer.
NothingForgotten == (waiting # {} => running) /\ (background # {} => timer)

HaltStep == Halt /\ UNCHANGED <<turn, running>>

\* A port stopped and asked for again and again keeps its turn, so the next
\* two are promised from when discoveries are no longer stopped.
HaltsEnd == <>[][~HaltStep]_schedVars

\* Whatever the other ports are asked for, a waiting discovery is started.
RequestsServed == HaltsEnd => \A p \in Port : p \in waiting ~> p \notin waiting

\* A port left in the background discovery is discovered again and again.
BackgroundRecurs ==
    HaltsEnd => \A p \in Port : <>[](p \in background \cap enabled) => []<>IsRunning(p)
=============================================================================
