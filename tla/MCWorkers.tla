------------------------------ MODULE MCWorkers ------------------------------
(* Small instances of the components of a worker, of the local runtime and *)
(* of the commands of an operator. They do not interact here: a behaviour  *)
(* is one of them, the focus. The handoff, the extended module, has its    *)
(* own variables, so that TLC checks the invariant that                    *)
(* WorkspaceHandoff_proofs proves; the others take turns on one set, so    *)
(* that a state stays small. MCInit makes a component's variables what its *)
(* own Init says and the rest of that set 0.                               *)
EXTENDS WorkspaceHandoff

VARIABLES focus,
          v1, v2, v3, v4, v5, v6, v7, v8, v9, v10, v11, v12, v13, v14, v15

Control == INSTANCE WorkerControl
    WITH Questions <- {"q1"}, Values <- {"x", "y"}, Requests <- {"a", "b"}, Targets <- {1, 2},
         MaxFaults <- 1, host <- v1, storage <- v2, request <- v3, down <- v4, up <- v5,
         bridge <- v6, driver <- v7, native <- v8, faults <- v9
Native == INSTANCE NativeSession
    WITH LastNative <- 3, Uses <- {"fork", "agents", "functions"}, Pipe <- 2, MaxFaults <- 1,
         native <- v1, input <- v2, out <- v3, host <- v4, view <- v5, buffer <- v6, start <- v7,
         cancel <- v8, ckpt <- v9, driver <- v10, faults <- v11
Local == INSTANCE LocalSession
    WITH LastTurn <- 2, MaxFaults <- 2, hosted <- v1, asked <- v2, attempt <- v3, saved <- v4,
         writes <- v5, snap <- v6, runtime <- v7, native <- v8, worker <- v9, tails <- v10,
         cancelling <- v11, op <- v12, said <- v13, faults <- v14
Runtime == INSTANCE LocalRuntime
    WITH Sessions <- {"s1", "s2"}, MaxFaults <- 1, backend <- v1, capacity <- v2, claim <- v3,
         storage <- v4, endpoint <- v5, slot <- v6, machine <- v7, orphan <- v8, connections <- v9,
         known <- v10, poisoned <- v11, retiring <- v12, op <- v13, stopped <- v14, faults <- v15
Pi == INSTANCE PiHarness
    WITH Harnesses <- {1, 2}, LastTurn <- 1, LastSeq <- 5,
         Profiles <- {{"effect"}, {"function", "steer"}, {"child"}}, Replacements <- 1,
         MaxFaults <- 1, uses <- v1, hosted <- v2, disk <- v3, harness <- v4, ran <- v5,
         granted <- v6, faults <- v7
\* Any two of backend, repository and environment in each combination.
MachineJobs ==
    {job \in [backend : {"microvm", "ec2"}, repo : BOOLEAN, managed : BOOLEAN, valid : BOOLEAN] :
        job.valid => (job.backend = "ec2" <=> job.repo = job.managed)}
Machine == INSTANCE WorkerMachine
    WITH LastMachine <- 2, LastLogin <- 2, Jobs <- MachineJobs, MaxFaults <- 2, job <- v1, record <- v2, machine <- v3,
         sup <- v4, server <- v5, mounted <- v6, runner <- v7, cmd <- v8, ws <- v9, prepared <- v10,
         login <- v11, faults <- v12
Installation == INSTANCE Quickstart
    WITH LastSetup <- 2, MaxFaults <- 3, files <- v1, cloud <- v2, vms <- v3, secrets <- v4,
         setups <- v5, command <- v6, faults <- v7
Admin == INSTANCE ConnectionAdmin
    WITH Clis <- {"cli1", "cli2"}, Handlers <- {"h1", "h2"}, Connections <- {"c1", "c2"},
         Accounts <- {"x", "y"}, Agents <- {"a1", "a2"}, Free <- "free", LastCommand <- 2,
         LastAuth <- 1, Ttl <- 1, LastTick <- 1, LastPolicy <- 2,
         Profiles <- {{"slack-events"}, {"connect", "reconnect"}, {"policy"}}, MaxFaults <- 1,
         uses <- v1, row <- v2, sets <- v3, owned <- v4, routed <- v5, auths <- v6, cli <- v7,
         late <- v8, callback <- v9, installs <- v10, clock <- v11, started <- v12, faults <- v13

ASSUME
    /\ Assumptions
    /\ Control!Assumptions
    /\ Native!Assumptions
    /\ Local!Assumptions
    /\ Runtime!Assumptions
    /\ Pi!Assumptions
    /\ Machine!Assumptions
    /\ Installation!Assumptions
    /\ Admin!Assumptions

shared == <<v1, v2, v3, v4, v5, v6, v7, v8, v9, v10, v11, v12, v13, v14, v15>>
mcvars == <<focus, vars, shared>>

MCInit ==
    /\ Init
    /\ \/ /\ focus = "handoff"
          /\ v1 = 0 /\ v2 = 0 /\ v3 = 0 /\ v4 = 0 /\ v5 = 0 /\ v6 = 0 /\ v7 = 0 /\ v8 = 0
          /\ v9 = 0 /\ v10 = 0 /\ v11 = 0 /\ v12 = 0 /\ v13 = 0 /\ v14 = 0 /\ v15 = 0
       \/ /\ focus = "control" /\ Control!Init
          /\ v10 = 0 /\ v11 = 0 /\ v12 = 0 /\ v13 = 0 /\ v14 = 0 /\ v15 = 0
       \/ /\ focus = "native" /\ Native!Init
          /\ v12 = 0 /\ v13 = 0 /\ v14 = 0 /\ v15 = 0
       \/ /\ focus = "session" /\ Local!Init
          /\ v15 = 0
       \/ /\ focus = "runtime" /\ Runtime!Init
       \/ /\ focus = "pi" /\ Pi!Init
          /\ v8 = 0 /\ v9 = 0 /\ v10 = 0 /\ v11 = 0 /\ v12 = 0 /\ v13 = 0 /\ v14 = 0 /\ v15 = 0
       \/ /\ focus = "machine" /\ Machine!Init
          /\ v13 = 0 /\ v14 = 0 /\ v15 = 0
       \/ /\ focus = "installation" /\ Installation!Init
          /\ v8 = 0 /\ v9 = 0 /\ v10 = 0 /\ v11 = 0 /\ v12 = 0 /\ v13 = 0 /\ v14 = 0 /\ v15 = 0
       \/ /\ focus = "admin" /\ Admin!Init
          /\ v14 = 0 /\ v15 = 0

MCNext ==
    \/ focus = "handoff" /\ Next /\ UNCHANGED <<focus, shared>>
    \/ focus = "control" /\ Control!Next /\ UNCHANGED <<focus, vars, v10, v11, v12, v13, v14, v15>>
    \/ focus = "native" /\ Native!Next /\ UNCHANGED <<focus, vars, v12, v13, v14, v15>>
    \/ focus = "session" /\ Local!Next /\ UNCHANGED <<focus, vars, v15>>
    \/ focus = "runtime" /\ Runtime!Next /\ UNCHANGED <<focus, vars>>
    \/ focus = "pi" /\ Pi!Next /\ UNCHANGED <<focus, vars, v8, v9, v10, v11, v12, v13, v14, v15>>
    \/ focus = "machine" /\ Machine!Next /\ UNCHANGED <<focus, vars, v13, v14, v15>>
    \/ focus = "installation" /\ Installation!Next /\ UNCHANGED <<focus, vars, v8, v9, v10, v11, v12, v13, v14, v15>>
    \/ focus = "admin" /\ Admin!Next /\ UNCHANGED <<focus, vars, v14, v15>>

MCSpec == MCInit /\ [][MCNext]_mcvars

-----------------------------------------------------------------------------

\* The types of the component that acts.
TypesOK ==
    /\ focus = "handoff" => TypeOK
    /\ focus = "control" => Control!TypeOK
    /\ focus = "native" => Native!TypeOK
    /\ focus = "session" => Local!TypeOK
    /\ focus = "runtime" => Runtime!TypeOK
    /\ focus = "pi" => Pi!TypeOK
    /\ focus = "machine" => Machine!TypeOK
    /\ focus = "installation" => Installation!TypeOK
    /\ focus = "admin" => Admin!TypeOK

\* WorkerControl: a command takes effect once, and no turn starts without its storage.
CommandsAreKept == focus = "control" => Control!CommandsApplyOnce /\ Control!TurnsHaveStorage
\* NativeSession: the harness runs one native turn, and a checkpoint holds all of what it did.
NativeTurnsAreKept == focus = "native" => Native!OneNativeTurn /\ Native!CheckpointIsWhole
\* LocalSession and LocalRuntime: what is reported cancelled or stopped is gone, and a
\* workspace has one machine.
LocalWorkStops ==
    /\ focus = "session" => Local!CancelledIsStopped
    /\ focus = "runtime" => Runtime!OneMachine /\ Runtime!StoppedMeansGone
\* PiHarness: an effect runs once, a turn that is over is quiet, and what is published is stored.
PiIsKept == focus = "pi" => Pi!PiIsKept
\* WorkerMachine: a workspace is whole and has one user, and a refreshed login is not lost.
MachineIsSafe == focus = "machine" => Machine!MachineIsSafe
\* Quickstart and ConnectionAdmin: an installation that was destroyed is gone and nothing of
\* it forgotten, and what an operator was told of connections is so.
OperatorsAreTold ==
    /\ focus = "installation" =>
         Installation!DestroyedIsGone /\ Installation!NothingIsForgotten /\ Installation!DestroyIsNotRefused
    /\ focus = "admin" => Admin!AdminIsSafe
=============================================================================
