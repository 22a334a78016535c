---------------------------- MODULE WorkerMachine ----------------------------
(***************************************************************************)
(* The machines of one Session, one for each of its Runs in turn: a        *)
(* MicroVM, whose lifecycle server the service calls through hooks, or an  *)
(* EC2 instance, whose supervisor calls the same hooks (runtime-server,    *)
(* ec2-supervisor, worker-launch), the runner the server spawns (main.ts)  *)
(* and the Git workspace it prepares on the Session's durable storage      *)
(* (workspace.ts) with one child process at a time (process.ts).           *)
(*                                                                         *)
(* The storage and the stored login outlive every machine; whatever runs   *)
(* on a machine ends with it.  The Run record is RunLifecycle's: here only *)
(* the part a machine reads and writes.                                    *)
(***************************************************************************)
EXTENDS Naturals, Sequences

CONSTANTS
    LastMachine,  \* bound on the machines, numbered in the order of their Runs
    LastLogin,    \* bound on the logins issued; the first is the stored one
    Jobs,         \* what the Session may ask for
    MaxFaults     \* bound on repeated hooks, failed mounts, crashes and commands that fail

Job == [backend : {"microvm", "ec2"}, repo : BOOLEAN, managed : BOOLEAN, valid : BOOLEAN]
Assumptions == Jobs \subseteq Job /\ LastMachine \in Nat \ {0} /\ LastLogin \in Nat \ {0} /\ MaxFaults \in Nat
Machines == 1 .. LastMachine

VARIABLES
    job,          \* the backend, a repository or none, a managed environment or not, acceptable options
    record,       \* the Run: the machine it was dispatched to, its status, and the machines at work
                  \* in the workspace when their Run was reported lost
    machine,      \* none, running, suspended or gone
    sup,          \* the EC2 supervisor
    server,       \* the lifecycle server: down, up or shutting, and whether its end was asked for
    mounted,
    runner,       \* the runner's place, and whether it was told to stop; at "faulty" the agent has failed,
                  \* at "closing" the Run is over and the login is left to store
    cmd,          \* the child process: the step it is at and whether it overran
    ws,           \* the durable workspace
    prepared,     \* the managed environment was ready once
    login,        \* the stored login, the newest issued, the copies the machines hold, the refreshed ones
    faults

vars == <<job, record, machine, sup, server, mounted, runner, cmd, ws, prepared, login, faults>>

Bare == [git |-> FALSE, fetched |-> FALSE, tree |-> "none", head |-> FALSE, base |-> FALSE, setup |-> "none", work |-> 0]
Off == [pc |-> "none", abort |-> FALSE]
Quiet == [step |-> "none", over |-> FALSE]

\* Types of the records, of the machines and of what runs on them.
TypeOK ==
    /\ job \in Jobs
    /\ record \in [at : 0 .. LastMachine, left : SUBSET Machines,
                   status : {"idle", "dispatching", "attached", "running", "succeeded", "failed"}]
    /\ machine \in [Machines -> {"none", "running", "suspended", "gone"}]
    /\ sup \in [Machines -> {"off", "waiting", "booting", "ready", "driving", "stopping"}]
    /\ server \in [Machines -> [state : {"down", "up", "shutting"}, asked : BOOLEAN]]
    /\ mounted \in [Machines -> BOOLEAN]
    /\ \A m \in Machines : runner[m].abort \in BOOLEAN /\ cmd[m].over \in BOOLEAN
    /\ ws.tree \in {"none", "part", "whole"} /\ ws.setup \in {"none", "part", "whole"} /\ ws.work \in 0 .. LastMachine
    /\ prepared \in BOOLEAN
    /\ login.stored \in 1 .. LastLogin /\ login.latest \in 1 .. LastLogin /\ login.fresh \subseteq Machines
    /\ faults \in 0 .. MaxFaults

Init ==
    /\ job \in Jobs
    /\ record = [at |-> 0, left |-> {}, status |-> "idle"]
    /\ machine = [m \in Machines |-> "none"] /\ sup = [m \in Machines |-> "off"]
    /\ server = [m \in Machines |-> [state |-> "down", asked |-> FALSE]]
    /\ mounted = [m \in Machines |-> FALSE]
    /\ runner = [m \in Machines |-> Off] /\ cmd = [m \in Machines |-> Quiet]
    /\ ws = Bare /\ prepared = FALSE
    /\ login = [stored |-> 1, latest |-> 1, copy |-> [m \in Machines |-> 0], fresh |-> {}]
    /\ faults = 0

Fault == faults < MaxFaults /\ faults' = faults + 1
storage == <<ws, prepared>>
guest == <<mounted, runner, cmd>>
Runs(m) == machine[m] = "running"
Goto(m, pc) == runner' = [runner EXCEPT ![m].pc = pc]
At(m, pc) == Runs(m) /\ runner[m].pc = pc
Alive(m) == runner[m].pc \notin {"none", "exited"}
Own(m, statuses) == record.at = m /\ record.status \in statuses
\* Something of the machine is in the workspace: its runner, or a command that outlived it.
RunnerWorks(m) == runner[m].pc \notin {"none", "exited", "waiting", "closing"}
Works(m) == RunnerWorks(m) \/ cmd[m] # Quiet
Over == record.status \in {"idle", "succeeded", "failed"}

-----------------------------------------------------------------------------
(* The service: machines are started, attached, suspended and ended.       *)

\* start: the client token is the execution's generation, so a repeated call makes no second machine.
StartMachine(m) ==
    /\ Over /\ m = record.at + 1
    /\ record' = [record EXCEPT !.at = m, !.status = "dispatching"]
    /\ machine' = [machine EXCEPT ![m] = "running"]
    /\ IF job.backend = "ec2"
       THEN sup' = [sup EXCEPT ![m] = "waiting"] /\ UNCHANGED server
       ELSE server' = [server EXCEPT ![m].state = "up"] /\ UNCHANGED sup
    /\ UNCHANGED <<job, guest, storage, login, faults>>

\* attachExecution: the dispatcher records the machine it was given, or fails first.
Attach ==
    /\ record.status = "dispatching"
    /\ \/ record' = [record EXCEPT !.status = "attached"] /\ UNCHANGED faults
       \/ Fault /\ record' = [record EXCEPT !.status = "failed"]
    /\ UNCHANGED <<job, machine, sup, server, guest, storage, login>>

\* The machine is no more, and all that ran on it.
End(m) ==
    /\ machine' = [machine EXCEPT ![m] = "gone"]
    /\ sup' = [sup EXCEPT ![m] = "off"]
    /\ server' = [server EXCEPT ![m].state = "down"]
    /\ mounted' = [mounted EXCEPT ![m] = FALSE]
    /\ runner' = [runner EXCEPT ![m] = Off] /\ cmd' = [cmd EXCEPT ![m] = Quiet]
    /\ login' = [login EXCEPT !.copy[m] = 0, !.fresh = @ \ {m}]

\* Its own terminator, the stop that follows an expiry, or an instance that shuts down when its supervisor has ended.
EndAsked(m) ==
    /\ Runs(m)
    /\ \/ IF job.backend = "microvm" THEN server[m].asked ELSE sup[m] = "stopping" /\ server[m].state = "down"
       \/ m \in record.left
    /\ End(m) /\ UNCHANGED <<job, record, storage, faults>>

\* The service ends it.
EndUnasked(m) ==
    /\ machine[m] \in {"running", "suspended"}
    /\ Fault /\ End(m) /\ UNCHANGED <<job, record, storage>>

\* inspect, of a Run whose heartbeat is old: "inactive" is a MicroVM whose server has no runner.
Inactive(m) == job.backend = "microvm" /\ server[m].state = "up" /\ ~Alive(m)
\* The reconciler fails a Run whose machine is gone or inactive, and one whose worker is there
\* and was not heard of for an hour.
FindLost ==
    LET m == record.at IN
    /\ m # 0 /\ record.status \in {"attached", "running"}
    /\ \/ /\ machine[m] = "gone" \/ (Runs(m) /\ Inactive(m))
          /\ UNCHANGED faults
       \/ Runs(m) /\ Alive(m) /\ Fault
    /\ record' = [record EXCEPT !.status = "failed", !.left = @ \union {k \in {m} : Works(k)}]
    /\ UNCHANGED <<job, machine, sup, server, guest, storage, login>>
\* The next heartbeat of a worker whose Run is over is refused: onAuthorityLost.
HeartbeatRefused(m) ==
    /\ Runs(m) /\ RunnerWorks(m) /\ ~Own(m, {"attached", "running"}) /\ ~runner[m].abort
    /\ runner' = [runner EXCEPT ![m].abort = TRUE]
    /\ UNCHANGED <<job, record, machine, sup, server, mounted, cmd, storage, login, faults>>

\* terminate: the service's hook stops the runner first; the runner hears it and may yet be killed.
TerminateHook(m) ==
    /\ Runs(m) /\ job.backend = "microvm" /\ server[m].state = "up" /\ ~server[m].asked
    /\ Fault \/ (m \in record.left /\ UNCHANGED faults)
    /\ server' = [server EXCEPT ![m].asked = TRUE]
    /\ runner' = [runner EXCEPT ![m].abort = Alive(m)]
    /\ UNCHANGED <<job, record, machine, sup, mounted, cmd, storage, login>>

\* suspend, and resume, which mounts the storage again if it is not.
Suspend(m) ==
    /\ At(m, "agent") /\ job.backend = "microvm" /\ server[m].state = "up"
    /\ Fault /\ machine' = [machine EXCEPT ![m] = "suspended"]
    /\ UNCHANGED <<job, record, sup, server, guest, storage, login>>
Resume(m) ==
    /\ machine[m] = "suspended" /\ machine' = [machine EXCEPT ![m] = "running"]
    /\ mounted' = [mounted EXCEPT ![m] = TRUE]
    /\ UNCHANGED <<job, record, sup, server, runner, cmd, storage, login, faults>>

-----------------------------------------------------------------------------
(* The supervisor of an instance.                                          *)

\* It waits until the Run is attached to this machine, and for no other Run.
SupervisorReads(m) ==
    /\ Runs(m) /\ sup[m] = "waiting" /\ ~Own(m, {"dispatching"})
    /\ sup' = [sup EXCEPT ![m] = IF Own(m, {"attached"}) THEN "booting" ELSE "stopping"]
    /\ server' = [server EXCEPT ![m].state = IF Own(m, {"attached"}) THEN "up" ELSE "down"]
    /\ UNCHANGED <<job, record, machine, guest, storage, login, faults>>
SupervisorGivesUp(m) ==
    /\ Runs(m) /\ sup[m] = "waiting" /\ Own(m, {"dispatching"}) /\ Fault
    /\ sup' = [sup EXCEPT ![m] = "stopping"]
    /\ UNCHANGED <<job, record, machine, server, guest, storage, login>>

\* ready and validate: a hook that is refused in time is called again.
ReadyHook(m) ==
    /\ Runs(m) /\ sup[m] = "booting" /\ server[m].state = "up"
    /\ sup' = [sup EXCEPT ![m] = "ready"]
    /\ UNCHANGED <<job, record, machine, server, guest, storage, login, faults>>

\* The loop ends with the Run, or with the server; either way the server is told to stop.
SupervisorStops(m) ==
    /\ Runs(m) /\ sup[m] \in {"booting", "ready", "driving"}
    /\ IF sup[m] = "driving" THEN ~Own(m, {"attached", "running"}) \/ server[m].state # "up" ELSE server[m].state # "up"
    /\ sup' = [sup EXCEPT ![m] = "stopping"]
    /\ server' = [server EXCEPT ![m].state = IF @ = "up" THEN "shutting" ELSE @]
    /\ runner' = [runner EXCEPT ![m].abort = Alive(m)]
    /\ UNCHANGED <<job, record, machine, mounted, cmd, storage, login, faults>>

-----------------------------------------------------------------------------
(* The lifecycle server.                                                   *)

\* parseRunHook: identities, storage, and a default sandbox mode that is among the allowed ones.
HookAccepts == job.valid
\* runHookPayload: sent by the service to a MicroVM that boots, by the supervisor to its own server.
Called(m) ==
    /\ Runs(m) /\ runner[m].pc = "none" /\ server[m] = [state |-> "up", asked |-> FALSE]
    /\ job.backend = "ec2" => sup[m] = "ready"
Driving(m) == IF job.backend = "ec2" THEN [sup EXCEPT ![m] = "driving"] ELSE sup
\* startRun: the storage must be a mount of its own before the runner is spawned.
RunHook(m) ==
    /\ Called(m) /\ HookAccepts
    /\ mounted' = [mounted EXCEPT ![m] = TRUE]
    /\ Goto(m, "waiting") /\ sup' = Driving(m)
    /\ UNCHANGED <<job, record, machine, server, cmd, storage, login, faults>>
\* The payload is refused or the mount fails: no runner; a supervisor then ends, a MicroVM waits for the service.
RunHookFails(m) ==
    /\ Called(m) /\ (HookAccepts => faults < MaxFaults) /\ faults' = IF HookAccepts THEN faults + 1 ELSE faults
    /\ IF job.backend = "ec2"
       THEN sup' = [sup EXCEPT ![m] = "stopping"] /\ server' = [server EXCEPT ![m].state = "shutting"]
       ELSE server' = [server EXCEPT ![m].asked = TRUE] /\ UNCHANGED sup
    /\ UNCHANGED <<job, record, machine, guest, storage, login>>
\* A hook that is called again finds the same run active, or, the runner having gone, spawns another.
RunHookAgain(m) ==
    /\ Runs(m) /\ job.backend = "microvm" /\ server[m] = [state |-> "up", asked |-> TRUE] /\ runner[m].pc = "exited"
    /\ mounted[m] /\ Fault /\ Goto(m, "waiting")
    /\ UNCHANGED <<job, record, machine, sup, server, mounted, cmd, storage, login>>

\* The runner's exit: the machine asks for its own end, once; an instance's server shuts down.
RunnerExits(m) ==
    /\ IF job.backend = "ec2" THEN server' = [server EXCEPT ![m].state = "shutting"]
       ELSE server' = [server EXCEPT ![m].asked = TRUE]
    /\ runner' = [runner EXCEPT ![m] = [pc |-> "exited", abort |-> FALSE]]
\* shutdown: when no runner is left the server's process ends.
ServerEnds(m) ==
    /\ Runs(m) /\ server[m].state = "shutting" /\ ~Alive(m)
    /\ server' = [server EXCEPT ![m].state = "down"]
    /\ UNCHANGED <<job, record, machine, sup, guest, storage, login, faults>>
\* terminateActiveRun: ten seconds after SIGTERM the runner is killed; its child is in a group of its own.
Kill(m) ==
    /\ Runs(m) /\ Alive(m) /\ runner[m].abort /\ Fault
    /\ RunnerExits(m)
    /\ UNCHANGED <<job, record, machine, sup, mounted, cmd, storage, login>>

-----------------------------------------------------------------------------
(* The runner: the Run is its own, then the workspace, then the agent.     *)

\* waitForExecutionAttachment, startExecution: anything but this attachment ends the runner.
Begin(m) ==
    /\ At(m, "waiting") /\ ~Own(m, {"dispatching"})
    /\ IF Own(m, {"attached"})
       THEN record' = [record EXCEPT !.status = "running"] /\ Goto(m, "workspace") /\ UNCHANGED server
       ELSE RunnerExits(m) /\ UNCHANGED record
    /\ UNCHANGED <<job, machine, sup, mounted, cmd, storage, login, faults>>

Failed(m) == IF Own(m, {"attached", "running"}) THEN [record EXCEPT !.status = "failed"] ELSE record
\* An error fails the Run; a login that was installed is left to the finally.
Fails(m) ==
    /\ record' = Failed(m)
    /\ IF login.copy[m] = 0 THEN RunnerExits(m) ELSE Goto(m, "closing") /\ UNCHANGED server
    /\ UNCHANGED login
\* Nothing the runner waits for comes in time.
GivesUp(m) ==
    /\ At(m, "waiting") /\ Own(m, {"dispatching"}) /\ (Fault \/ (runner[m].abort /\ UNCHANGED faults))
    /\ Fails(m) /\ UNCHANGED <<job, machine, sup, mounted, cmd, storage>>

\* isReusableWorkspace: HEAD and the base ref both name a commit.
Reusable == ws.git /\ ws.head /\ ws.base

\* prepareWorkspace: a whole workspace is kept; any other is emptied first.
Prepare(m) ==
    /\ At(m, "workspace")
    /\ Goto(m, IF Reusable THEN "setup" ELSE "reset")
    /\ UNCHANGED <<job, record, machine, sup, server, mounted, cmd, storage, login, faults>>

\* resetPersistentWorkspace: entry by entry, in any order, and then Git from nothing.
Emptied == {[ws EXCEPT !.tree = "none", !.setup = "none", !.work = 0],
            [Bare EXCEPT !.tree = ws.tree, !.setup = ws.setup, !.work = ws.work], Bare}
Reset(m) ==
    /\ At(m, "reset")
    /\ \E w \in Emptied :
          ws' = w /\ IF w = Bare THEN Goto(m, "git") ELSE UNCHANGED runner
    /\ UNCHANGED <<job, record, machine, sup, server, mounted, cmd, prepared, login, faults>>

\* The commands, in order: the token is gone before the workspace is the agent's; the base ref is last.
Plan == IF job.repo THEN <<"init", "fetch", "handoff", "checkout", "base">> ELSE <<"handoff", "init", "checkout", "base">>
Following(step) ==
    IF step = "none" THEN Plan[1]
    ELSE LET i == CHOOSE k \in 1 .. Len(Plan) : Plan[k] = step
         IN  IF i = Len(Plan) THEN "none" ELSE Plan[i + 1]

\* What a command leaves when it has done its work, and what it may leave before.
Effect(step) ==
    CASE step = "init" -> [ws EXCEPT !.git = TRUE]
      [] step = "fetch" -> [ws EXCEPT !.fetched = TRUE]
      [] step = "checkout" -> [ws EXCEPT !.tree = "whole", !.head = TRUE]
      [] step = "base" -> [ws EXCEPT !.base = ws.git]
      [] OTHER -> ws
Midway(step) == IF step = "checkout" THEN [ws EXCEPT !.tree = "part"] ELSE ws

\* runProcess: the first command, and each after one that succeeded.
Spawn(m) ==
    /\ At(m, "git") /\ cmd[m] = Quiet
    /\ cmd' = [cmd EXCEPT ![m] = [step |-> Plan[1], over |-> FALSE]]
    /\ UNCHANGED <<job, record, machine, sup, server, mounted, runner, storage, login, faults>>
CommandWorks(m) ==
    /\ Runs(m) /\ cmd[m].step # "none" /\ Midway(cmd[m].step) # ws /\ ~ws.head
    /\ ws' = Midway(cmd[m].step)
    /\ UNCHANGED <<job, record, machine, sup, server, guest, prepared, login, faults>>

MutantOverrun(m) ==  \* Mutant: the runner goes on before the process it gave up on has closed.
    /\ At(m, "git") /\ cmd[m].step # "none" /\ ~cmd[m].over /\ Fault
    /\ cmd' = [cmd EXCEPT ![m].over = TRUE] /\ record' = [record EXCEPT !.status = "failed"]
    /\ UNCHANGED <<job, machine, sup, server, mounted, runner, storage, login>>
\* A time limit, or too much output: the group is signalled, and then killed.
Overrun(m) ==
    /\ Runs(m) /\ cmd[m].step # "none" /\ ~cmd[m].over /\ Fault
    /\ cmd' = [cmd EXCEPT ![m].over = TRUE]
    /\ UNCHANGED <<job, record, machine, sup, server, mounted, runner, storage, login>>

\* The runner hears of the end only when the process is closed; a command that overran has failed,
\* whatever its exit code.
Closed(m, ok) ==
    IF runner[m].pc # "git" THEN UNCHANGED <<record, server, runner, login>> /\ cmd' = [cmd EXCEPT ![m] = Quiet]
    ELSE IF ok
    THEN /\ cmd' = [cmd EXCEPT ![m] = [step |-> Following(cmd[m].step), over |-> FALSE]]
         /\ IF Following(cmd[m].step) = "none" THEN Goto(m, "setup") ELSE UNCHANGED runner
         /\ UNCHANGED <<record, server, login>>
    ELSE Fails(m) /\ cmd' = [cmd EXCEPT ![m] = Quiet]
CommandCompletes(m) ==
    /\ Runs(m) /\ cmd[m].step # "none"
    /\ ws' = Effect(cmd[m].step) /\ Closed(m, ~cmd[m].over)
    /\ UNCHANGED <<job, machine, sup, mounted, prepared, faults>>
CommandFails(m) ==
    /\ Runs(m) /\ cmd[m].step # "none" /\ (Fault \/ (cmd[m].over /\ UNCHANGED faults))
    /\ Closed(m, FALSE)
    /\ UNCHANGED <<job, machine, sup, mounted, storage>>

\* prepareHostedEnvironment: a sandbox that replaces a prepared one has none of its files.
SetupBegins(m) ==
    /\ At(m, "setup")
    /\ IF job.managed /\ prepared /\ (ws.setup # "none" \/ ws.work # 0)
       THEN Goto(m, "reset")
       ELSE Goto(m, IF job.managed THEN "installing" ELSE "login")
    /\ UNCHANGED <<job, record, machine, sup, server, mounted, cmd, storage, login, faults>>
\* Inputs, packages and setup commands; the marker is on the machine, written after the last.
SetupRuns(m) ==
    /\ At(m, "installing") /\ ws.setup = "none" /\ ws' = [ws EXCEPT !.setup = "part"]
    /\ UNCHANGED <<job, record, machine, sup, server, guest, prepared, login, faults>>
SetupEnds(m) ==
    /\ At(m, "installing") /\ ws.setup # "none"
    /\ \/ /\ ws' = [ws EXCEPT !.setup = "whole"] /\ prepared' = TRUE
          /\ Goto(m, "login") /\ UNCHANGED <<record, server, login, faults>>
       \/ Fault /\ Fails(m) /\ UNCHANGED storage
    /\ UNCHANGED <<job, machine, sup, mounted, cmd>>

\* installCodexAuthFile: the stored login is the agent's file.
InstallLogin(m) ==
    /\ At(m, "login")
    /\ login' = [login EXCEPT !.copy[m] = login.stored] /\ Goto(m, "agent")
    /\ UNCHANGED <<job, record, machine, sup, server, mounted, cmd, storage, faults>>

\* The agent works; it may refresh a login that is the newest; it may break the workspace's Git.
AgentWorks(m) ==
    /\ At(m, "agent") /\ ws.work < m /\ ws' = [ws EXCEPT !.work = m]
    /\ UNCHANGED <<job, record, machine, sup, server, guest, prepared, login, faults>>
AgentRefreshes(m) ==
    /\ At(m, "agent") /\ login.latest < LastLogin /\ login.copy[m] = login.latest
    /\ login' = [login EXCEPT !.latest = @ + 1, !.copy[m] = login.latest + 1, !.fresh = @ \union {m}]
    /\ UNCHANGED <<job, record, machine, sup, server, guest, storage, faults>>
AgentBreaksGit(m) ==
    /\ At(m, "agent") /\ ws.head /\ Fault /\ ws' = [ws EXCEPT !.head = FALSE]
    /\ UNCHANGED <<job, record, machine, sup, server, guest, prepared, login>>

\* The agent ends well only while its login is the newest, and if it was not told to stop; what
\* follows is the same either way, unless the Run cannot be read.
AgentEnds(m) ==
    /\ At(m, "agent")
    /\ \/ /\ Goto(m, IF login.copy[m] = login.latest /\ ~runner[m].abort THEN "finishing" ELSE "faulty")
          /\ UNCHANGED <<record, server, login, faults>>
       \/ Fault /\ Fails(m)
    /\ UNCHANGED <<job, machine, sup, mounted, cmd, storage>>

\* finalize, once: a login that was refreshed is stored; the file goes, whether that succeeds or not.
Stored(m) ==
    [login EXCEPT !.stored = IF m \in login.fresh THEN login.copy[m] ELSE @, !.copy[m] = 0, !.fresh = @ \ {m}]
Dropped(m) == [login EXCEPT !.copy[m] = 0, !.fresh = @ \ {m}]
\* Before the Run is finished, and after one that failed.
Finalize(m) ==
    /\ Runs(m) /\ runner[m].pc \in {"finishing", "faulty"} /\ login.copy[m] # 0
    /\ \/ login' = Stored(m) /\ UNCHANGED <<record, server, runner, faults>>
       \/ m \in login.fresh /\ Fault /\ login' = Dropped(m) /\ record' = Failed(m) /\ RunnerExits(m)
    /\ UNCHANGED <<job, machine, sup, mounted, cmd, storage>>
CloseLogin(m) ==
    /\ At(m, "closing")
    /\ \/ login' = Stored(m) /\ UNCHANGED faults
       \/ m \in login.fresh /\ Fault /\ login' = Dropped(m)
    /\ RunnerExits(m)
    /\ UNCHANGED <<job, record, machine, sup, mounted, cmd, storage>>
\* finishExecution, with this machine's attachment as its authority, once the result is stored.
Finish(m) ==
    /\ Runs(m) /\ runner[m].pc \in {"finishing", "faulty"} /\ login.copy[m] = 0
    /\ \/ /\ record' = IF Own(m, {"running"}) /\ runner[m].pc = "finishing"
                       THEN [record EXCEPT !.status = "succeeded"] ELSE Failed(m)
          /\ RunnerExits(m) /\ UNCHANGED <<login, faults>>
       \/ Fault /\ Fails(m)
    /\ UNCHANGED <<job, machine, sup, mounted, cmd, storage>>

-----------------------------------------------------------------------------
Next ==
    \/ Attach \/ FindLost
    \/ \E m \in Machines :
          \/ StartMachine(m) \/ HeartbeatRefused(m) \/ EndAsked(m) \/ EndUnasked(m) \/ TerminateHook(m) \/ Suspend(m) \/ Resume(m)
          \/ SupervisorReads(m) \/ SupervisorGivesUp(m) \/ ReadyHook(m) \/ SupervisorStops(m)
          \/ RunHook(m) \/ RunHookFails(m) \/ RunHookAgain(m) \/ ServerEnds(m) \/ Kill(m)
          \/ Begin(m) \/ GivesUp(m) \/ Prepare(m) \/ Reset(m) \/ Spawn(m) \/ CommandWorks(m) \/ Overrun(m)
          \/ CommandCompletes(m) \/ CommandFails(m) \/ SetupBegins(m) \/ SetupRuns(m) \/ SetupEnds(m)
          \/ InstallLogin(m) \/ AgentWorks(m) \/ AgentRefreshes(m) \/ AgentBreaksGit(m) \/ AgentEnds(m)
          \/ Finalize(m) \/ CloseLogin(m) \/ Finish(m)

Spec == Init /\ [][Next]_vars

-----------------------------------------------------------------------------
\* An agent begins in a checkout that is complete, on mounted storage, and in a managed environment
\* only with the files its own sandbox was set up with, whatever machine died at which step before.
WorkspaceIsWhole ==
    \A m \in Machines : At(m, "login") =>
        /\ mounted[m]
        /\ record.left = {} =>
             /\ ws.tree = "whole" /\ ws.git /\ ws.base
             /\ job.managed => ws.setup = "whole" /\ ws.work = 0

\* Nothing of an earlier machine runs in the workspace once a later one prepares it, unless the
\* reconciler reported its Run lost while it was at work there.
WorkspaceHasOneUser ==
    \A m, k \in Machines : m # k /\ RunnerWorks(m) /\ Works(k) => {m, k} \intersect record.left # {}

\* A Run succeeds only when the login its agent was left with is the one the next Run will be given.
LoginIsStored == record.status = "succeeded" => login.stored = login.latest \/ record.left # {}

\* Without the exception.  It does not hold: README.md, section 7.
LostRunsHaveStopped == \A m, k \in Machines : m # k /\ RunnerWorks(m) => ~Works(k)

MachineIsSafe == WorkspaceIsWhole /\ WorkspaceHasOneUser /\ LoginIsStored
=============================================================================
