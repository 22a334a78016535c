--------------------------- MODULE WorkerControl ---------------------------
(***************************************************************************)
(* The control channel of a worker host: the lifecycle server              *)
(* (microvm/runtime-server.mjs), the bridge in the runner                  *)
(* (runner/control.ts) and the native turn they act on                     *)
(* (runner/codex-app-server.ts).                                           *)
(*                                                                         *)
(* A control request (an answer to a question of the native harness, or a  *)
(* direction for its turn) crosses two ordered channels and may time out   *)
(* at the server while it still takes effect; the client then repeats it.  *)
(* Server, bridge and driver each handle one message in one step.          *)
(***************************************************************************)
EXTENDS Naturals, Sequences, FiniteSets

CONSTANTS
    Questions,    \* questions that the native harness may ask
    Values,       \* contents of an answer or a direction
    Requests,     \* control requests of the clients
    Targets,      \* directories bound to worker-local storage
    MaxFaults     \* bound on failures of processes, mounts and native requests

Assumptions == MaxFaults \in Nat /\ IsFiniteSet(Targets)

Steer == "steer"
Interrupt == "interrupt"
Operations == Questions \union {Steer, Interrupt}
Commands == [operation : Questions \union {Steer}, value : Values] \union {[operation |-> Interrupt, value |-> "none"]}
NoCommand == [operation |-> "none", value |-> "none"]

VARIABLES
    host,      \* the lifecycle server
    storage,   \* mount of the Session state and bound directories
    request,   \* the clients' control requests
    down, up,  \* messages from the server to the runner and back
    bridge,    \* the runner's side of the channel
    driver,    \* the turn of runCodexAppServer
    native,    \* the native harness process
    faults

vars == <<host, storage, request, down, up, bridge, driver, native, faults>>

-----------------------------------------------------------------------------

Hosts == [active : BOOLEAN, pending : SUBSET Questions, responded : SUBSET Questions, ready : BOOLEAN,
          terminating : BOOLEAN, ended : BOOLEAN]
Entries == [state : {"none", "running", "done"}, value : Values \union {"none"}]

\* Types of the two processes, the channels and the native harness.
TypeOK ==
    /\ host \in Hosts
    /\ storage \in [deferred : BOOLEAN, mounted : BOOLEAN, bound : SUBSET Targets]
    /\ request \in [Requests -> [pc : {"idle", "waiting", "accepted", "refused"}, command : Commands \union {NoCommand}]]
    /\ \A i \in 1 .. Len(down) : down[i] \in Requests \union {"storage-ready"}
    /\ \A i \in 1 .. Len(up) : up[i].type \in {"prepare-storage", "ready", "question", "result"}
    /\ bridge \in [pending : SUBSET Questions, entries : [Operations -> Entries], joined : SUBSET Requests,
                   controller : BOOLEAN, closed : BOOLEAN]
    /\ driver \in {"none", "storage", "starting", "running", "ended"}
    /\ native \in [alive : BOOLEAN, asked : SUBSET Questions, received : [Questions -> Seq(Values)],
                   calls : SUBSET Commands, steered : Seq(Values), turn : {"none", "running", "over"},
                   interrupted : BOOLEAN]
    /\ faults \in 0 .. MaxFaults

NoEntry == [state |-> "none", value |-> "none"]
NewBridge == [pending |-> {}, entries |-> [o \in Operations |-> NoEntry], joined |-> {},
              controller |-> FALSE, closed |-> FALSE]
NoNative == [alive |-> FALSE, asked |-> {}, received |-> [q \in Questions |-> <<>>], calls |-> {},
             steered |-> <<>>, turn |-> "none", interrupted |-> FALSE]

Init ==
    /\ host = [active |-> FALSE, pending |-> {}, responded |-> {}, ready |-> FALSE,
               terminating |-> FALSE, ended |-> FALSE]
    /\ storage \in [deferred : BOOLEAN, mounted : {FALSE}, bound : {{}}]
    /\ request = [r \in Requests |-> [pc |-> "idle", command |-> NoCommand]]
    /\ down = <<>> /\ up = <<>>
    /\ bridge = NewBridge
    /\ driver = "none"
    /\ native = NoNative
    /\ faults = 0

Fault == faults < MaxFaults /\ faults' = faults + 1
Says(message) == up' = Append(up, message)

-----------------------------------------------------------------------------
(* Lifecycle hooks and storage. *)

\* prepareTransientRunState: every directory is bound, or none of what was bound stays (unless
\* it cannot be unmounted) and the attempt fails.
Bind(kept) ==
    \/ storage' = [storage EXCEPT !.mounted = TRUE, !.bound = Targets] /\ kept = Targets /\ UNCHANGED faults
    \/ Fault /\ kept # Targets /\ storage' = [storage EXCEPT !.mounted = TRUE, !.bound = kept]

Spawn ==
    /\ host' = [host EXCEPT !.active = TRUE]
    /\ driver' = IF storage.deferred THEN "storage" ELSE "starting"
    /\ IF storage.deferred THEN Says([type |-> "prepare-storage"]) ELSE UNCHANGED up

\* The run hook: mounts the Session state, binds local directories (later, when checkpoints are
\* enabled), then starts the runner.  A hook that failed may be repeated; one for the active
\* Run changes nothing.
StartRun ==
    /\ ~host.active /\ driver = "none" /\ ~host.ended
    /\ \/ Fault /\ UNCHANGED <<storage, host, driver, up>>
       \/ /\ storage.deferred
          /\ storage' = [storage EXCEPT !.mounted = TRUE]
          /\ Spawn /\ UNCHANGED faults
       \/ /\ ~storage.deferred
          /\ \E kept \in SUBSET Targets :
                Bind(kept) /\ IF kept = Targets THEN Spawn ELSE UNCHANGED <<host, driver, up>>
    /\ UNCHANGED <<request, down, bridge, native>>

\* handleRunnerControlMessage for "prepare-storage", and the runner that waits for it.
PrepareStorage ==
    /\ up # <<>> /\ Head(up).type = "prepare-storage"
    /\ up' = Tail(up)
    /\ \E kept \in SUBSET Targets :
          /\ Bind(kept)
          /\ down' = IF kept = Targets THEN Append(down, "storage-ready") ELSE down
          /\ driver' = IF kept = Targets THEN driver ELSE "ended"
    /\ UNCHANGED <<host, request, bridge, native>>

StorageReady ==
    /\ down # <<>> /\ Head(down) = "storage-ready"
    /\ down' = Tail(down)
    /\ driver' = IF driver = "storage" THEN "starting" ELSE driver
    /\ UNCHANGED <<host, storage, request, up, bridge, native, faults>>

-----------------------------------------------------------------------------
(* runCodexAppServer *)

\* What fail does to the calls that wait for the native harness: they are rejected, their
\* operations forgotten, and the requests that joined them refused.
Waiting(o) == {r \in bridge.joined : request[r].command.operation = o}
Failing == {o \in Operations : bridge.entries[o].state = "running"} \union {Interrupt}
Answered(rs, ok) == IF rs = {} THEN up ELSE Append(up, [type |-> "result", requests |-> rs, ok |-> ok])

Ends ==
    /\ driver' = "ended"
    /\ native' = [native EXCEPT !.alive = FALSE, !.calls = {}]
    /\ bridge' = [bridge EXCEPT !.joined = {},
                                !.entries = [o \in Operations |-> IF o \in Failing THEN NoEntry ELSE @[o]]]
    /\ up' = Answered(bridge.joined, FALSE)

\* initialize, thread/resume or thread/start, turn/start and onTurnStarted.  Lines that arrive
\* with the answer to turn/start are handled before it: a completion among them is dropped.
StartTurn ==
    /\ driver = "starting"
    /\ \E over \in BOOLEAN :
          native' = [native EXCEPT !.alive = TRUE, !.turn = IF over THEN "over" ELSE "running"]
    /\ driver' = "running"
    /\ bridge' = [bridge EXCEPT !.controller = TRUE]
    /\ Says([type |-> "ready"])
    /\ UNCHANGED <<host, storage, request, down, faults>>

StartFails ==
    /\ driver \in {"storage", "starting"}
    /\ Fault
    /\ driver' = "ended"
    /\ UNCHANGED <<host, storage, request, down, up, bridge, native>>

\* A request of the native harness that the host answers; approvals are refused at once.
Asks(q) ==
    /\ native.alive /\ native.turn = "running" /\ q \notin native.asked
    /\ native' = [native EXCEPT !.asked = @ \union {q}]
    /\ bridge' = [bridge EXCEPT !.pending = @ \union {q}]
    /\ Says([type |-> "question", question |-> q])
    /\ UNCHANGED <<host, storage, request, down, driver, faults>>

\* The native harness takes a direction or an interruption, or refuses it, and answers the call.
Takes(command) ==
    /\ native.alive /\ command \in native.calls
    /\ LET o == command.operation
       IN  \/ /\ native' = [native EXCEPT !.calls = @ \ {command},
                                          !.steered = IF o = Steer THEN Append(@, command.value) ELSE @,
                                          !.interrupted = @ \/ o = Interrupt]
              /\ bridge' = [bridge EXCEPT !.joined = @ \ Waiting(o),
                                          !.entries[o].state = IF o = Steer THEN "done" ELSE "none"]
              /\ up' = Answered(Waiting(o), TRUE)
              /\ UNCHANGED faults
           \/ /\ Fault
              /\ native' = [native EXCEPT !.calls = @ \ {command}]
              /\ bridge' = [bridge EXCEPT !.joined = @ \ Waiting(o), !.entries[o] = NoEntry]
              /\ up' = Answered(Waiting(o), FALSE)
    /\ UNCHANGED <<host, storage, request, down, driver>>

\* The native harness applied a direction, but ends before its answer is read.
TakesAndEnds(command) ==
    /\ native.alive /\ command \in native.calls /\ command.operation = Steer
    /\ Fault
    /\ driver' = "ended"
    /\ native' = [native EXCEPT !.alive = FALSE, !.calls = {}, !.steered = Append(@, command.value)]
    /\ bridge' = [bridge EXCEPT !.joined = {},
                                !.entries = [o \in Operations |-> IF o \in Failing THEN NoEntry ELSE @[o]]]
    /\ up' = Answered(bridge.joined, FALSE)
    /\ UNCHANGED <<host, storage, request, down>>

\* turn/completed: the native harness completes a turn when its questions are answered, or
\* when it was interrupted.
TurnEnds ==
    /\ driver = "running" /\ native.turn = "running"
    /\ native.interrupted \/ \A q \in native.asked : native.received[q] # <<>>
    /\ Ends
    /\ UNCHANGED <<host, storage, request, down, faults>>

\* The time limit, or an abort after authority was lost or the host is terminated.
TurnStopped ==
    /\ driver = "running"
    /\ Ends
    /\ UNCHANGED <<host, storage, request, down, faults>>

-----------------------------------------------------------------------------
(* Control requests. *)

Refuse(r) == request' = [request EXCEPT ![r].pc = "refused"]

\* handleControlRequest and sendControlCommand.
Receive(r, command) ==
    /\ request[r].pc = "idle"
    /\ \/ /\ host.active /\ command.operation \in host.pending \union host.responded \union {Steer, Interrupt}
          /\ request' = [request EXCEPT ![r] = [pc |-> "waiting", command |-> command]]
          /\ down' = Append(down, r)
       \/ /\ ~(host.active /\ command.operation \in host.pending \union host.responded \union {Steer, Interrupt})
          /\ Refuse(r) /\ UNCHANGED down
    /\ UNCHANGED <<host, storage, up, bridge, driver, native, faults>>

\* After 25 seconds the server forgets the waiter; the command may still take effect.
CommandTimeout(r) ==
    /\ request[r].pc = "waiting"
    /\ Refuse(r)
    /\ UNCHANGED <<host, storage, down, up, bridge, driver, native, faults>>

\* Mutant: a repeated command is carried out again.
MutantOnMessageAgain(r) ==
    /\ down # <<>> /\ Head(down) = r
    /\ down' = Tail(down)
    /\ LET o == request[r].command.operation
           value == request[r].command.value
       IN  IF bridge.closed \/ o \in Questions \/ ~bridge.controller \/ driver # "running"
           THEN UNCHANGED <<bridge, native, up>>
           ELSE /\ bridge' = [bridge EXCEPT !.joined = @ \union {r}, !.entries[o].state = "running"]
                /\ native' = [native EXCEPT !.calls = @ \union {request[r].command}]
                /\ UNCHANGED up
    /\ UNCHANGED <<host, storage, request, driver, faults>>

\* The bridge: an operation is carried out once; a repetition joins it, and with another
\* content is refused.  A failed operation is forgotten and may be repeated.
OnMessage(r) ==
    /\ down # <<>> /\ Head(down) = r
    /\ down' = Tail(down)
    /\ LET o == request[r].command.operation
           value == request[r].command.value
           entry == bridge.entries[o]
           fails == up' = Answered({r}, FALSE) /\ UNCHANGED <<bridge, native>>
       IN  \/ bridge.closed /\ UNCHANGED <<bridge, native, up>>
           \/ /\ ~bridge.closed /\ entry.state # "none" /\ o # Interrupt
              /\ IF entry.value # value THEN fails
                 ELSE IF entry.state = "done" THEN up' = Answered({r}, TRUE) /\ UNCHANGED <<bridge, native>>
                 ELSE bridge' = [bridge EXCEPT !.joined = @ \union {r}] /\ UNCHANGED <<native, up>>
           \/ /\ ~bridge.closed /\ o \in Questions /\ entry.state = "none"
              /\ IF o \notin bridge.pending THEN fails
                 ELSE /\ bridge' = [bridge EXCEPT !.pending = @ \ {o},
                                                  !.entries[o] = [state |-> "done", value |-> value]]
                      /\ native' = IF native.alive THEN [native EXCEPT !.received[o] = Append(@, value)] ELSE native
                      /\ up' = Answered({r}, TRUE)
           \/ /\ ~bridge.closed /\ o \in {Steer, Interrupt} /\ (entry.state = "none" \/ o = Interrupt)
              /\ IF ~bridge.controller \/ driver # "running" THEN fails
                 ELSE /\ bridge' = [bridge EXCEPT !.joined = @ \union {r},
                                                  !.entries[o] = [state |-> "running", value |-> value]]
                      /\ native' = [native EXCEPT !.calls = @ \union {request[r].command}]
                      /\ UNCHANGED up
    /\ UNCHANGED <<host, storage, request, driver, faults>>

\* handleRunnerControlMessage for the other messages; those of an ended runner are ignored.
FromRunner ==
    /\ up # <<>> /\ Head(up).type # "prepare-storage"
    /\ up' = Tail(up)
    /\ LET message == Head(up)
       IN  \/ ~host.active /\ UNCHANGED <<host, request>>
           \/ /\ host.active /\ message.type = "ready"
              /\ host' = [host EXCEPT !.ready = TRUE] /\ UNCHANGED request
           \/ /\ host.active /\ message.type = "question"
              /\ host' = [host EXCEPT !.pending = @ \union {message.question}] /\ UNCHANGED request
           \/ /\ host.active /\ message.type = "result"
              /\ LET waiters == {r \in message.requests : request[r].pc = "waiting"}
                     answered == IF message.ok THEN {request[r].command.operation : r \in waiters} ELSE {}
                 IN  /\ request' = [r \in Requests |-> IF r \notin waiters THEN request[r]
                            ELSE [request[r] EXCEPT !.pc = IF message.ok THEN "accepted" ELSE "refused"]]
                     /\ host' = [host EXCEPT !.pending = @ \ answered,
                                             !.responded = @ \union (answered \intersect Questions)]
    /\ UNCHANGED <<storage, down, bridge, driver, native, faults>>

-----------------------------------------------------------------------------
(* The end of the runner and of the host. *)

\* close of the bridge: what still waits is rejected, and later messages have no reader.
CloseBridge ==
    /\ driver = "ended" /\ ~bridge.closed
    /\ bridge' = [NewBridge EXCEPT !.closed = TRUE]
    /\ UNCHANGED <<host, storage, request, down, up, driver, native, faults>>

Exited ==
    /\ host' = [host EXCEPT !.active = FALSE, !.ended = TRUE]
    /\ request' = [r \in Requests |-> IF request[r].pc = "waiting" THEN [request[r] EXCEPT !.pc = "refused"]
                                      ELSE request[r]]
    /\ down' = <<>>

\* The exit event: every waiter is rejected, and the host ends itself unless the service does.
RunnerExits ==
    /\ host.active /\ bridge.closed
    /\ Exited
    /\ UNCHANGED <<storage, up, bridge, driver, native, faults>>

\* The runner dies, with the native harness.
RunnerDies ==
    /\ host.active
    /\ IF host.terminating THEN UNCHANGED faults ELSE Fault
    /\ Exited
    /\ driver' = "ended"
    /\ native' = [native EXCEPT !.alive = FALSE]
    /\ bridge' = [NewBridge EXCEPT !.closed = TRUE]
    /\ UNCHANGED <<storage, up>>

\* The terminate hook signals the runner, and kills it after ten seconds.
Terminate ==
    /\ ~host.terminating
    /\ host' = [host EXCEPT !.terminating = TRUE, !.ended = @ \/ ~host.active]
    /\ UNCHANGED <<storage, request, down, up, bridge, driver, native, faults>>

Next ==
    \/ StartRun \/ PrepareStorage \/ StorageReady
    \/ StartTurn \/ StartFails \/ TurnEnds \/ TurnStopped
    \/ \E q \in Questions : Asks(q)
    \/ \E command \in Commands :
          Takes(command) \/ TakesAndEnds(command) \/ (\E r \in Requests : Receive(r, command))
    \/ \E r \in Requests : CommandTimeout(r) \/ OnMessage(r)
    \/ FromRunner
    \/ CloseBridge \/ RunnerExits \/ RunnerDies \/ Terminate

Spec == Init /\ [][Next]_vars

-----------------------------------------------------------------------------
(* Properties *)

\* However often a client repeats a request that timed out, the native harness gets one answer
\* to a question and takes a direction once; an accepted request did take effect with its own
\* content, unless the native harness had already ended.
CommandsApplyOnce ==
    /\ \A q \in Questions : Len(native.received[q]) <= 1
    /\ Len(native.steered) <= 1
    /\ \A r \in Requests : request[r].pc = "accepted" =>
          LET command == request[r].command
          IN  \/ command.operation = Steer /\ native.steered = <<command.value>>
              \/ command.operation = Interrupt /\ native.interrupted
              \/ /\ command.operation \in Questions
                 /\ native.received[command.operation] = <<command.value>> \/ ~native.alive

\* No turn runs before the Session state is mounted and every directory of the worker is bound.
TurnsHaveStorage == driver \in {"starting", "running"} => storage.mounted /\ storage.bound = Targets
=============================================================================
