---------------------------- MODULE NativeSession ----------------------------
(***************************************************************************)
(* One native harness (Codex app-server) held by a worker across the Turns *)
(* of a Session: runner/session-runtime.ts with its reducer                *)
(* (core/session-runtime-planning.ts), the line protocol                   *)
(* (adapters/codex-rpc.ts), the checkpoint of the native history           *)
(* (core/native-checkpoint-planning.ts, runner/codex-cold-verification.ts) *)
(* and the driver that starts the first Turn (runner/agent-driver.ts).     *)
(*                                                                         *)
(* The harness is external: it numbers its own turns, writes notifications *)
(* and replies to one ordered stream, spawns a child thread that works on  *)
(* its own, and may answer late or die.  The host's view of it is what the *)
(* stream told it so far.                                                  *)
(***************************************************************************)
EXTENDS Naturals, SequencesExt

CONSTANTS
    LastNative,   \* native turns 1 .. LastNative; 0 is the one a fork inherits
    Uses,         \* what a Session may use, one of "fork", "agents" and "functions" at a time
    Pipe,         \* bound on the lines the host has not read
    MaxFaults     \* bound on deaths, timeouts, refusals and failed barriers

Assumptions ==
    /\ LastNative \in Nat \ {0} /\ Pipe \in Nat \ {0} /\ MaxFaults \in Nat
    /\ Uses \subseteq {"fork", "agents", "functions"}

Turns == 1 .. 2              \* public Turns; 1 is the one the Run was launched for
NoTurn == 0
Natives == 0 .. LastNative

VARIABLES
    native,   \* the harness
    input,    \* requests it has not read
    out,      \* its output the host has not read
    host,     \* flags of SessionRuntime and of its RPC client
    view,     \* the bindings: status and public Turn of each native turn
    buffer,   \* events of a child thread nobody has announced yet
    start,    \* `started`: the attempt to start each public Turn
    cancel,   \* the interruption of each public Turn
    ckpt,     \* the checkpoint under way and what it promised
    driver,
    faults

vars == <<native, input, out, host, view, buffer, start, cancel, ckpt, driver, faults>>

-----------------------------------------------------------------------------

Status == {"none", "in_progress", "waiting", "completed", "cancelled", "failed"}
Open == {"in_progress", "waiting"}
Views == [Natives -> [status : Status, turn : {NoTurn} \union Turns]]
Work == {"none", "running", "stopping", "completed", "interrupted", "failed"}
\* Call of a function a native turn waits for, and whether it reported an error it will not retry.
Native == [turns : [Natives -> [work : Work, of : {NoTurn} \union Turns, child : BOOLEAN,
                                call : {"none", "asked", "answered"}, erred : BOOLEAN]],
           uses : Uses, spawned : BOOLEAN, up : BOOLEAN, eof : BOOLEAN, hydrated : BOOLEAN,
           disk : SUBSET Natives]
Host == [ready : BOOLEAN, rpc : {"open", "eof", "closed"}, closed : BOOLEAN, finished : BOOLEAN,
         starting : BOOLEAN, binding : {NoTurn} \union Turns, known : BOOLEAN,
         sealed : BOOLEAN, checkpointing : BOOLEAN, activity : BOOLEAN, failure : BOOLEAN]
CkptPc == {"none", "seal", "inspect", "read", "prepare", "begin", "loaded", "eof", "flush", "verify",
           "commit", "committed", "failing", "failed"}
Sent == {"none", "tier", "sent", "wait", "ok", "failed"}

\* Types of the harness and of the host's record of it.
TypeOK ==
    /\ native \in Native
    /\ input \in SUBSET ({"start", "interrupt", "answer"} \X Natives \union {<<"read", 0>>, <<"loaded", 0>>, <<"eof", 0>>})
    /\ host \in Host
    /\ view \in Views
    /\ start \in [Turns -> Sent] /\ cancel \in [Turns -> Sent]
    /\ ckpt.pc \in CkptPc /\ ckpt.child \in BOOLEAN /\ ckpt.manifest \in Views /\ ckpt.work \in [Natives -> Work]
    /\ driver \in {"init", "ready", "run", "done", "error"}
    /\ faults \in 0 .. MaxFaults

NoView == [n \in Natives |-> [status |-> "none", turn |-> NoTurn]]

Init ==
    /\ \E uses \in Uses :
         native = [turns |-> [n \in Natives |->
                       [work |-> IF n = 0 THEN "completed" ELSE "none", of |-> NoTurn, child |-> FALSE,
                        call |-> "none", erred |-> FALSE]],
                   uses |-> uses, spawned |-> FALSE, up |-> TRUE, eof |-> FALSE,
                   hydrated |-> uses # "fork", disk |-> {}]
    /\ input = {} /\ out = <<>>
    /\ host = [ready |-> FALSE, rpc |-> "open", closed |-> FALSE, finished |-> FALSE,
               starting |-> FALSE, binding |-> NoTurn, known |-> FALSE,
               sealed |-> FALSE, checkpointing |-> FALSE, activity |-> FALSE, failure |-> FALSE]
    /\ view = NoView
    /\ buffer = <<>>
    /\ start = [t \in Turns |-> "none"] /\ cancel = [t \in Turns |-> "none"]
    /\ ckpt = [pc |-> "none", child |-> FALSE, manifest |-> NoView, work |-> [n \in Natives |-> "none"]]
    /\ driver = "init"
    /\ faults = 0

Fault == faults < MaxFaults /\ faults' = faults + 1

Root(n) == ~native.turns[n].child
Terminal(v, n) == v[n].status \in {"completed", "cancelled", "failed"}
AnyOpen(v) == \E n \in Natives : v[n].status \in Open
rootTurnBusy == host.starting \/ \E n \in Natives : Root(n) /\ view[n].status \in Open

\* stoppedSessionRuntime: what was open has failed with the harness.
Stopped(v) == [n \in Natives |-> IF v[n].status \in Open THEN [v[n] EXCEPT !.status = "failed"] ELSE v[n]]
Bound(v, t) == {n \in Natives : v[n].turn = t}

-----------------------------------------------------------------------------
(* What ends the host's side: closing the RPC client, and disconnection.   *)

\* Outstanding calls are rejected, the child is killed; a start that had not crossed the native
\* boundary can be tried again.
Rejected(op) == CASE op = "tier" -> "none" [] op \in {"sent", "wait"} -> "failed" [] OTHER -> op
RejectCalls ==
    /\ start' = [t \in Turns |-> Rejected(start[t])]
    /\ cancel' = [t \in Turns |-> IF cancel[t] = "sent" THEN "failed" ELSE cancel[t]]

\* disconnected: once; the Run finishes unless a checkpoint owns the end.
Disconnected(h) == IF h.closed THEN h ELSE [h EXCEPT !.closed = TRUE, !.finished = ~h.checkpointing]

\* close() begins: the client rejects calls and kills the harness.
Closing(h) == [h EXCEPT !.rpc = "closed", !.starting = FALSE, !.binding = NoTurn]
CloseRpc == host' = Closing(host) /\ RejectCalls

\* The exit of the process: `fail` and disconnected, or the end of close().
Disconnect ==
    /\ host' = Closing(Disconnected(host))
    /\ view' = IF host.closed \/ ~host.ready THEN view ELSE Stopped(view)
    /\ start' = [t \in Turns |-> Rejected(start[t])]
    /\ cancel' = [t \in Turns |-> IF cancel[t] \in {"sent", "wait"} THEN "failed" ELSE cancel[t]]

\* SIGTERM, then SIGKILL: the harness may have worked on meanwhile.
Killed ==
    /\ native.up /\ host.rpc = "closed"
    /\ native' = [native EXCEPT !.up = FALSE]
    /\ Disconnect
    /\ UNCHANGED <<input, out, buffer, ckpt, driver, faults>>

\* The harness dies; what it wrote before can still be read.
Dies ==
    /\ native.up /\ host.rpc # "closed" /\ Fault
    /\ native' = [native EXCEPT !.up = FALSE]
    /\ IF host.rpc = "eof" THEN UNCHANGED <<host, view, start, cancel>> ELSE Disconnect
    /\ UNCHANGED <<input, out, buffer, ckpt, driver>>

\* The Run is aborted: its time is up, its authority is lost or its journal cannot be saved.
Abort ==
    /\ host.rpc = "open" /\ Fault
    /\ CloseRpc
    /\ UNCHANGED <<native, input, out, view, buffer, ckpt, driver>>

-----------------------------------------------------------------------------
(* The driver: initialize, the first Turn, the end.                        *)

\* thread/start, thread/resume or thread/fork was answered; events before it were replayed.
Initialize ==
    /\ driver = "init" /\ host.rpc = "open"
    /\ driver' = "ready"
    /\ host' = [host EXCEPT !.ready = TRUE]
    /\ UNCHANGED <<native, input, out, view, buffer, start, cancel, ckpt, faults>>

\* initialize fails: finally { runtime.close() }.
InitializeFails ==
    /\ driver = "init" /\ (host.rpc # "open" \/ Fault)
    /\ driver' = "error"
    /\ IF host.rpc = "open" THEN CloseRpc ELSE UNCHANGED <<host, start, cancel, faults>>
    /\ UNCHANGED <<native, input, out, view, buffer, ckpt>>

\* A start crosses the native boundary, or finds the client closed.
Crosses(t) ==
    IF host.rpc = "open"
    THEN /\ start' = [start EXCEPT ![t] = "sent"]
         /\ host' = [host EXCEPT !.starting = TRUE, !.binding = t]
         /\ input' = input \union {<<"start", t>>}
    ELSE /\ start' = [start EXCEPT ![t] = "failed"]
         /\ UNCHANGED <<host, input>>

\* start: a Turn is tried once; a refusal before the native boundary leaves it unstarted.
Start(t) ==
    /\ start[t] = "none" /\ host.ready /\ ~host.closed /\ ~host.checkpointing /\ ~rootTurnBusy
    /\ \/ Crosses(t)
       \/ /\ start' = [start EXCEPT ![t] = "tier"]
          /\ host' = [host EXCEPT !.starting = TRUE]
          /\ UNCHANGED input

StartInitial ==
    /\ driver = "ready"
    /\ \/ Start(1) /\ driver' = "run"
       \/ /\ host.closed \/ host.checkpointing \/ rootTurnBusy
          /\ driver' = "error"
          /\ CloseRpc
          /\ UNCHANGED input
    /\ UNCHANGED <<native, out, view, buffer, cancel, ckpt, faults>>

\* A later Turn comes over the control bridge, under the workspace admission.
StartNext ==
    /\ start[1] # "none" /\ ~host.sealed /\ Start(2)
    /\ UNCHANGED <<native, out, view, buffer, cancel, ckpt, driver, faults>>

\* admitTier was answered: the Turn starts, or its tier is refused, or the runtime closed meanwhile.
TierAnswered(t) ==
    /\ start[t] = "tier"
    /\ \/ ~host.closed /\ ~host.checkpointing /\ Crosses(t)
       \/ /\ start' = [start EXCEPT ![t] = "none"]
          /\ host' = [host EXCEPT !.starting = FALSE]
          /\ UNCHANGED input
    /\ UNCHANGED <<native, out, view, buffer, cancel, ckpt, driver, faults>>

\* A failed first start ends the driver; a finished runtime ends it with the checkpoint's verdict.
DriverEnds ==
    /\ \/ /\ driver = "run" /\ start[1] \in {"none", "failed"}
          /\ driver' = "error"
       \/ /\ driver = "run" /\ start[1] = "ok" /\ host.finished
          /\ driver' = IF host.failure THEN "error" ELSE "done"
    /\ IF host.rpc = "closed" THEN UNCHANGED <<host, start, cancel>> ELSE CloseRpc
    /\ UNCHANGED <<native, input, out, view, buffer, ckpt, faults>>

-----------------------------------------------------------------------------
(* The harness.                                                            *)

Free == {n \in Natives : native.turns[n].work = "none"}
Next1 == CHOOSE n \in Free : \A m \in Free : n <= m
Says(messages) == Len(out) < Pipe /\ out' = out \o messages
Line(kind, n) == [kind |-> kind, n |-> n]
Emits == UNCHANGED <<host, view, buffer, start, cancel, ckpt, driver, faults>>

\* turn/start: its reply and the notification come in either order; or it is refused.
ReadStart(t) ==
    /\ native.up /\ <<"start", t>> \in input
    /\ input' = input \ {<<"start", t>>}
    /\ \/ /\ Free # {}
          /\ native' = [native EXCEPT !.turns[Next1] =
                            [work |-> "running", of |-> t, child |-> FALSE, call |-> "none", erred |-> FALSE]]
          /\ \/ Says(<<Line("bound", Next1), Line("started", Next1)>>)
             \/ Says(<<Line("started", Next1), Line("bound", Next1)>>)
          /\ UNCHANGED faults
       \/ Fault /\ Says(<<Line("refused", 0)>>) /\ UNCHANGED native
    /\ UNCHANGED <<host, view, buffer, start, cancel, ckpt, driver>>

ReadInterrupt(n) ==
    /\ native.up /\ <<"interrupt", n>> \in input
    /\ input' = input \ {<<"interrupt", n>>}
    /\ native' = IF native.turns[n].work = "running" THEN [native EXCEPT !.turns[n].work = "stopping"] ELSE native
    /\ Says(<<Line("acknowledged", n)>>)
    /\ Emits

\* The turn stops after the interruption was acknowledged.
Stops(n) ==
    /\ native.up /\ native.turns[n].work = "stopping"
    /\ native' = [native EXCEPT !.turns[n].work = "interrupted", !.disk = @ \union {n}]
    /\ Says(<<Line("interrupted", n)>>)
    /\ UNCHANGED input /\ Emits

ReadAnswer(n) ==
    /\ native.up /\ <<"answer", n>> \in input
    /\ input' = input \ {<<"answer", n>>}
    /\ native' = [native EXCEPT !.turns[n].call = "answered"]
    /\ UNCHANGED out /\ Emits

\* thread/loaded/list and thread/read: the threads it holds and their turns.
ReadQuery(kind) ==
    /\ native.up /\ <<kind, 0>> \in input
    /\ input' = input \ {<<kind, 0>>}
    /\ Says(<<[kind |-> kind, n |-> 0, child |-> native.spawned,
               work |-> [n \in Natives |-> native.turns[n].work]]>>)
    /\ UNCHANGED native /\ Emits

\* A turn ends by itself; its history is on disk.
Completes(n) ==
    /\ native.up /\ native.turns[n].work \in {"running", "stopping"} /\ native.turns[n].call # "asked"
    /\ \E result \in {"completed", "failed"} :
         /\ result = "failed" => Root(n)
         /\ native' = [native EXCEPT !.turns[n].work = result, !.disk = @ \union {n}]
         /\ Says(<<Line(result, n)>>)
    /\ UNCHANGED input /\ Emits

\* An error without willRetry is notified; the turn is at work until its own end is notified.
Errs(n) ==
    /\ native.up /\ native.turns[n].work \in {"running", "stopping"} /\ ~native.turns[n].erred
    /\ Fault
    /\ native' = [native EXCEPT !.turns[n].erred = TRUE]
    /\ Says(<<Line("error", n)>>)
    /\ UNCHANGED <<input, host, view, buffer, start, cancel, ckpt, driver>>

\* The root calls a function of the application.
Calls(n) ==
    /\ native.uses = "functions" /\ native.up
    /\ native.turns[n].work = "running" /\ Root(n) /\ native.turns[n].call = "none"
    /\ native' = [native EXCEPT !.turns[n].call = "asked"]
    /\ Says(<<Line("call", n)>>)
    /\ UNCHANGED input /\ Emits

\* The root spawns a child thread; the child's first event may come before the announcement.
Spawns ==
    /\ native.uses = "agents" /\ native.up /\ ~native.spawned /\ Free # {}
    /\ \E r \in Natives : Root(r) /\ native.turns[r].work = "running"
    /\ native' = [native EXCEPT !.spawned = TRUE,
                     !.turns[Next1] = [work |-> "running", of |-> NoTurn, child |-> TRUE, call |-> "none",
                                       erred |-> FALSE]]
    /\ \/ Says(<<Line("spawned", 0), Line("started", Next1)>>)
       \/ Says(<<Line("started", Next1), Line("spawned", 0)>>)
    /\ UNCHANGED input /\ Emits

\* A child at rest is sent more work by its own thread.
ChildWorks ==
    /\ native.up /\ native.spawned /\ Free # {}
    /\ \A n \in Natives : ~Root(n) => native.turns[n].work # "running"
    /\ native' = [native EXCEPT !.turns[Next1] =
                      [work |-> "running", of |-> NoTurn, child |-> TRUE, call |-> "none", erred |-> FALSE]]
    /\ Says(<<Line("started", Next1)>>)
    /\ UNCHANGED input /\ Emits

\* thread/fork replays the inherited turn, any time after its reply.
Hydrates ==
    /\ native.up /\ ~native.hydrated /\ host.ready
    /\ native' = [native EXCEPT !.hydrated = TRUE]
    /\ Says(<<Line("completed", 0)>>)
    /\ UNCHANGED input /\ Emits

\* End of input: a clean exit; the store may have lost a turn it had acknowledged.
ReadEof ==
    /\ native.up /\ <<"eof", 0>> \in input
    /\ input' = {}
    /\ \/ native' = [native EXCEPT !.up = FALSE, !.eof = TRUE] /\ UNCHANGED faults
       \/ /\ Fault
          /\ \E n \in native.disk :
               native' = [native EXCEPT !.up = FALSE, !.eof = TRUE, !.disk = @ \ {n}]
    /\ UNCHANGED <<out, host, view, buffer, start, cancel, ckpt, driver>>

-----------------------------------------------------------------------------
(* The host reads a line.                                                  *)

\* reduceSessionRuntime: an event changes the status of its own turn; an error that is not
\* retried makes it failed before the turn has ended.
Reduce(v, m) ==
    [v EXCEPT ![m.n].status =
        CASE m.kind = "started" -> "in_progress"
          [] m.kind = "call" -> "waiting"
          [] m.kind = "interrupted" -> "cancelled"
          [] m.kind = "error" -> "failed"
          [] OTHER -> m.kind]

\* bindSessionTurn: the public Turn gets the native turn once.
bindSessionTurn(v, n, t) ==
    [v EXCEPT ![n] = [status |-> IF @.status = "none" THEN "in_progress" ELSE @.status, turn |-> t]]

\* Events of a child wait for the announcement of its thread and are then replayed in order.
Replay(v, events) == FoldLeft(Reduce, v, events)

\* A start notified before its reply belongs to the Turn being started.
Early(v, m) ==
    IF host.binding # NoTurn /\ Root(m.n) /\ v[m.n].turn = NoTurn /\ Bound(v, host.binding) = {}
    THEN bindSessionTurn(v, m.n, host.binding) ELSE v

\* checkpointHasActivity and serverRequest while a checkpoint is under way.
Noticed(h) == IF h.checkpointing THEN [h EXCEPT !.activity = TRUE] ELSE h

\* cancel() of a Turn whose binding has become terminal returns.
Observed(v) == [t \in Turns |->
    IF cancel[t] = "wait" /\ \E n \in Bound(v, t) : Terminal(v, n) THEN "ok" ELSE cancel[t]]

Inherited(m) == m.n = 0

\* A function request during a checkpoint is refused at once.
RefusedCall(m) == IF m.kind = "call" /\ host.checkpointing /\ host.rpc = "open" THEN {<<"answer", m.n>>} ELSE {}

Hears(m) ==
    /\ UNCHANGED <<native, start, ckpt, driver, faults>>
    /\ input' = input \union RefusedCall(m)
    /\ host' = Noticed(host)
    /\ IF Inherited(m) THEN UNCHANGED <<view, buffer, cancel>>
       ELSE IF ~Root(m.n) /\ ~host.known
       THEN buffer' = Append(buffer, m) /\ UNCHANGED <<view, cancel>>
       ELSE /\ view' = Early(Reduce(view, m), m)
            /\ cancel' = Observed(view')
            /\ UNCHANGED buffer

Announced ==
    /\ host' = [Noticed(host) EXCEPT !.known = TRUE]
    /\ view' = Replay(view, buffer)
    /\ buffer' = <<>>
    /\ UNCHANGED <<native, input, start, cancel, ckpt, driver, faults>>

\* The reply of turn/start; late ones, after close(), find nobody waiting.
StartReply(m) ==
    /\ UNCHANGED <<native, input, buffer, cancel, ckpt, driver, faults>>
    /\ IF ~\E t \in Turns : start[t] = "sent" THEN UNCHANGED <<host, view, start>>
       ELSE \E t \in Turns :
            /\ start[t] = "sent"
            /\ start' = [start EXCEPT ![t] = "ok"]
            /\ view' = bindSessionTurn(view, m.n, t)
            /\ host' = [host EXCEPT !.starting = FALSE, !.binding = NoTurn]

\* "An ambiguous turn/start must not be retried against a still-running model."
StartRefused ==
    /\ UNCHANGED <<native, input, view, buffer, ckpt, driver, faults>>
    /\ IF \E t \in Turns : start[t] = "sent" THEN CloseRpc ELSE UNCHANGED <<host, start, cancel>>

\* "The stock interrupt acknowledgement can precede its terminal notification."
MutantWaits(t) == "ok"  \* Mutant: the acknowledgement is taken for the end of the turn.
Waits(t) == IF \E n \in Bound(view, t) : Terminal(view, n) THEN "ok" ELSE "wait"
InterruptReply(m) ==
    /\ UNCHANGED <<native, input, host, view, buffer, start, ckpt, driver, faults>>
    /\ LET t == view[m.n].turn
       IN  IF t # NoTurn /\ cancel[t] = "sent"
           THEN cancel' = [cancel EXCEPT ![t] = Waits(t)]
           ELSE UNCHANGED cancel

-----------------------------------------------------------------------------
(* Interruption and functions.                                             *)

\* cancel: of a Turn that is bound; it returns at once when the Turn has ended.
Cancel(t) ==
    /\ cancel[t] \in {"none", "failed"} /\ host.ready
    /\ ~host.sealed /\ ~host.closed /\ ~host.checkpointing /\ Bound(view, t) # {}
    /\ LET n == CHOOSE n \in Bound(view, t) : TRUE
       IN  IF Terminal(view, n)
           THEN cancel' = [cancel EXCEPT ![t] = "ok"] /\ UNCHANGED input
           ELSE /\ host.rpc = "open"
                /\ cancel' = [cancel EXCEPT ![t] = "sent"]
                /\ input' = input \union {<<"interrupt", n>>}
    /\ UNCHANGED <<native, out, host, view, buffer, start, ckpt, driver, faults>>

\* The request or the terminal notification takes more than thirty seconds.
CancelTimeout(t) ==
    /\ cancel[t] \in {"sent", "wait"} /\ Fault
    /\ cancel' = [cancel EXCEPT ![t] = "failed"]
    /\ UNCHANGED <<native, input, out, host, view, buffer, start, ckpt, driver>>

StartTimeout(t) ==
    /\ start[t] = "sent" /\ Fault
    /\ CloseRpc
    /\ UNCHANGED <<native, input, out, view, buffer, ckpt, driver>>

\* onServerRequest resolved: resolveSessionFunction and the answer to the harness, also of a
\* Turn that an error has made failed.
Answer(n) ==
    /\ view[n].status \in {"waiting", "failed"} /\ Line("call", n) \notin Range(out)
    /\ native.turns[n].call = "asked" /\ <<"answer", n>> \notin input
    /\ host.rpc = "open" /\ ~host.closed
    /\ view' = [view EXCEPT ![n].status = IF @ = "waiting" THEN "in_progress" ELSE @]
    /\ input' = input \union {<<"answer", n>>}
    /\ UNCHANGED <<native, out, host, buffer, start, cancel, ckpt, driver, faults>>

-----------------------------------------------------------------------------
(* checkpoint(): the ports of checkpointWorkspace, in order.               *)

\* assertQuiescent.
Quiescent == ~host.activity /\ view = ckpt.manifest /\ ~AnyOpen(view)

Goes(pc) == ckpt' = [ckpt EXCEPT !.pc = pc]
\* A failure before begin reopens the admission; the runtime goes on, or is finished if it closed.
Reopens ==
    /\ Goes("none")
    /\ host' = [host EXCEPT !.checkpointing = FALSE, !.sealed = FALSE, !.finished = host.closed]
    /\ UNCHANGED <<start, cancel>>
\* From begin on a failure is remembered and ends the harness.
Failing ==
    /\ Goes("failing")
    /\ host' = [Closing(host) EXCEPT !.failure = TRUE]
    /\ RejectCalls

Checkpoint ==
    /\ host.ready /\ ~host.closed /\ ~host.checkpointing /\ ~host.sealed /\ driver \in {"ready", "run"}
    /\ Goes("seal")
    /\ host' = [host EXCEPT !.checkpointing = TRUE, !.sealed = TRUE, !.activity = FALSE]
    /\ UNCHANGED <<native, input, out, view, buffer, start, cancel, driver, faults>>

\* seal() waits for the effects that were admitted; the launch of the first Turn is not one.
Sealed ==
    /\ ckpt.pc = "seal"
    /\ start[2] \notin {"tier", "sent"} /\ \A t \in Turns : cancel[t] \notin {"sent", "wait"}
    /\ Goes("inspect")
    /\ UNCHANGED <<native, input, out, host, view, buffer, start, cancel, driver, faults>>

\* inspectIdle: the first Turn was tried, nothing starts, nothing is open.
InspectIdle ==
    /\ ckpt.pc = "inspect"
    /\ IF start[1] # "none" /\ ~host.starting /\ ~AnyOpen(view) /\ host.rpc = "open"
       THEN Goes("read") /\ input' = input \union {<<"read", 0>>} /\ UNCHANGED <<host, start, cancel>>
       ELSE Reopens /\ UNCHANGED input
    /\ UNCHANGED <<native, out, view, buffer, driver, faults>>

\* planNativeCheckpoint: the history holds every Turn the host knows, and all are complete.
Planned(m) ==
    /\ m.child => host.known
    /\ \E n \in Natives : view[n].status # "none"
    /\ \A n \in Natives : view[n].status # "none" => view[n].status = "completed" /\ m.work[n] = "completed"
History(m) ==
    /\ IF ckpt.pc # "read" THEN UNCHANGED <<host, start, cancel, ckpt>>
       ELSE IF Planned(m)
       THEN /\ ckpt' = [pc |-> "prepare", child |-> m.child, manifest |-> view, work |-> m.work]
            /\ UNCHANGED <<host, start, cancel>>
       ELSE Reopens
    /\ UNCHANGED <<native, input, view, buffer, driver, faults>>

\* The configuration was read and the verifier prepared.
Prepared ==
    /\ ckpt.pc = "prepare"
    /\ IF Quiescent /\ host.rpc = "open" THEN Goes("begin") /\ UNCHANGED <<host, start, cancel>> ELSE Reopens
    /\ UNCHANGED <<native, input, out, view, buffer, driver, faults>>

InspectFails ==
    /\ ckpt.pc \in {"read", "prepare"} /\ (host.rpc # "open" \/ Fault)
    /\ Reopens
    /\ host.rpc # "open" => UNCHANGED faults
    /\ UNCHANGED <<native, input, out, view, buffer, driver>>

\* The durable begin, then shutdownNative asks for the loaded threads once more.
Begin ==
    /\ ckpt.pc = "begin"
    /\ IF Quiescent /\ host.rpc = "open"
       THEN Goes("loaded") /\ input' = input \union {<<"loaded", 0>>} /\ UNCHANGED <<host, start, cancel>>
       ELSE Failing /\ UNCHANGED input
    /\ UNCHANGED <<native, out, view, buffer, driver, faults>>

Loaded(m) ==
    /\ IF ckpt.pc # "loaded" THEN UNCHANGED <<host, start, cancel, ckpt, input>>
       ELSE IF (m.child => ckpt.child) /\ Quiescent /\ host.rpc = "open"
       THEN /\ Goes("eof")
            /\ host' = [host EXCEPT !.rpc = "eof"]
            /\ input' = input \union {<<"eof", 0>>}
            /\ UNCHANGED <<start, cancel>>
       ELSE Failing /\ UNCHANGED input
    /\ UNCHANGED <<native, view, buffer, driver, faults>>

\* closeCheckpoint: the process closed after its output was drained; then disconnected().
Drained ==
    /\ ckpt.pc = "eof" /\ ~native.up /\ out = <<>>
    /\ view' = IF host.closed THEN view ELSE Stopped(view)
    /\ IF native.eof /\ Quiescent
       THEN /\ Goes("flush")
            /\ host' = Disconnected(host)
            /\ UNCHANGED <<start, cancel>>
       ELSE /\ Goes("failing")
            /\ host' = [Closing(Disconnected(host)) EXCEPT !.failure = TRUE]
            /\ RejectCalls
    /\ UNCHANGED <<native, input, out, buffer, driver, faults>>

\* stopRemainingWriters, flushJournal and syncStorage.
Flushed ==
    /\ ckpt.pc = "flush"
    /\ Goes("verify")
    /\ UNCHANGED <<native, input, out, host, view, buffer, start, cancel, driver, faults>>

\* A cold harness reads the candidate: the same turns with the same content.
Restored == \A n \in Natives : ckpt.work[n] = (IF n \in native.disk THEN native.turns[n].work
                                              ELSE IF n = 0 THEN ckpt.work[0] ELSE "none")
Verify ==
    /\ ckpt.pc = "verify"
    /\ IF Restored /\ Quiescent THEN Goes("commit") /\ UNCHANGED <<host, start, cancel>> ELSE Failing
    /\ UNCHANGED <<native, input, out, view, buffer, driver, faults>>

\* commit, and the end of checkpoint(): the Run may finish.
Commit ==
    /\ ckpt.pc = "commit"
    /\ IF Quiescent
       THEN /\ Goes("committed")
            /\ \E failed \in BOOLEAN :
                 /\ host' = [host EXCEPT !.checkpointing = FALSE, !.finished = TRUE, !.failure = failed]
                 /\ IF failed THEN Fault ELSE UNCHANGED faults
            /\ UNCHANGED <<start, cancel>>
       ELSE Failing /\ UNCHANGED faults
    /\ UNCHANGED <<native, input, out, view, buffer, driver>>

BarrierFails ==
    /\ \/ ckpt.pc \in {"begin", "loaded", "eof", "flush", "verify", "commit"} /\ Fault
       \/ ckpt.pc = "loaded" /\ host.rpc # "open" /\ UNCHANGED faults
    /\ Failing
    /\ UNCHANGED <<native, input, out, view, buffer, driver>>

\* finally: the harness is gone, and the Run finishes with the failure remembered.
EndCheckpoint ==
    /\ ckpt.pc = "failing" /\ ~native.up
    /\ Goes("failed")
    /\ host' = [Disconnected(host) EXCEPT !.checkpointing = FALSE, !.finished = TRUE]
    /\ view' = IF host.closed THEN view ELSE Stopped(view)
    /\ UNCHANGED <<native, input, out, buffer, start, cancel, driver, faults>>

-----------------------------------------------------------------------------

\* One line of the stream.
Deliver ==
    /\ out # <<>> /\ host.ready
    /\ out' = Tail(out)
    /\ LET m == Head(out)
       IN  CASE m.kind = "bound" -> StartReply(m)
             [] m.kind = "refused" -> StartRefused
             [] m.kind = "acknowledged" -> InterruptReply(m)
             [] m.kind = "read" -> History(m)
             [] m.kind = "loaded" -> Loaded(m)
             [] m.kind = "spawned" -> Announced
             [] OTHER -> Hears(m)

Harness ==
    \/ \E t \in Turns : ReadStart(t)
    \/ \E n \in Natives : ReadInterrupt(n) \/ Stops(n) \/ ReadAnswer(n) \/ Completes(n) \/ Calls(n) \/ Errs(n)
    \/ \E kind \in {"read", "loaded"} : ReadQuery(kind)
    \/ Spawns \/ ChildWorks \/ Hydrates \/ ReadEof \/ Dies \/ Killed

Runtime ==
    \/ Abort \/ Initialize \/ InitializeFails \/ StartInitial \/ StartNext \/ DriverEnds \/ Deliver
    \/ \E t \in Turns : TierAnswered(t) \/ Cancel(t) \/ CancelTimeout(t) \/ StartTimeout(t)
    \/ \E n \in Natives : Answer(n)

Checkpoints ==
    \/ Checkpoint \/ Sealed \/ InspectIdle \/ Prepared \/ InspectFails \/ Begin \/ Drained
    \/ Flushed \/ Verify \/ Commit \/ BarrierFails \/ EndCheckpoint

Next == Harness \/ Runtime \/ Checkpoints

Spec == Init /\ [][Next]_vars

-----------------------------------------------------------------------------

Working(n) == native.turns[n].work \in {"running", "stopping"}
Together(m, n) ==
    /\ m # n /\ native.turns[m].of # NoTurn /\ native.turns[n].of # NoTurn
    /\ Working(m) /\ Working(n)

\* A public Turn runs at most once in the harness (start, startTurn), it is bound to the native turn
\* started for it and never to that of a fork's source (event, bindSessionTurn), an interruption
\* that returned means the harness works on it no more (cancel, waitForTerminal), and no Turn starts
\* beside another (rootTurnBusy): the last two unless the harness reported an error of it that it
\* would not retry.
OneNativeTurn ==
    /\ \A m, n \in Natives : native.turns[m].of # NoTurn /\ native.turns[m].of = native.turns[n].of => m = n
    /\ \A n \in Natives : view[n].turn # NoTurn => native.turns[n].of = view[n].turn
    /\ \A n \in Natives : \A t \in Turns :
         cancel[t] = "ok" /\ native.turns[n].of = t => ~Working(n) \/ native.turns[n].erred
    /\ \A m, n \in Natives : Together(m, n) => native.turns[m].erred \/ native.turns[n].erred

\* "Observe the exact existing binding before admitting another public Turn": without the exception.
\* It does not hold: README.md, section 7.
OneAtATime == \A m, n \in Natives : ~Together(m, n)

\* A committed checkpoint holds all the harness ever did, complete, as the host published it
\* (planNativeCheckpoint, assertQuiescent, the cold verification); and a Run whose checkpoint
\* failed after begin is not reported as done (checkpointFailure, assertSuccessfulShutdown).
CheckpointIsWhole ==
    /\ ckpt.pc = "committed" =>
         \A n \in Natives \ {0} :
             native.turns[n].work # "none" =>
                 native.turns[n].work = "completed" /\ view[n].status = "completed" /\ n \in native.disk
    /\ ckpt.pc \in {"failing", "failed"} => driver # "done"
=============================================================================
