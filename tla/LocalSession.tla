---------------------------- MODULE LocalSession ----------------------------
(***************************************************************************)
(* Turns of one Session on the user's own computer                         *)
(* (runner/local-session-execution.ts): the harness runs on the host, its  *)
(* commands in an isolated worker.  A durable attempt is recorded before   *)
(* the harness is asked to start a Turn, so that a host which stops in     *)
(* between never runs the Turn twice; snapshots of the harness are written *)
(* behind, in order; and a cancelled Turn is published only after its      *)
(* worker has gone.                                                        *)
(*                                                                         *)
(* Operations of a Session run one at a time (LocalRuntimeLifecycle), with *)
(* the harness, the writes and the reads of a live Session between their   *)
(* steps.  The worker outlives the host, the harness does not.             *)
(***************************************************************************)
EXTENDS Naturals, Sequences

CONSTANTS
    LastTurn,     \* Turns 1 .. LastTurn of the Session
    MaxFaults     \* bound on crashes, failures and waits for a slot

Assumptions == LastTurn \in Nat \ {0} /\ MaxFaults \in Nat

Turns == 1 .. LastTurn
NoTurn == 0

VARIABLES
    hosted,    \* the Session has a managed environment
    asked,     \* Turns whose cancellation the Session's record requests
    attempt,   \* the durable local_turn_attempts
    saved,     \* the durable local_runtime snapshot
    writes,    \* snapshots still to be written
    snap,      \* the snapshot in memory
    runtime,   \* the Session's entry in `runtimes`, and what its harness reported
    native,    \* what the harness does with each Turn
    worker,    \* the worker is up
    tails,     \* Turns with a process left in the worker
    cancelling,
    op,        \* the operation that holds the Session
    said,      \* the outcome observe first gave
    faults

vars == <<hosted, asked, attempt, saved, writes, snap, runtime, native, worker, tails, cancelling, op, said,
          faults>>

Status == {"none", "open", "completed", "failed", "cancelled"}
Ended == {"completed", "failed", "cancelled"}
Views == [Turns -> Status]
NoView == [t \in Turns |-> "none"]
Idle == [kind |-> "none", turn |-> NoTurn, pc |-> "none", created |-> FALSE, then |-> "none"]
NoRuntime == [pc |-> "none", view |-> NoView]

\* Types of the records, the memory of the host and the harness.
TypeOK ==
    /\ hosted \in BOOLEAN /\ worker \in BOOLEAN
    /\ asked \in SUBSET Turns /\ tails \in SUBSET Turns
    /\ attempt \in Views /\ saved \in Views /\ snap \in Views /\ writes \in Seq(Views)
    /\ runtime.pc \in {"none", "launch", "live", "closed"} /\ runtime.view \in Views
    /\ native \in [Turns -> {"none", "running", "ended", "again"}]
    /\ cancelling \in Turns \union {NoTurn}
    /\ op.kind \in {"none", "start", "cancel", "close", "finish"} /\ op.turn \in Turns \union {NoTurn}
    /\ said \in Views /\ faults \in 0 .. MaxFaults

Init ==
    /\ hosted \in BOOLEAN
    /\ asked = {} /\ tails = {} /\ worker = FALSE
    /\ attempt = NoView /\ saved = NoView /\ snap = NoView /\ writes = <<>>
    /\ runtime = NoRuntime
    /\ native = [t \in Turns |-> "none"]
    /\ cancelling = NoTurn /\ op = Idle
    /\ said = NoView /\ faults = 0

Fault == faults < MaxFaults /\ faults' = faults + 1
memory == <<snap, writes>>
guest == <<worker, tails>>
outside == <<hosted, asked, said>>

\* stoppedSessionRuntime.
Stopped(view) == [t \in Turns |-> IF view[t] = "open" THEN "failed" ELSE view[t]]
\* saveSnapshot: in memory at once, on disk after the writes before it.
Save(view) == snap' = view /\ writes' = Append(writes, view)
\* changed: while a cancellation is under way nothing is published.
Publish(view) == IF cancelling = NoTurn THEN Save(view) ELSE UNCHANGED memory

At(pc) == op' = [op EXCEPT !.pc = pc]
Return == op' = Idle

-----------------------------------------------------------------------------
(* The harness and the writes.                                             *)

\* The head of the chain reaches the store; a failed write closes the harness.
Write ==
    /\ writes # <<>>
    /\ saved' = Head(writes) /\ writes' = Tail(writes)
    /\ UNCHANGED <<hosted, asked, attempt, snap, runtime, native, worker, tails, cancelling, op, said, faults>>

\* What the runtime becomes when its harness has gone: runtime.close, idle, expiry or death.
HarnessGone ==
    /\ native' = [t \in Turns |-> IF native[t] \in {"running", "again"} THEN "ended" ELSE native[t]]
    /\ runtime' = [runtime EXCEPT !.pc = "closed", !.view = Stopped(@)]

\* The harness dies, or is closed after its time or after idling.
Finishes ==
    /\ runtime.pc = "live"
    /\ HarnessGone
    /\ Publish(Stopped(runtime.view))
    /\ UNCHANGED <<hosted, asked, attempt, saved, worker, tails, cancelling, op, said, faults>>

\* A Turn completes; a command it started may go on in the worker.
Completes(t) ==
    /\ runtime.pc = "live" /\ native[t] = "running" /\ runtime.view[t] = "open"
    /\ native' = [native EXCEPT ![t] = "ended"]
    /\ runtime' = [runtime EXCEPT !.view[t] = "completed"]
    /\ Publish(runtime'.view)
    /\ UNCHANGED <<hosted, asked, attempt, saved, worker, tails, cancelling, op, said, faults>>

Command(t) ==
    /\ runtime.pc = "live" /\ native[t] = "running" /\ worker /\ t \notin tails
    /\ tails' = tails \union {t}
    /\ UNCHANGED <<hosted, asked, attempt, saved, memory, runtime, native, worker, cancelling, op, said, faults>>

\* The host stops: memory and harness are lost, the store and the worker stay.
Crash ==
    /\ Fault
    /\ runtime' = NoRuntime /\ snap' = NoView /\ writes' = <<>>
    /\ native' = [t \in Turns |-> IF native[t] = "running" THEN "ended" ELSE native[t]]
    /\ cancelling' = NoTurn /\ op' = Idle
    /\ UNCHANGED <<hosted, asked, attempt, saved, worker, tails, said>>

-----------------------------------------------------------------------------
(* start.                                                                  *)

\* startTurn: not twice, not under a cancellation, not without a slot.
Startable(t) == attempt[t] = "none" /\ cancelling = NoTurn
Start(t) ==
    /\ op = Idle /\ (t > 1 => said[t - 1] # "none") /\ Startable(t)
    /\ op' = [Idle EXCEPT !.kind = "start", !.turn = t, !.pc = "launch", !.created = runtime.pc = "none"]
    /\ UNCHANGED <<hosted, asked, attempt, saved, memory, runtime, native, guest, cancelling, said, faults>>

\* recoverState awaits the writes and closes what a stopped host left open.
Recover == writes = <<>> /\ saved' = Stopped(saved)

\* A worker is started for the launch; the one that was there is removed first.
WorkerStarts == IF hosted THEN worker' = TRUE /\ tails' = {} ELSE UNCHANGED guest

Launch ==
    /\ op.kind = "start" /\ op.pc = "launch" /\ op.created
    /\ Recover
    /\ snap' = Stopped(saved) /\ UNCHANGED writes
    /\ runtime' = [pc |-> "live", view |-> Stopped(saved)]
    /\ WorkerStarts
    /\ At("admit")
    /\ UNCHANGED <<hosted, asked, attempt, native, cancelling, said, faults>>

Reuse ==
    /\ op.kind = "start" /\ op.pc = "launch" /\ ~op.created
    /\ At("admit")
    /\ UNCHANGED <<hosted, asked, attempt, saved, memory, runtime, native, guest, cancelling, said, faults>>

\* The launch or the admission fails: a wait for resources leaves the Turn untried, and keeps a
\* harness that was there; anything else fails the attempt.
StartFails ==
    /\ op.kind = "start" /\ op.pc \in {"launch", "admit"} /\ Fault
    /\ \E waits \in BOOLEAN :
         IF waits /\ ~op.created THEN Return
         ELSE op' = [op EXCEPT !.pc = "close", !.then = IF waits THEN "none" ELSE "fail"]
    /\ UNCHANGED <<hosted, asked, attempt, saved, memory, runtime, native, guest, cancelling, said>>

\* The attempt that never reached the harness is recorded as failed.
FailNew ==
    /\ op.kind = "start" /\ op.pc = "fail"
    /\ attempt' = [attempt EXCEPT ![op.turn] = "failed"]
    /\ Return
    /\ UNCHANGED <<hosted, asked, saved, memory, runtime, native, guest, cancelling, said, faults>>

Admitted ==
    /\ op.kind = "start" /\ op.pc = "admit" /\ (hosted => worker)
    /\ op' = [op EXCEPT !.pc = "record", !.then = IF op.turn \in asked THEN "cancelled" ELSE "open"]
    /\ UNCHANGED <<hosted, asked, attempt, saved, memory, runtime, native, guest, cancelling, said, faults>>

\* The durable attempt, with what the record said of a cancellation; it may fail to be written.
Record ==
    /\ op.kind = "start" /\ op.pc = "record"
    /\ \/ /\ attempt' = [attempt EXCEPT ![op.turn] = op.then]
          /\ IF op.then = "open" THEN At("recheck")
             ELSE IF op.created THEN op' = [op EXCEPT !.pc = "close", !.then = "none"] ELSE Return
          /\ UNCHANGED faults
       \/ /\ Fault
          /\ op' = [op EXCEPT !.pc = "close", !.then = "none"]
          /\ UNCHANGED attempt
    /\ UNCHANGED <<hosted, asked, saved, memory, runtime, native, guest, cancelling, said>>

\* The request may have come between the check and the attempt.
Recheck ==
    /\ op.kind = "start" /\ op.pc = "recheck"
    /\ IF op.turn \in asked
       THEN /\ attempt' = [attempt EXCEPT ![op.turn] = "cancelled"]
            /\ IF op.created THEN op' = [op EXCEPT !.pc = "close", !.then = "none"] ELSE Return
       ELSE At("native") /\ UNCHANGED attempt
    /\ UNCHANGED <<hosted, asked, saved, memory, runtime, native, guest, cancelling, said, faults>>

\* runtime.start: the harness starts the Turn, or the attempt fails and the Session is closed.
NativeStarts ==
    /\ op.kind = "start" /\ op.pc = "native"
    /\ \/ /\ runtime.pc = "live"
          /\ native' = [native EXCEPT ![op.turn] = IF @ = "none" THEN "running" ELSE "again"]
          /\ runtime' = [runtime EXCEPT !.view[op.turn] = "open"]
          /\ Publish(runtime'.view)
          /\ At("written")
          /\ UNCHANGED <<attempt, faults>>
       \/ /\ IF runtime.pc = "live" THEN Fault ELSE UNCHANGED faults
          /\ attempt' = [attempt EXCEPT ![op.turn] = "failed"]
          /\ op' = [op EXCEPT !.pc = "close", !.then = "none"]
          /\ UNCHANGED <<native, runtime, memory>>
    /\ UNCHANGED <<hosted, asked, saved, guest, cancelling, said>>

Written ==
    /\ op.kind = "start" /\ op.pc = "written" /\ writes = <<>>
    /\ Return
    /\ UNCHANGED <<hosted, asked, attempt, saved, memory, runtime, native, guest, cancelling, said, faults>>

-----------------------------------------------------------------------------
(* closeSession, the end of the harness, and cancellation.                 *)

\* managed.close: the worker and every descendant stop, or that cannot be confirmed.
WorkerStops == worker' = FALSE /\ tails' = {}
Forgets == runtime' = NoRuntime

\* closeSession, as the end of a start or on its own; under a cancellation it is cancelManaged.
Close ==
    /\ \/ op.kind \in {"start", "close"} /\ op.pc = "close" /\ cancelling = NoTurn
       \/ op.kind = "finish" /\ op.pc = "close"
    /\ native' = [t \in Turns |-> IF native[t] = "running" THEN "ended" ELSE native[t]]
    /\ IF runtime.pc = "live" THEN Publish(Stopped(runtime.view)) ELSE UNCHANGED memory
    /\ Forgets
    /\ \/ /\ IF hosted THEN WorkerStops ELSE UNCHANGED guest
          /\ IF op.then = "fail" THEN op' = [op EXCEPT !.pc = "fail", !.then = "none"] ELSE Return
          /\ UNCHANGED faults
       \/ hosted /\ Fault /\ Return /\ UNCHANGED guest
    /\ UNCHANGED <<hosted, asked, attempt, saved, cancelling, said>>

\* The Session is closed or deleted.
CloseSession ==
    /\ op = Idle
    /\ \E t \in Turns : said[t] = "none" /\ attempt[t] # "none"
    /\ op' = IF cancelling = NoTurn THEN [Idle EXCEPT !.kind = "close", !.pc = "close"]
             ELSE [Idle EXCEPT !.kind = "cancel", !.turn = cancelling, !.pc = "stop"]
    /\ UNCHANGED <<hosted, asked, attempt, saved, memory, runtime, native, guest, cancelling, said, faults>>

\* runtime.finished: the entry is dropped and the worker closed, unless a cancellation does it.
Finished ==
    /\ op = Idle /\ runtime.pc = "closed" /\ cancelling = NoTurn
    /\ op' = [Idle EXCEPT !.kind = "finish", !.pc = "close"]
    /\ UNCHANGED <<hosted, asked, attempt, saved, memory, runtime, native, guest, cancelling, said, faults>>

\* cancel: of a Turn the harness runs, or of an attempt nobody runs.
Cancel(t) ==
    /\ op = Idle /\ t \in asked /\ said[t] = "none"
    /\ LET managed == [Idle EXCEPT !.kind = "cancel", !.turn = t, !.pc = "stop"]
       IN  \/ /\ cancelling = t
              /\ op' = managed /\ UNCHANGED cancelling
           \/ /\ cancelling = NoTurn /\ runtime.view[t] = "open"
              /\ IF hosted THEN op' = managed /\ cancelling' = t
                 ELSE op' = [managed EXCEPT !.pc = "interrupt"] /\ UNCHANGED cancelling
           \/ /\ cancelling = NoTurn /\ runtime.view[t] = "none" /\ attempt[t] = "open"
              /\ op' = [managed EXCEPT !.pc = "abandon"] /\ UNCHANGED cancelling
    /\ UNCHANGED <<hosted, asked, attempt, saved, memory, runtime, native, guest, said, faults>>

\* Without an environment the harness's own terminal notification is published; or it never comes.
Interrupt ==
    /\ op.kind = "cancel" /\ op.pc = "interrupt"
    /\ IF runtime.pc = "live" /\ native[op.turn] = "running"
       THEN \/ /\ native' = [native EXCEPT ![op.turn] = "ended"]
               /\ runtime' = [runtime EXCEPT !.view[op.turn] = "cancelled"]
               /\ Publish(runtime'.view)
               /\ UNCHANGED faults
            \/ Fault /\ UNCHANGED <<native, runtime, memory>>
       ELSE UNCHANGED <<native, runtime, memory, faults>>
    /\ Return
    /\ UNCHANGED <<hosted, asked, attempt, saved, guest, cancelling, said>>

\* An attempt the host no longer runs: its worker stops before it is called cancelled.
Abandon ==
    /\ op.kind = "cancel" /\ op.pc = "abandon"
    /\ \/ /\ IF hosted THEN WorkerStops ELSE UNCHANGED guest
          /\ attempt' = [attempt EXCEPT ![op.turn] = "cancelled"]
          /\ UNCHANGED faults
       \/ hosted /\ Fault /\ UNCHANGED <<guest, attempt>>
    /\ Return
    /\ UNCHANGED <<hosted, asked, saved, memory, runtime, native, cancelling, said>>

\* cancelManaged: worker and harness are closed together, and both must have succeeded.
MutantStopManaged ==  \* Mutant: the cancellation is published whether or not the worker has stopped.
    /\ op.kind = "cancel" /\ op.pc = "stop"
    /\ HarnessGone
    /\ \/ WorkerStops /\ At("save") /\ UNCHANGED faults
       \/ Fault /\ At("save") /\ UNCHANGED guest
    /\ UNCHANGED <<hosted, asked, attempt, saved, memory, cancelling, said>>
StopManaged ==
    /\ op.kind = "cancel" /\ op.pc = "stop"
    /\ HarnessGone
    /\ \/ WorkerStops /\ At("save") /\ UNCHANGED faults
       \/ Fault /\ Return /\ UNCHANGED guest
    /\ UNCHANGED <<hosted, asked, attempt, saved, memory, cancelling, said>>

SaveCancelled ==
    /\ op.kind = "cancel" /\ op.pc = "save"
    /\ Save([Stopped(runtime.view) EXCEPT ![op.turn] = "cancelled"])
    /\ At("forget")
    /\ UNCHANGED <<hosted, asked, attempt, saved, runtime, native, guest, cancelling, said, faults>>

Forget ==
    /\ op.kind = "cancel" /\ op.pc = "forget" /\ writes = <<>>
    /\ attempt' = [attempt EXCEPT ![op.turn] = "cancelled"]
    /\ Forgets /\ cancelling' = NoTurn
    /\ Return
    /\ UNCHANGED <<hosted, asked, saved, memory, native, guest, said, faults>>

-----------------------------------------------------------------------------
(* The Session's service: it requests cancellations and asks for outcomes. *)

Ask(t) ==
    /\ t \notin asked /\ said[t] = "none"
    /\ asked' = asked \union {t}
    /\ UNCHANGED <<hosted, attempt, saved, memory, runtime, native, guest, cancelling, op, said, faults>>

\* The outcome it keeps is the first one.
Says(t, status) == said' = [said EXCEPT ![t] = IF status \in Ended THEN status ELSE "none"]

\* observe with a live entry answers from memory, at any time.
ObserveLive(t) ==
    /\ runtime.pc # "none" /\ said[t] = "none"
    /\ Says(t, IF snap[t] # "none" THEN snap[t] ELSE attempt[t])
    /\ UNCHANGED <<hosted, asked, attempt, saved, memory, runtime, native, guest, cancelling, op, faults>>

MutantObserveStopped(t) ==  \* Mutant: an attempt nobody runs is not failed.
    /\ op = Idle /\ runtime.pc = "none" /\ said[t] = "none" /\ attempt[t] # "none"
    /\ Recover /\ snap' = Stopped(saved) /\ UNCHANGED writes
    /\ Says(t, IF saved'[t] # "none" THEN saved'[t] ELSE attempt[t])
    /\ UNCHANGED <<hosted, asked, attempt, runtime, native, guest, cancelling, op, faults>>
\* Otherwise it waits its turn, recovers the snapshot and fails an attempt nobody runs.
ObserveStopped(t) ==
    /\ op = Idle /\ runtime.pc = "none" /\ said[t] = "none" /\ attempt[t] # "none"
    /\ Recover /\ snap' = Stopped(saved) /\ UNCHANGED writes
    /\ attempt' = IF saved'[t] = "none" /\ attempt[t] = "open" THEN [attempt EXCEPT ![t] = "failed"] ELSE attempt
    /\ Says(t, IF saved'[t] # "none" THEN saved'[t] ELSE attempt'[t])
    /\ UNCHANGED <<hosted, asked, runtime, native, guest, cancelling, op, faults>>

-----------------------------------------------------------------------------

Operates ==
    \/ Launch \/ Reuse \/ FailNew \/ Admitted \/ Record \/ Recheck \/ NativeStarts \/ Written
    \/ Close \/ Interrupt \/ Abandon \/ StopManaged \/ SaveCancelled \/ Forget

Next ==
    \/ Write \/ Finishes \/ Crash \/ Operates \/ StartFails \/ CloseSession \/ Finished
    \/ \E t \in Turns : Completes(t) \/ Command(t) \/ Start(t) \/ Cancel(t) \/ Ask(t) \/ ObserveLive(t) \/ ObserveStopped(t)

\* The host keeps serving its operations, its writes and the Session's questions, a question that
\* waits until no operation runs (LocalRuntimeLifecycle) among them; a harness ends (its lifetime
\* is bounded).
Fairness ==
    /\ WF_vars(Write) /\ WF_vars(Operates) /\ WF_vars(Finishes) /\ WF_vars(Finished)
    /\ \A t \in Turns : WF_vars(ObserveLive(t)) /\ SF_vars(ObserveStopped(t)) /\ WF_vars(Cancel(t))

Spec == Init /\ [][Next]_vars /\ Fairness

-----------------------------------------------------------------------------

\* A Turn reaches the harness at most once, whatever the host loses (the attempt put before
\* runtime.start); and once it is called cancelled neither the harness nor a process of it in the
\* worker goes on (cancelManaged, and cancel of an attempt nobody runs).
CancelledIsStopped ==
    \A t \in Turns :
        /\ native[t] # "again"
        /\ "cancelled" \in {said[t], saved[t], attempt[t]} => native[t] # "running" /\ t \notin tails

\* An attempt the host recorded has an outcome in the end.
AttemptsSettle == \A t \in Turns : (attempt[t] # "none") ~> (said[t] # "none")
=============================================================================
