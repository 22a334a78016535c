---------------------------- MODULE RunLifecycle ----------------------------
(***************************************************************************)
(* One private Run from its durable record to a terminal status.           *)
(*                                                                         *)
(* Five kinds of actor share the Run record and nothing else:              *)
(*   - SQS deliveries of the Run's wake-up, handled by RunDispatcher;      *)
(*   - workers (runAgentWorker), one per host a backend launched;          *)
(*   - a client that asks RunService to cancel;                            *)
(*   - invocations of the scheduled reconciler;                            *)
(*   - the cloud, which suspends, resumes and ends hosts.                  *)
(* A step of an actor is one call on the store, the queue or a host, with  *)
(* the local computation up to the next call; anything may happen between  *)
(* two steps.                                                              *)
(*                                                                         *)
(* Abstractions: the generation is constant (see DynamoRunStore); staleness*)
(* cutoffs and the one-hour expiry are not timed, a reconciler may pick up *)
(* an attached Run at any time; a stale index read is a read made earlier. *)
(* Runs do not interact, so one Run is enough.                             *)
(***************************************************************************)
EXTENDS DynamoRunStore

CONSTANTS
    Deliveries,       \* dispatcher invocations that may overlap
    Reconcilers,      \* reconciler invocations that may overlap
    MaxClock,         \* bound: no heartbeat is written after this many timestamps
    MaxFaults,        \* bound: crashes, transient errors and forgotten tokens
    QuarantineAfter,  \* ActiveRunReconcilerOptions.quarantineAfter
    StoreErrors       \* whose store calls may fail for a reason other than their condition

ASSUME BoundsAssumption ==
    /\ MaxClock \in Nat
    /\ MaxFaults \in Nat
    /\ QuarantineAfter \in Nat \ {0}
    /\ StoreErrors \subseteq {"dispatcher", "worker"}

VARIABLES
    run,      \* the Run record in DynamoDB
    wake,     \* is a wake-up for this Run visible in the queue
    token,    \* host the backend remembers for the Run's client token
    host,     \* host[v]: state of the host v
    dlv,      \* dlv[d]: local state of the delivery d
    wrk,      \* wrk[v]: local state of the worker on host v
    client,   \* program counter of RunService.cancel
    rec,      \* rec[r]: local state of the reconciler invocation r
    clock,    \* last timestamp taken
    faults    \* faults so far

vars == <<run, wake, token, host, dlv, wrk, client, rec, clock, faults>>

-----------------------------------------------------------------------------
HostState == {"off", "up", "suspended", "stopped", "terminated"}
Down == {"stopped", "terminated"}

DeliveryPc == {"idle", "claim", "start", "startFailed", "attach", "stop", "settle"}
DeliveryState ==
    {x \in [pc : DeliveryPc, vm : Vms \cup {None}, conflict : BOOLEAN] :
        x.pc \in {"attach", "stop", "settle"} => x.vm \in Vms}
IdleDelivery == [pc |-> "idle", vm |-> None, conflict |-> FALSE]

WorkerPc == {"none", "boot", "wait", "settle", "start", "work", "finalize", "finish",
             "catch", "cancelling", "failing", "exited", "crashed"}
Outcome == {"succeeded", "failed", "cancelled"}
WorkerState ==
    {x \in [pc : WorkerPc, execution : Vms \cup {Pending, None}, heartbeatAt : Heartbeat,
            startedAt : Heartbeat, beating : BOOLEAN, outcome : Outcome \cup {None}] :
        x.pc \in {"finalize", "finish"} => x.outcome \in Outcome}
\* execution and heartbeatAt are those of `current`, the record the worker read last.
Worker(pc) == [pc |-> pc, execution |-> None, heartbeatAt |-> None,
               startedAt |-> None, beating |-> FALSE, outcome |-> None]

AttachedRun == {r \in RunRecord : r.execution \in Vms}
ReconcilerState ==
    {x \in [pc : {"idle", "inspect", "act", "settle"}, snap : RunRecord \cup {None},
            decision : {"observe", "cancel", "stop", "fail", "expire", None},
            observation : Liveness \cup {None}] :
        /\ x.pc \in {"inspect", "act"} => x.snap \in AttachedRun
        /\ x.pc = "act" /\ x.decision = "observe" => x.observation \in Liveness}
IdleReconciler == [pc |-> "idle", snap |-> None, decision |-> None, observation |-> None]

Init ==
    /\ run = QueuedRun
    /\ wake \in BOOLEAN          \* submit() may have failed to enqueue
    /\ token = None
    /\ host = [v \in Vms |-> "off"]
    /\ dlv = [d \in Deliveries |-> IdleDelivery]
    /\ wrk = [v \in Vms |-> Worker("none")]
    /\ client = "idle"
    /\ rec = [r \in Reconcilers |-> IdleReconciler]
    /\ clock = 0
    /\ faults = 0

Fault == faults < MaxFaults /\ faults' = faults + 1

Now == clock + 1

\* Ending a host ends its worker, at whatever step it is.
EndHost(v, state) ==
    IF host[v] \in {"up", "suspended"}
    THEN /\ host' = [host EXCEPT ![v] = state]
         /\ wrk' = [wrk EXCEPT ![v] =
              IF @.pc \in {"exited", "crashed"} THEN @ ELSE Worker("crashed")]
    ELSE UNCHANGED <<host, wrk>>

-----------------------------------------------------------------------------
(* RunDispatcher.dispatch *)

\* The handler returned: SQS deletes the message.
Return(d) == dlv' = [dlv EXCEPT ![d] = IdleDelivery]

\* The handler threw or the invocation died: the message becomes visible again,
\* or its receive count is exhausted and it is dead-lettered.
Throw(d) == Return(d) /\ wake' \in {TRUE, wake}

\* dispatchAdmission
Dispatchable(r) ==
    \/ r.status = "queued"
    \/ r.status \in {"dispatching", "running"} /\ r.execution \in {None, Pending}

\* Receive a wake-up and read the Run. Another copy may stay in the queue.
DReceive(d) ==
    /\ dlv[d].pc = "idle"
    /\ wake
    /\ wake' \in BOOLEAN
    /\ dlv' = [dlv EXCEPT ![d].pc =
         IF ~Dispatchable(run) THEN "idle"
         ELSE IF run.status = "queued" THEN "claim" ELSE "start"]
    /\ UNCHANGED <<run, token, host, wrk, client, rec, clock, faults>>

\* Mutant: a won claim is taken for a started execution.
MutantClaimSkipsStart(d) ==
    /\ dlv[d].pc = "claim"
    /\ IF UpdateOk(run, {"queued"})
       THEN run' = Claim(run) /\ dlv' = [dlv EXCEPT ![d].pc = "attach"]
       ELSE Return(d) /\ UNCHANGED run
    /\ UNCHANGED <<wake, token, host, wrk, client, rec, clock, faults>>

\* transition(queued -> dispatching). A lost race means another delivery owns the start.
DClaim(d) ==
    /\ dlv[d].pc = "claim"
    /\ IF UpdateOk(run, {"queued"})
       THEN run' = Claim(run) /\ dlv' = [dlv EXCEPT ![d].pc = "start"]
       ELSE Return(d) /\ UNCHANGED run
    /\ UNCHANGED <<wake, token, host, wrk, client, rec, clock, faults>>

\* executor.start: the backend returns the host its client token names, or a new one.
DStart(d) ==
    /\ dlv[d].pc = "start"
    /\ \E v \in Vms :
         /\ IF token = None
            THEN /\ host[v] = "off"
                 /\ token' = v
                 /\ host' = [host EXCEPT ![v] = "up"]
                 /\ wrk' = [wrk EXCEPT ![v] = Worker("boot")]
            ELSE v = token /\ UNCHANGED <<token, host, wrk>>
         /\ \/ /\ dlv' = [dlv EXCEPT ![d].pc = "attach", ![d].vm = v]
               /\ UNCHANGED <<wake, faults>>
            \* The launch happened and its answer was lost.
            \/ Throw(d) /\ Fault
    /\ UNCHANGED <<run, client, rec, clock>>

\* executor.start failed before launching: retryable errors are rethrown, others
\* fail the Run in the next step.
DStartFails(d) ==
    /\ dlv[d].pc = "start"
    /\ Fault
    /\ \/ Throw(d)
       \/ dlv' = [dlv EXCEPT ![d].pc = "startFailed"] /\ UNCHANGED wake
    /\ UNCHANGED <<run, token, host, wrk, client, rec, clock>>

DFailStart(d) ==
    /\ dlv[d].pc = "startFailed"
    /\ IF UpdateOk(run, {"dispatching"})
       THEN run' = Update(run, "failed") /\ Return(d) /\ UNCHANGED wake
       ELSE Throw(d) /\ UNCHANGED run
    /\ UNCHANGED <<token, host, wrk, client, rec, clock, faults>>

DAttach(d) ==
    LET v == dlv[d].vm IN
    /\ dlv[d].pc = "attach"
    /\ IF AttachExecutionOk(run)
       THEN run' = AttachExecution(run, v, Now) /\ clock' = Now /\ Return(d)
       ELSE /\ UNCHANGED <<run, clock>>
            /\ IF AlreadyAttached(run, v)
               THEN Return(d)
               ELSE dlv' = [dlv EXCEPT ![d].pc = "stop", ![d].conflict = TRUE]
    /\ UNCHANGED <<wake, token, host, wrk, client, rec, faults>>

\* The update failed for another reason, whether or not it was applied.
DAttachError(d) ==
    /\ dlv[d].pc = "attach"
    /\ "dispatcher" \in StoreErrors
    /\ Fault
    /\ \/ UNCHANGED <<run, clock>>
       \/ /\ AttachExecutionOk(run)
          /\ run' = AttachExecution(run, dlv[d].vm, Now)
          /\ clock' = Now
    /\ dlv' = [dlv EXCEPT ![d].pc = "stop"]
    /\ UNCHANGED <<wake, token, host, wrk, client, rec>>

\* executor.stop, then the re-read that decides whether a cancellation is settled here.
DStop(d) ==
    /\ dlv[d].pc = "stop"
    /\ EndHost(dlv[d].vm, "stopped")
    /\ IF dlv[d].conflict /\ run.status = "cancelling"
       THEN dlv' = [dlv EXCEPT ![d].pc = "settle"] /\ UNCHANGED wake
       ELSE Throw(d)
    /\ UNCHANGED <<run, token, client, rec, clock, faults>>

DSettle(d) ==
    /\ dlv[d].pc = "settle"
    /\ IF UpdateOk(run, {"cancelling"})
       THEN run' = Update(run, "cancelled") /\ Return(d) /\ UNCHANGED wake
       ELSE Throw(d) /\ UNCHANGED run
    /\ UNCHANGED <<token, host, wrk, client, rec, clock, faults>>

\* The invocation dies between two calls.
DCrash(d) ==
    /\ dlv[d].pc # "idle"
    /\ Fault
    /\ Throw(d)
    /\ UNCHANGED <<run, token, host, wrk, client, rec, clock>>

Dispatcher(d) ==
    \/ DReceive(d) \/ DClaim(d) \/ DStart(d) \/ DStartFails(d) \/ DFailStart(d)
    \/ DAttach(d) \/ DAttachError(d) \/ DStop(d) \/ DSettle(d) \/ DCrash(d)

-----------------------------------------------------------------------------
(* runAgentWorker *)

At(v, pc) == host[v] = "up" /\ wrk[v].pc = pc
Goto(v, pc) == wrk' = [wrk EXCEPT ![v].pc = pc]
Exit(v) == wrk' = [wrk EXCEPT ![v] = Worker("exited")]

\* The first read. A Run that is no longer dispatching needs no worker.
WBoot(v) ==
    /\ At(v, "boot")
    /\ IF run.status # "dispatching"
       THEN Exit(v) /\ UNCHANGED clock
       ELSE /\ clock' = Now
            /\ wrk' = [wrk EXCEPT ![v] = [@ EXCEPT !.pc = "wait",
                 !.execution = run.execution, !.heartbeatAt = run.heartbeatAt,
                 !.startedAt = Now]]
    /\ UNCHANGED <<run, wake, token, host, dlv, client, rec, faults>>

Unattached == run.status = "dispatching" /\ run.execution \in {None, Pending}

\* waitForExecutionAttachment returns, and what the worker makes of the record.
WWait(v) ==
    /\ At(v, "wait")
    /\ ~Unattached
    /\ IF run.status \notin {"dispatching", "cancelling"}
       THEN Exit(v)
       ELSE wrk' = [wrk EXCEPT ![v] = [@ EXCEPT
              !.execution = run.execution, !.heartbeatAt = run.heartbeatAt,
              !.pc = IF run.status = "cancelling" THEN "settle"
                     ELSE IF run.execution = v THEN "start"
                     ELSE "catch"]]
    /\ UNCHANGED <<run, wake, token, host, dlv, client, rec, clock, faults>>

\* It times out on an unattached Run, or reading the input fails before it.
WWaitFails(v) ==
    /\ At(v, "wait")
    /\ \/ Unattached /\ UNCHANGED faults
       \/ Fault
    /\ Goto(v, "catch")
    /\ UNCHANGED <<run, wake, token, host, dlv, client, rec, clock>>

WSettle(v) ==
    /\ At(v, "settle")
    /\ IF UpdateOk(run, {"cancelling"})
       THEN run' = Update(run, "cancelled") /\ Exit(v)
       ELSE Goto(v, "catch") /\ UNCHANGED run
    /\ UNCHANGED <<wake, token, host, dlv, client, rec, clock, faults>>

WStart(v) ==
    /\ At(v, "start")
    /\ IF StartExecutionOk(run, wrk[v].execution)
       THEN /\ run' = StartExecution(run, wrk[v].startedAt)
            /\ wrk' = [wrk EXCEPT ![v] = [@ EXCEPT !.pc = "work", !.beating = TRUE,
                                          !.heartbeatAt = wrk[v].startedAt]]
       ELSE Goto(v, "catch") /\ UNCHANGED run
    /\ UNCHANGED <<wake, token, host, dlv, client, rec, clock, faults>>

\* ExecutionHeartbeat.tick. It runs until the finally block, so also while an error
\* is being handled; losing authority stops it.
WHeartbeat(v) ==
    /\ host[v] = "up"
    /\ wrk[v].beating
    /\ IF HeartbeatExecutionOk(run, v)
       THEN /\ clock < MaxClock
            /\ clock' = Now
            /\ run' = HeartbeatExecution(run, Now)
            /\ UNCHANGED wrk
       ELSE /\ wrk' = [wrk EXCEPT ![v].beating = FALSE]
            /\ UNCHANGED <<run, clock>>
    /\ UNCHANGED <<wake, token, host, dlv, client, rec, faults>>

\* The harness ends with an outcome, or preparing it throws.
WWork(v) ==
    /\ At(v, "work")
    /\ \/ \E outcome \in Outcome :
            wrk' = [wrk EXCEPT ![v].pc = "finalize", ![v].outcome = outcome]
       \/ Goto(v, "catch")
    /\ UNCHANGED <<run, wake, token, host, dlv, client, rec, clock, faults>>

\* Re-read before finalizing: a requested cancellation overrides the outcome.
WFinalize(v) ==
    /\ At(v, "finalize")
    /\ wrk' = [wrk EXCEPT ![v] = [@ EXCEPT !.pc = "finish",
         !.outcome = IF run.status = "cancelling" THEN "cancelled" ELSE wrk[v].outcome]]
    /\ UNCHANGED <<run, wake, token, host, dlv, client, rec, clock, faults>>

WFinish(v) ==
    /\ At(v, "finish")
    /\ IF FinishExecutionOk(run, wrk[v].execution, wrk[v].outcome)
       THEN run' = Update(run, wrk[v].outcome) /\ Exit(v)
       ELSE Goto(v, "catch") /\ UNCHANGED run
    /\ UNCHANGED <<wake, token, host, dlv, client, rec, clock, faults>>

\* startExecution or finishExecution is applied and its answer lost, or not applied.
WStoreError(v) ==
    /\ "worker" \in StoreErrors
    /\ Fault
    /\ \/ At(v, "start") \/ At(v, "finish")
    /\ \/ UNCHANGED run
       \/ /\ wrk[v].pc = "start"
          /\ StartExecutionOk(run, wrk[v].execution)
          /\ run' = StartExecution(run, wrk[v].startedAt)
       \/ /\ wrk[v].pc = "finish"
          /\ FinishExecutionOk(run, wrk[v].execution, wrk[v].outcome)
          /\ run' = Update(run, wrk[v].outcome)
    /\ Goto(v, "catch")
    /\ UNCHANGED <<wake, token, host, dlv, client, rec, clock>>

\* latest?.heartbeatAt ?? current.heartbeatAt ?? startedAt
FailureFence(v) ==
    IF run.heartbeatAt # None THEN run.heartbeatAt
    ELSE IF wrk[v].heartbeatAt # None THEN wrk[v].heartbeatAt
    ELSE wrk[v].startedAt

\* The catch block reads the latest record and chooses what to write.
WCatch(v) ==
    /\ At(v, "catch")
    /\ wrk' = [wrk EXCEPT ![v] = [@ EXCEPT !.outcome = None,
         !.pc = IF run.status = "cancelling" THEN "cancelling" ELSE "failing",
         !.heartbeatAt = FailureFence(v)]]
    /\ UNCHANGED <<run, wake, token, host, dlv, client, rec, clock, faults>>

WCancelExecution(v) ==
    /\ At(v, "cancelling")
    /\ run' = IF CancelExecutionOk(run, wrk[v].execution)
              THEN Update(run, "cancelled") ELSE run
    /\ Exit(v)
    /\ UNCHANGED <<wake, token, host, dlv, client, rec, clock, faults>>

WFailExecution(v) ==
    /\ At(v, "failing")
    /\ run' = IF FailExecutionOk(run, wrk[v].execution, wrk[v].heartbeatAt)
              THEN Update(run, "failed") ELSE run
    /\ Exit(v)
    /\ UNCHANGED <<wake, token, host, dlv, client, rec, clock, faults>>

\* The worker process dies; its host stays.
WCrash(v) ==
    /\ host[v] = "up"
    /\ wrk[v].pc \notin {"exited", "crashed"}
    /\ Fault
    /\ wrk' = [wrk EXCEPT ![v] = Worker("crashed")]
    /\ UNCHANGED <<run, wake, token, host, dlv, client, rec, clock>>

WorkerStep(v) ==
    \/ WBoot(v) \/ WWait(v) \/ WWaitFails(v) \/ WSettle(v) \/ WStart(v)
    \/ WHeartbeat(v) \/ WWork(v) \/ WFinalize(v) \/ WFinish(v) \/ WStoreError(v)
    \/ WCatch(v) \/ WCancelExecution(v) \/ WFailExecution(v) \/ WCrash(v)

-----------------------------------------------------------------------------
(* RunService.cancel *)

CRead ==
    /\ client = "idle"
    /\ run.status \notin Terminal
    /\ client' = CASE run.status = "queued" -> "queued"
                   [] run.status = "cancelling" -> "stop"
                   [] OTHER -> "transition"
    /\ UNCHANGED <<run, wake, token, host, dlv, wrk, rec, clock, faults>>

\* A condition that fails is an error for the caller, who may ask again.
CCancelQueued ==
    /\ client = "queued"
    /\ run' = IF UpdateOk(run, {"queued"}) THEN Update(run, "cancelled") ELSE run
    /\ client' = "idle"
    /\ UNCHANGED <<wake, token, host, dlv, wrk, rec, clock, faults>>

CTransition ==
    /\ client = "transition"
    /\ IF UpdateOk(run, {"dispatching", "running"})
       THEN run' = Update(run, "cancelling") /\ client' = "stop"
       ELSE client' = "idle" /\ UNCHANGED run
    /\ UNCHANGED <<wake, token, host, dlv, wrk, rec, clock, faults>>

\* The attachment cannot change once cancelling, so the record read is the current one.
CStop ==
    /\ client = "stop"
    /\ IF run.execution \in Vms THEN EndHost(run.execution, "stopped")
                                ELSE UNCHANGED <<host, wrk>>
    /\ client' = "idle"
    /\ UNCHANGED <<run, wake, token, dlv, rec, clock, faults>>

\* The request dies before the stop.
CCrash ==
    /\ client = "stop"
    /\ Fault
    /\ client' = "idle"
    /\ UNCHANGED <<run, wake, token, host, dlv, wrk, rec, clock>>

Client == CRead \/ CCancelQueued \/ CTransition \/ CStop \/ CCrash

-----------------------------------------------------------------------------
(* The scheduled reconciler: lambdas/reconciler.ts and ActiveRunReconciler *)

\* requeue and redriveUnattachedExecutions
RNudge ==
    /\ Dispatchable(run)
    /\ ~wake
    /\ wake' = TRUE
    /\ UNCHANGED <<run, token, host, dlv, wrk, client, rec, clock, faults>>

\* Mutant: unattached cancellations are left to the dispatcher and the worker.
MutantReadAttachedOnly(r) ==
    /\ rec[r].pc = "idle"
    /\ run.status \in {"dispatching", "running", "cancelling"}
    /\ run.execution \in Vms
    /\ rec' = [rec EXCEPT ![r].snap = run, ![r].pc = "inspect"]
    /\ UNCHANGED <<run, wake, token, host, dlv, wrk, client, clock, faults>>

\* Read a Run from an index. Only attached Runs are inspected; an unattached
\* cancellation is settled directly.
RRead(r) ==
    /\ rec[r].pc = "idle"
    /\ run.status \in {"dispatching", "running", "cancelling"}
    /\ run.execution \in Vms \/ run.status = "cancelling"
    /\ rec' = [rec EXCEPT ![r].snap = run,
                          ![r].pc = IF run.execution \in Vms THEN "inspect" ELSE "settle"]
    /\ UNCHANGED <<run, wake, token, host, dlv, wrk, client, clock, faults>>

RSettle(r) ==
    /\ rec[r].pc = "settle"
    /\ run' = IF UpdateOk(run, {"cancelling"}) THEN Update(run, "cancelled") ELSE run
    /\ rec' = [rec EXCEPT ![r] = IdleReconciler]
    /\ UNCHANGED <<wake, token, host, dlv, wrk, client, clock, faults>>

\* What inspecting a host can prove; anything may also end in uncertainty.
Evidence(v) ==
    CASE host[v] \in Down -> {"terminal", "absent"}
      [] host[v] = "suspended" -> {"suspended"}
      [] wrk[v].pc \in {"exited", "crashed"} -> {"inactive"}
      [] OTHER -> {"active"}
Uncertain == {"conflict", "unknown"}

\* Mutant: a suspended host is taken for a lost one.
MutantDecisionSuspendedLost(snap, kind, expired) ==
    CASE kind \in Uncertain -> "observe"
      [] kind \notin Uncertain /\ snap.status = "cancelling" ->
           IF kind \in {"terminal", "absent"} THEN "cancel" ELSE "stop"
      [] kind = "active" /\ snap.status # "cancelling" ->
           IF expired THEN "expire" ELSE "observe"
      [] OTHER -> "fail"

\* reconciliationDecision; expired says whether the keep-alives stopped for an hour.
Decision(snap, kind, expired) ==
    CASE kind \in Uncertain -> "observe"
      [] kind \notin Uncertain /\ snap.status = "cancelling" ->
           IF kind \in {"terminal", "absent"} THEN "cancel" ELSE "stop"
      [] kind = "suspended" /\ snap.status # "cancelling" -> "observe"
      [] kind = "active" /\ snap.status # "cancelling" ->
           IF expired THEN "expire" ELSE "observe"
      [] OTHER -> "fail"

\* livenessObservation; counts past the quarantine threshold are not told apart.
Observation(snap, kind) ==
    [outcome |-> kind,
     uncertain |->
       IF kind \notin Uncertain THEN 0
       ELSE LET prior == IF snap.liveness = None THEN 0
                         ELSE IF snap.liveness.outcome = kind
                              THEN snap.liveness.uncertain ELSE 0
            IN  IF prior + 1 > QuarantineAfter THEN QuarantineAfter ELSE prior + 1]

RInspect(r, kinds) ==
    /\ rec[r].pc = "inspect"
    /\ LET snap == rec[r].snap IN
       \E kind \in kinds : \E expired \in BOOLEAN :
         LET decision == Decision(snap, kind, expired) IN
         rec' = [rec EXCEPT ![r] = [@ EXCEPT !.pc = "act", !.decision = decision,
                   !.observation = IF decision = "observe"
                                   THEN Observation(snap, kind) ELSE None]]
    /\ UNCHANGED <<run, wake, token, host, dlv, wrk, client, clock, faults>>

RInspectProven(r) == rec[r].pc = "inspect" /\ RInspect(r, Evidence(rec[r].snap.execution))
RInspectUncertain(r) == RInspect(r, Uncertain)

RObserve(r) ==
    LET snap == rec[r].snap IN
    /\ rec[r].pc = "act"
    /\ rec[r].decision = "observe"
    /\ run' = IF RecordLivenessInspectionOk(run, snap.execution, snap.heartbeatAt)
              THEN RecordLivenessInspection(run, rec[r].observation) ELSE run
    /\ rec' = [rec EXCEPT ![r] = IdleReconciler]
    /\ UNCHANGED <<wake, token, host, dlv, wrk, client, clock, faults>>

RCancel(r) ==
    /\ rec[r].pc = "act"
    /\ rec[r].decision = "cancel"
    /\ run' = IF CancelExecutionOk(run, rec[r].snap.execution)
              THEN Update(run, "cancelled") ELSE run
    /\ rec' = [rec EXCEPT ![r] = IdleReconciler]
    /\ UNCHANGED <<wake, token, host, dlv, wrk, client, clock, faults>>

\* Both decisions fail the Run under the heartbeat read before the inspection; an
\* expired worker is stopped only after that write succeeded.
RFail(r) ==
    LET snap == rec[r].snap
        ok == FailExecutionOk(run, snap.execution, snap.heartbeatAt) IN
    /\ rec[r].pc = "act"
    /\ rec[r].decision \in {"fail", "expire"}
    /\ run' = IF ok THEN Update(run, "failed") ELSE run
    /\ rec' = [rec EXCEPT ![r] = IF ok /\ rec[r].decision = "expire"
                                 THEN [@ EXCEPT !.decision = "stop"] ELSE IdleReconciler]
    /\ UNCHANGED <<wake, token, host, dlv, wrk, client, clock, faults>>

RStop(r) ==
    /\ rec[r].pc = "act"
    /\ rec[r].decision = "stop"
    /\ EndHost(rec[r].snap.execution, "stopped")
    /\ rec' = [rec EXCEPT ![r] = IdleReconciler]
    /\ UNCHANGED <<run, wake, token, dlv, client, clock, faults>>

\* The invocation dies between two calls.
RCrash(r) ==
    /\ rec[r].pc # "idle"
    /\ Fault
    /\ rec' = [rec EXCEPT ![r] = IdleReconciler]
    /\ UNCHANGED <<run, wake, token, host, dlv, wrk, client, clock>>

\* TerminalWorkerReconciler: neither a terminal status nor its attachment changes
\* between the read and the stop, so they are one step.
RetireWorker(v) ==
    /\ host[v] \in {"up", "suspended"}
    /\ run.status \in Terminal
    /\ run.execution = v
    /\ EndHost(v, "stopped")
    /\ UNCHANGED <<run, wake, token, dlv, client, rec, clock, faults>>

Reconciler(r) ==
    \/ RRead(r) \/ RSettle(r) \/ RInspectProven(r) \/ RInspectUncertain(r)
    \/ RObserve(r) \/ RCancel(r) \/ RFail(r) \/ RStop(r) \/ RCrash(r)

-----------------------------------------------------------------------------
(* The cloud: not under src/, as the executors and the inspector rely on it *)

Suspend(v) ==
    /\ host[v] = "up"
    /\ host' = [host EXCEPT ![v] = "suspended"]
    /\ UNCHANGED <<run, wake, token, dlv, wrk, client, rec, clock, faults>>

Resume(v) ==
    /\ host[v] = "suspended"
    /\ host' = [host EXCEPT ![v] = "up"]
    /\ UNCHANGED <<run, wake, token, dlv, wrk, client, rec, clock, faults>>

\* The host reaches its maximum lifetime or is lost.
HostEnds(v) ==
    /\ host[v] \in {"up", "suspended"}
    /\ EndHost(v, "terminated")
    /\ UNCHANGED <<run, wake, token, dlv, client, rec, clock, faults>>

\* The backend forgets a client token: a later start launches a second host.
ForgetToken ==
    /\ token # None
    /\ \E v \in Vms : host[v] = "off"
    /\ Fault
    /\ token' = None
    /\ UNCHANGED <<run, wake, host, dlv, wrk, client, rec, clock>>

Cloud == ForgetToken \/ \E v \in Vms : Suspend(v) \/ Resume(v) \/ HostEnds(v)

-----------------------------------------------------------------------------
Next ==
    \/ \E d \in Deliveries : Dispatcher(d)
    \/ \E v \in Vms : WorkerStep(v)
    \/ Client
    \/ RNudge
    \/ \E r \in Reconcilers : Reconciler(r)
    \/ \E v \in Vms : RetireWorker(v)
    \/ Cloud

Spec == Init /\ [][Next]_vars

(***************************************************************************)
(* Fairness.  SQS hands out visible messages and the reconciler runs on a  *)
(* schedule; started handlers and workers keep going; an inspection that   *)
(* is tried again and again is answered at last; a host has a maximum      *)
(* lifetime (maximumDurationInSeconds).  Nothing makes a client cancel, a  *)
(* wake-up arrive or a fault happen.                                       *)
(***************************************************************************)
Fairness ==
    /\ \A d \in Deliveries :
         WF_vars(\/ DReceive(d) \/ DClaim(d) \/ DStart(d) \/ DFailStart(d)
                 \/ DAttach(d) \/ DStop(d) \/ DSettle(d))
    /\ \A v \in Vms :
         /\ WF_vars(\/ WBoot(v) \/ WWait(v) \/ WSettle(v) \/ WStart(v) \/ WFinalize(v)
                    \/ WFinish(v) \/ WCatch(v) \/ WCancelExecution(v) \/ WFailExecution(v))
         /\ WF_vars(HostEnds(v))
    /\ WF_vars(RNudge)
    /\ \A r \in Reconcilers :
         /\ WF_vars(\/ RRead(r) \/ RSettle(r) \/ RObserve(r) \/ RCancel(r)
                    \/ RFail(r) \/ RStop(r))
         /\ SF_vars(RInspectProven(r))

FairSpec == Spec /\ Fairness

-----------------------------------------------------------------------------
(* Properties *)

\* Every variable keeps its type, an attachment names a launched host and only an
\* attached Run is inspected.
TypeOK ==
    /\ run \in RunRecord
    /\ wake \in BOOLEAN
    /\ token \in Vms \cup {None}
    /\ host \in [Vms -> HostState]
    /\ dlv \in [Deliveries -> DeliveryState]
    /\ wrk \in [Vms -> WorkerState]
    /\ client \in {"idle", "queued", "transition", "stop"}
    /\ rec \in [Reconcilers -> ReconcilerState]
    /\ clock \in Nat
    /\ faults \in Nat

\* The Run record implements RunContract: whatever the interleaving, its status
\* follows domain/state.ts and the attached worker is never replaced.
Contract == INSTANCE RunContract WITH status <- run.status, execution <- run.execution
RefinesContract == Contract!Spec

\* Only the attached worker executes the agent, also when a backend launched two
\* hosts for the Run (startExecution is conditional on the exact attachment).
OnlyAttachedWorkerExecutes ==
    \A v \in Vms : wrk[v].pc \in {"work", "finalize", "finish"} =>
        /\ run.execution = v
        /\ run.status \notin {"queued", "dispatching"}

\* What makes it inductive: a Run has an execution reference from its claim on, and
\* a worker passes the identity check only with its own attachment.
RunAttachment ==
    /\ run.status = "queued" => run.execution = None
    /\ run.status \in {"dispatching", "running", "cancelling"} => run.execution # None
WorkerIdentity ==
    \A v \in Vms : wrk[v].pc \in {"start", "work", "finalize", "finish"} =>
        wrk[v].execution = v
AuthorityInv == RunAttachment /\ WorkerIdentity /\ OnlyAttachedWorkerExecutes

\* The reconciler reports a Run as lost only when its attached worker is gone for
\* good, although the evidence is older than the write (ActiveRunReconciler, 'fail').
LostMeansGone ==
    [][\A r \in Reconcilers :
         (/\ rec[r].pc = "act" /\ rec[r].decision = "fail"
          /\ rec'[r] # rec[r]
          /\ run.status # "failed" /\ run'.status = "failed")
         => \/ host[run.execution] \in Down
            \/ wrk[run.execution].pc \in {"exited", "crashed"}]_vars

\* No writer fails a Run whose worker has written a heartbeat since that writer
\* decided to fail it: neither a reconciler that inspected nor a failing worker.
HeartbeatDefeatsFailure ==
    [][(run.status = "running" /\ run'.status = "failed") =>
         \/ \E r \in Reconcilers : /\ rec[r].pc = "act" /\ rec'[r] # rec[r]
                                   /\ rec[r].snap.heartbeatAt = run.heartbeatAt
         \/ \E v \in Vms : /\ wrk[v].pc = "failing" /\ wrk'[v] # wrk[v]
                            /\ wrk[v].heartbeatAt = run.heartbeatAt
         \/ \E v \in Vms : wrk[v].pc = "finish" /\ wrk'[v] # wrk[v]]_vars

\* The control plane never stops the host attached to a Run that is still wanted:
\* a stop comes after a cancellation or a terminal status (attachExecution,
\* "Treat an attachment that has already won as success").
AttachedHostNotStopped ==
    [][\A v \in Vms : (host[v] # "stopped" /\ host'[v] = "stopped" /\ run.execution = v)
         => run.status \notin {"dispatching", "running"}]_vars

\* A Run is failed as lost only when its host or its worker is gone, and the host of an
\* attached Run is not stopped while the worker has authority.
RepairIsTrue == LostMeansGone /\ AttachedHostNotStopped

\* A requested cancellation ends the Run without success whatever crashes, and
\* without the client (reconcileCancellations). A failure already being written wins.
CancellationSettles == run.status = "cancelling" ~> run.status \in {"cancelled", "failed"}

\* A durable Run reaches a terminal status even if its wake-up was never enqueued
\* and its worker never starts (requeue, redriveUnattachedExecutions).
RunSettles == <>(run.status \in Terminal)
=============================================================================
