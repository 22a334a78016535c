--------------------------- MODULE DynamoRunStore ---------------------------
(***************************************************************************)
(* The conditional writes of the private Run record.                       *)
(*                                                                         *)
(* Every writer of a Run (API, dispatcher, worker, reconciler) goes        *)
(* through DynamoRunStore, whose methods are single DynamoDB updates with  *)
(* a ConditionExpression.  Each method is one "...Ok" operator, the        *)
(* condition, and one operator that yields the written record.  All of     *)
(* them are pure; the modules that extend this one decide when they are    *)
(* called and what the caller does when the condition fails.               *)
(*                                                                         *)
(* The execution generation is a hash of the Run's immutable fields, so it *)
(* is constant for one Run and is left out.  An execution reference is     *)
(* then the worker it names, or Pending before one is attached.            *)
(***************************************************************************)
EXTENDS Naturals

CONSTANTS
    Vms,        \* worker hosts a backend may return for this Run
    Pending,    \* execution reference with id 'pending'
    None        \* an absent attribute

ASSUME VmsAssumption == Pending \notin Vms /\ None \notin Vms /\ Pending # None

ASSUME NoneAssumption == None \notin Nat

-----------------------------------------------------------------------------
\* domain/state.ts

RunStatus == {"queued", "dispatching", "running", "cancelling",
              "succeeded", "failed", "cancelled"}

\* isTerminal
Terminal == {"succeeded", "failed", "cancelled"}

-----------------------------------------------------------------------------
\* Heartbeat timestamps are compared for equality only; a later timestamp is
\* a larger number.
Heartbeat == Nat \cup {None}

LivenessOutcome == {"active", "suspended", "conflict", "unknown"}

Liveness == [outcome : LivenessOutcome, uncertain : Nat]

RunRecord ==
    [status      : RunStatus,
     execution   : Vms \cup {Pending, None},
     heartbeatAt : Heartbeat,
     liveness    : Liveness \cup {None}]

\* createQueuedRun: what create() puts under attribute_not_exists(runId).
QueuedRun == [status |-> "queued", execution |-> None,
              heartbeatAt |-> None, liveness |-> None]

\* update(): SET status WHERE status IN from.
UpdateOk(r, from) == r.status \in from
Update(r, to) == [r EXCEPT !.status = to]

\* transition(['queued'], 'dispatching', { execution: pending }).
Claim(r) == [r EXCEPT !.status = "dispatching", !.execution = Pending]

\* Mutant: the attachment condition forgets the execution.
MutantAttachAnyExecution(r) == r.status \in {"dispatching", "running"}
AttachExecutionOk(r) ==
    /\ r.status \in {"dispatching", "running"}
    /\ r.execution \in {None, Pending}
AttachExecution(r, vm, now) ==
    [r EXCEPT !.execution = vm, !.heartbeatAt = now, !.liveness = None]
\* The branch taken after the condition failed: the same attachment already won.
AlreadyAttached(r, vm) == r.execution = vm

\* Condition shared by updateExactExecution and terminalizeExactExecution
\* without a heartbeat fence.
ExactExecution(r, vm, statuses) == r.status \in statuses /\ r.execution = vm

StartExecutionOk(r, vm) == ExactExecution(r, vm, {"dispatching"})
StartExecution(r, startedAt) ==
    [r EXCEPT !.status = "running", !.heartbeatAt = startedAt, !.liveness = None]

HeartbeatExecutionOk(r, vm) == ExactExecution(r, vm, {"running"})
HeartbeatExecution(r, now) == [r EXCEPT !.heartbeatAt = now, !.liveness = None]

\* Mutant: no heartbeat fence.
MutantFailWithoutFence(r, vm, expectedHeartbeatAt) ==
    ExactExecution(r, vm, {"dispatching", "running"})
FailExecutionOk(r, vm, expectedHeartbeatAt) ==
    /\ ExactExecution(r, vm, {"dispatching", "running"})
    /\ r.heartbeatAt = expectedHeartbeatAt

\* cancelExecution without a result, the only form the callers use.
CancelExecutionOk(r, vm) == ExactExecution(r, vm, {"cancelling"})

\* Mutant: success is accepted while a cancellation is pending.
MutantFinishIgnoresCancel(r, vm, status) == ExactExecution(r, vm, {"running", "cancelling"})
FinishExecutionOk(r, vm, status) ==
    ExactExecution(r, vm, IF status = "succeeded" THEN {"running"}
                                                  ELSE {"running", "cancelling"})

RecordLivenessInspectionOk(r, vm, expectedHeartbeatAt) ==
    /\ ExactExecution(r, vm, {"dispatching", "running", "cancelling"})
    /\ r.heartbeatAt = expectedHeartbeatAt
RecordLivenessInspection(r, observation) == [r EXCEPT !.liveness = observation]

=============================================================================
