------------------------ MODULE RunLifecycle_proofs ------------------------
(***************************************************************************)
(* Proofs about RunLifecycle for every number of hosts, deliveries and     *)
(* reconcilers and every bound.                                            *)
(***************************************************************************)
EXTENDS RunLifecycle, TLAPS

\* Every conditional write of DynamoRunStore yields a well-formed record.
LEMMA WritesKeepType ==
    ASSUME NEW r \in RunRecord
    PROVE  /\ \A to \in RunStatus : Update(r, to) \in RunRecord
           /\ Claim(r) \in RunRecord
           /\ \A vm \in Vms, now \in Nat : AttachExecution(r, vm, now) \in RunRecord
           /\ \A at \in Heartbeat : StartExecution(r, at) \in RunRecord
           /\ \A now \in Nat : HeartbeatExecution(r, now) \in RunRecord
           /\ \A o \in Liveness : RecordLivenessInspection(r, o) \in RunRecord
  BY DEF RunRecord, RunStatus, Heartbeat, Update, Claim, AttachExecution,
         StartExecution, HeartbeatExecution, RecordLivenessInspection

\* Ending a host changes only that host and its worker, and keeps their types.
LEMMA EndHostKeepsType ==
    ASSUME TypeOK, NEW v \in Vms, NEW state \in HostState, EndHost(v, state)
    PROVE  host' \in [Vms -> HostState] /\ wrk' \in [Vms -> WorkerState]
  <1>1. Worker("crashed") \in WorkerState
    BY DEF Worker, WorkerState, WorkerPc, Heartbeat, Outcome
  <1> QED
    BY <1>1 DEF TypeOK, EndHost

\* A worker's local state is well formed when it is created and when it is gone.
LEMMA NewWorkerType ==
    Worker("boot") \in WorkerState /\ Worker("exited") \in WorkerState
      /\ Worker("crashed") \in WorkerState
  BY DEF Worker, WorkerState, WorkerPc, Heartbeat, Outcome

\* What an observation records has the type of the liveness attribute.
LEMMA ObservationType ==
    ASSUME NEW snap \in RunRecord, NEW kind \in LivenessOutcome
    PROVE  Observation(snap, kind) \in Liveness
  BY BoundsAssumption, NoneAssumption
     DEF Observation, Liveness, LivenessOutcome, Uncertain, RunRecord

InspectionKind == LivenessOutcome \cup {"inactive", "terminal", "absent"}

\* Only an outcome that can be recorded is observed.
LEMMA ObservedKinds ==
    ASSUME NEW snap \in RunRecord, NEW kind \in InspectionKind, NEW expired \in BOOLEAN
    PROVE  /\ Decision(snap, kind, expired) \in {"observe", "cancel", "stop", "fail", "expire"}
           /\ Decision(snap, kind, expired) = "observe" => kind \in LivenessOutcome
  BY DEF Decision, InspectionKind, LivenessOutcome, Uncertain

\* An inspection keeps the reconciler's local state well formed.
LEMMA InspectKeepsType ==
    ASSUME rec \in [Reconcilers -> ReconcilerState], NEW r \in Reconcilers,
           NEW kinds \in SUBSET InspectionKind, RInspect(r, kinds)
    PROVE  rec' \in [Reconcilers -> ReconcilerState]
  <1>1. rec[r] \in ReconcilerState /\ rec[r].snap \in RunRecord /\ rec[r].snap \in AttachedRun
    BY DEF RInspect, ReconcilerState, AttachedRun
  <1>2. PICK kind \in kinds, expired \in BOOLEAN :
          LET decision == Decision(rec[r].snap, kind, expired) IN
          rec' = [rec EXCEPT ![r] = [@ EXCEPT !.pc = "act", !.decision = decision,
                    !.observation = IF decision = "observe"
                                    THEN Observation(rec[r].snap, kind) ELSE None]]
    BY DEF RInspect
  <1> DEFINE decision == Decision(rec[r].snap, kind, expired)
             observation == IF decision = "observe"
                            THEN Observation(rec[r].snap, kind) ELSE None
  <1>3. /\ decision \in {"observe", "cancel", "stop", "fail", "expire"}
        /\ observation \in Liveness \cup {None}
        /\ decision = "observe" => observation \in Liveness
    BY <1>1, ObservedKinds, ObservationType
  <1>4. rec' = [rec EXCEPT ![r] = [@ EXCEPT !.pc = "act", !.decision = decision,
                                            !.observation = observation]]
    BY <1>2
  <1> HIDE DEF decision, observation
  <1> QED
    BY <1>1, <1>3, <1>4 DEF ReconcilerState

\* A dispatcher step keeps every type.
LEMMA DispatcherKeepsType ==
    ASSUME TypeOK, NEW d \in Deliveries, Dispatcher(d)
    PROVE  TypeOK'
  <1>a. /\ dlv[d] \in DeliveryState
        /\ dlv \in [Deliveries -> DeliveryState]
        /\ run \in RunRecord
        /\ clock \in Nat /\ faults \in Nat
    BY DEF TypeOK
  <1>b. \A x \in DeliveryState : [dlv EXCEPT ![d] = x] \in [Deliveries -> DeliveryState]
    BY <1>a
  <1>c. IdleDelivery \in DeliveryState
    BY DEF IdleDelivery, DeliveryState, DeliveryPc
  <1>1. CASE DReceive(d)
    <2>1. dlv' \in [Deliveries -> DeliveryState]
      BY <1>1, <1>a, <1>b, <1>c DEF DReceive, DeliveryState, DeliveryPc
    <2>2. wake' \in BOOLEAN
      BY <1>1 DEF DReceive
    <2> QED
      BY <1>1, <2>1, <2>2 DEF DReceive, TypeOK
  <1>2. CASE DClaim(d)
    <2>1. dlv' \in [Deliveries -> DeliveryState]
      BY <1>2, <1>a, <1>b, <1>c DEF DClaim, DeliveryState, DeliveryPc, Return
    <2>2. run' \in RunRecord
      BY <1>2, <1>a, WritesKeepType DEF DClaim, RunStatus
    <2> QED
      BY <1>2, <2>1, <2>2 DEF DClaim, TypeOK
  <1>3. CASE DStart(d)
    <2>1. \A v \in Vms : [dlv[d] EXCEPT !.pc = "attach", !.vm = v] \in DeliveryState
      BY <1>3, <1>a DEF DeliveryState, DeliveryPc
    <2>2. dlv' \in [Deliveries -> DeliveryState]
      BY <1>3, <2>1, <1>a, <1>b, <1>c DEF DStart, Return, Throw
    <2>3. wake' \in BOOLEAN
      BY <1>3 DEF DStart, Throw, TypeOK
    <2>4. faults' \in Nat
      BY <1>3, <1>a DEF DStart, Fault
    <2>5. token' \in Vms \cup {None}
      BY <1>3 DEF DStart, TypeOK
    <2>6. host' \in [Vms -> HostState]
      BY <1>3 DEF DStart, TypeOK, HostState
    <2>7. wrk' \in [Vms -> WorkerState]
      BY <1>3, NewWorkerType DEF DStart, TypeOK
    <2> QED
      BY <1>3, <2>1, <2>2, <2>3, <2>4, <2>5, <2>6, <2>7 DEF DStart, TypeOK
  <1>4. CASE DStartFails(d)
    <2>1. [dlv[d] EXCEPT !.pc = "startFailed"] \in DeliveryState
      BY <1>4, <1>a DEF DStartFails, DeliveryState, DeliveryPc
    <2>2. dlv' \in [Deliveries -> DeliveryState]
      BY <1>4, <2>1, <1>a, <1>b, <1>c DEF DStartFails, Return, Throw
    <2>3. wake' \in BOOLEAN
      BY <1>4 DEF DStartFails, Throw, TypeOK
    <2>4. faults' \in Nat
      BY <1>4, <1>a DEF DStartFails, Fault
    <2> QED
      BY <1>4, <2>1, <2>2, <2>3, <2>4 DEF DStartFails, TypeOK
  <1>5. CASE DFailStart(d)
    <2>1. dlv' \in [Deliveries -> DeliveryState]
      BY <1>5, <1>a, <1>b, <1>c DEF DFailStart, DeliveryState, DeliveryPc, Return, Throw
    <2>2. wake' \in BOOLEAN
      BY <1>5 DEF DFailStart, Throw, TypeOK
    <2>3. run' \in RunRecord
      BY <1>5, <1>a, WritesKeepType DEF DFailStart, RunStatus
    <2> QED
      BY <1>5, <2>1, <2>2, <2>3 DEF DFailStart, TypeOK
  <1>6. CASE DAttach(d)
    <2>1. dlv' \in [Deliveries -> DeliveryState]
      BY <1>6, <1>a, <1>b, <1>c DEF DAttach, DeliveryState, DeliveryPc, Return
    <2>2. run' \in RunRecord
      BY <1>6, <1>a, WritesKeepType DEF DAttach, RunStatus, Now, DeliveryState
    <2>3. clock' \in Nat
      BY <1>6, <1>a DEF DAttach, Now
    <2> QED
      BY <1>6, <2>1, <2>2, <2>3 DEF DAttach, TypeOK
  <1>7. CASE DAttachError(d)
    <2>1. dlv' \in [Deliveries -> DeliveryState]
      BY <1>7, <1>a, <1>b, <1>c DEF DAttachError, DeliveryState, DeliveryPc
    <2>2. run' \in RunRecord
      BY <1>7, <1>a, WritesKeepType DEF DAttachError, RunStatus, Now, DeliveryState
    <2>3. clock' \in Nat
      BY <1>7, <1>a DEF DAttachError, Now
    <2>4. faults' \in Nat
      BY <1>7, <1>a DEF DAttachError, Fault
    <2> QED
      BY <1>7, <2>1, <2>2, <2>3, <2>4 DEF DAttachError, TypeOK
  <1>8. CASE DStop(d)
    <2>1. [dlv[d] EXCEPT !.pc = "settle"] \in DeliveryState
      BY <1>8, <1>a DEF DStop, DeliveryState, DeliveryPc
    <2>2. dlv' \in [Deliveries -> DeliveryState]
      BY <1>8, <2>1, <1>a, <1>b, <1>c DEF DStop, Return, Throw
    <2>3. wake' \in BOOLEAN
      BY <1>8 DEF DStop, Throw, TypeOK
    <2>4. host' \in [Vms -> HostState] /\ wrk' \in [Vms -> WorkerState]
      BY <1>8, <1>a, EndHostKeepsType DEF DStop, DeliveryState, HostState
    <2> QED
      BY <1>8, <2>1, <2>2, <2>3, <2>4 DEF DStop, TypeOK
  <1>9. CASE DSettle(d)
    <2>1. dlv' \in [Deliveries -> DeliveryState]
      BY <1>9, <1>a, <1>b, <1>c DEF DSettle, DeliveryState, DeliveryPc, Return, Throw
    <2>2. wake' \in BOOLEAN
      BY <1>9 DEF DSettle, Throw, TypeOK
    <2>3. run' \in RunRecord
      BY <1>9, <1>a, WritesKeepType DEF DSettle, RunStatus
    <2> QED
      BY <1>9, <2>1, <2>2, <2>3 DEF DSettle, TypeOK
  <1>10. CASE DCrash(d)
    <2>1. dlv' \in [Deliveries -> DeliveryState]
      BY <1>10, <1>a, <1>b, <1>c DEF DCrash, DeliveryState, DeliveryPc, Return, Throw
    <2>2. wake' \in BOOLEAN
      BY <1>10 DEF DCrash, Throw, TypeOK
    <2>3. faults' \in Nat
      BY <1>10, <1>a DEF DCrash, Fault
    <2> QED
      BY <1>10, <2>1, <2>2, <2>3 DEF DCrash, TypeOK
  <1> QED
    BY <1>1, <1>2, <1>3, <1>4, <1>5, <1>6, <1>7, <1>8, <1>9, <1>10 DEF Dispatcher

\* A worker step keeps every type.
LEMMA WorkerKeepsType ==
    ASSUME TypeOK, NEW v \in Vms, WorkerStep(v)
    PROVE  TypeOK'
  <1>a. /\ wrk[v] \in WorkerState
        /\ wrk \in [Vms -> WorkerState]
        /\ run \in RunRecord
        /\ clock \in Nat /\ faults \in Nat
    BY DEF TypeOK
  <1>b. \A x \in WorkerState : [wrk EXCEPT ![v] = x] \in [Vms -> WorkerState]
    BY <1>a
  <1>1. CASE WBoot(v)
    <2>1. Now \in Heartbeat
      BY <1>1, <1>a DEF Now, Heartbeat
    <2>2. [wrk[v] EXCEPT !.pc = "wait", !.execution = run.execution,
                        !.heartbeatAt = run.heartbeatAt, !.startedAt = Now] \in WorkerState
      BY <1>1, <2>1, <1>a, ZenonT(60) DEF At, RunRecord, Heartbeat, WorkerState, WorkerPc, Outcome
    <2>3. wrk' \in [Vms -> WorkerState]
      BY <1>1, <2>2, <1>a, <1>b, NewWorkerType DEF WBoot, Exit
    <2>4. clock' \in Nat
      BY <1>1, <1>a DEF WBoot, Now
    <2> QED
      BY <1>1, <2>1, <2>2, <2>3, <2>4 DEF WBoot, TypeOK
  <1>2. CASE WWait(v)
    <2>1. \A pc \in {"settle", "start", "catch"} :
            [wrk[v] EXCEPT !.execution = run.execution, !.heartbeatAt = run.heartbeatAt,
                           !.pc = pc] \in WorkerState
      BY <1>2, <1>a DEF RunRecord, Heartbeat, WorkerState, WorkerPc, Outcome
    <2>2. wrk' \in [Vms -> WorkerState]
      BY <1>2, <2>1, <1>a, <1>b, NewWorkerType DEF WWait, Exit
    <2> QED
      BY <1>2, <2>1, <2>2 DEF WWait, TypeOK
  <1>3. CASE WWaitFails(v)
    <2>1. wrk' \in [Vms -> WorkerState]
      BY <1>3, <1>a, <1>b, NewWorkerType DEF WWaitFails, At, Goto, Exit, WorkerState, WorkerPc, Outcome
    <2>2. faults' \in Nat
      BY <1>3, <1>a DEF WWaitFails, Fault
    <2> QED
      BY <1>3, <2>1, <2>2 DEF WWaitFails, TypeOK
  <1>4. CASE WSettle(v)
    <2>1. wrk' \in [Vms -> WorkerState]
      BY <1>4, <1>a, <1>b, NewWorkerType DEF WSettle, At, Goto, Exit, WorkerState, WorkerPc, Outcome
    <2>2. run' \in RunRecord
      BY <1>4, <1>a, WritesKeepType DEF WSettle, RunStatus
    <2> QED
      BY <1>4, <2>1, <2>2 DEF WSettle, TypeOK
  <1>5. CASE WStart(v)
    <2>1. [wrk[v] EXCEPT !.pc = "work", !.beating = TRUE,
                        !.heartbeatAt = wrk[v].startedAt] \in WorkerState
      BY <1>5, <1>a DEF At, RunRecord, Heartbeat, WorkerState, WorkerPc, Outcome
    <2>2. [wrk[v] EXCEPT !.pc = "catch"] \in WorkerState
      BY <1>5, <1>a DEF At, RunRecord, Heartbeat, WorkerState, WorkerPc, Outcome
    <2>3. wrk' \in [Vms -> WorkerState]
      BY <1>5, <2>1, <2>2, <1>a, <1>b DEF WStart, Goto
    <2>4. wrk[v].startedAt \in Heartbeat
      BY <1>5, <1>a DEF WorkerState
    <2>5. run' \in RunRecord
      BY <1>5, <2>4, <1>a, WritesKeepType DEF WStart
    <2> QED
      BY <1>5, <2>1, <2>2, <2>3, <2>4, <2>5 DEF WStart, TypeOK
  <1>6. CASE WHeartbeat(v)
    <2>1. [wrk[v] EXCEPT !.beating = FALSE] \in WorkerState
      BY <1>6, <1>a DEF At, RunRecord, Heartbeat, WorkerState, WorkerPc, Outcome
    <2>2. wrk' \in [Vms -> WorkerState]
      BY <1>6, <2>1, <1>a, <1>b DEF WHeartbeat, TypeOK
    <2>3. run' \in RunRecord
      BY <1>6, <1>a, WritesKeepType DEF WHeartbeat, RunStatus, Now
    <2>4. clock' \in Nat
      BY <1>6, <1>a DEF WHeartbeat, Now
    <2> QED
      BY <1>6, <2>1, <2>2, <2>3, <2>4 DEF WHeartbeat, TypeOK
  <1>7. CASE WWork(v)
    <2>1. wrk' \in [Vms -> WorkerState]
      BY <1>7, <1>a, <1>b, NewWorkerType DEF WWork, At, Goto, Exit, WorkerState, WorkerPc, Outcome
    <2> QED
      BY <1>7, <2>1 DEF WWork, TypeOK
  <1>8. CASE WFinalize(v)
    <2>1. \A o \in Outcome : [wrk[v] EXCEPT !.pc = "finish", !.outcome = o] \in WorkerState
      BY <1>8, <1>a DEF WorkerState, WorkerPc, Outcome
    <2>2. wrk[v].outcome \in Outcome
      BY <1>8, <1>a DEF WFinalize, At, WorkerState
    <2>3. [wrk[v] EXCEPT !.pc = "finish",
           !.outcome = IF run.status = "cancelling" THEN "cancelled" ELSE wrk[v].outcome] \in WorkerState
      BY <1>8, <2>1, <2>2, <1>a DEF WorkerState, Outcome
    <2>4. wrk' \in [Vms -> WorkerState]
      BY <1>8, <2>3, <1>a, <1>b DEF WFinalize
    <2> QED
      BY <1>8, <2>1, <2>2, <2>3, <2>4 DEF WFinalize, TypeOK
  <1>9. CASE WFinish(v)
    <2>1. wrk' \in [Vms -> WorkerState]
      BY <1>9, <1>a, <1>b, NewWorkerType DEF WFinish, At, Goto, Exit, WorkerState, WorkerPc, Outcome
    <2>2. wrk[v].outcome \in RunStatus
      BY <1>9, <1>a DEF WFinish, At, WorkerState, Outcome, RunStatus
    <2>3. run' \in RunRecord
      BY <1>9, <2>2, <1>a, WritesKeepType DEF WFinish
    <2> QED
      BY <1>9, <2>1, <2>2, <2>3 DEF WFinish, TypeOK
  <1>10. CASE WStoreError(v)
    <2>1. wrk' \in [Vms -> WorkerState]
      BY <1>10, <1>a, <1>b, NewWorkerType DEF WStoreError, At, Goto, Exit, WorkerState, WorkerPc, Outcome
    <2>2. wrk[v].startedAt \in Heartbeat
      BY <1>10, <1>a DEF WorkerState
    <2>3. wrk[v].pc = "finish" => wrk[v].outcome \in RunStatus
      BY <1>10, <1>a DEF WorkerState, Outcome, RunStatus
    <2>4. run' \in RunRecord
      BY <1>10, <2>2, <2>3, <1>a, WritesKeepType DEF WStoreError
    <2>5. faults' \in Nat
      BY <1>10, <1>a DEF WStoreError, Fault
    <2> QED
      BY <1>10, <2>1, <2>2, <2>3, <2>4, <2>5 DEF WStoreError, TypeOK
  <1>11. CASE WCatch(v)
    <2>1. FailureFence(v) \in Heartbeat
      BY <1>11, <1>a DEF FailureFence, RunRecord, WorkerState
    <2>2. \A pc \in {"cancelling", "failing"} :
            [wrk[v] EXCEPT !.outcome = None, !.pc = pc, !.heartbeatAt = FailureFence(v)]
              \in WorkerState
      BY <1>11, <2>1, <1>a DEF WorkerState, WorkerPc
    <2>3. wrk' \in [Vms -> WorkerState]
      BY <1>11, <2>2, <1>a, <1>b DEF WCatch
    <2> QED
      BY <1>11, <2>1, <2>2, <2>3 DEF WCatch, TypeOK
  <1>12. CASE WCancelExecution(v)
    <2>1. wrk' \in [Vms -> WorkerState]
      BY <1>12, <1>a, <1>b, NewWorkerType DEF WCancelExecution, At, Goto, Exit, WorkerState, WorkerPc, Outcome
    <2>2. run' \in RunRecord
      BY <1>12, <1>a, WritesKeepType DEF WCancelExecution, RunStatus
    <2> QED
      BY <1>12, <2>1, <2>2 DEF WCancelExecution, TypeOK
  <1>13. CASE WFailExecution(v)
    <2>1. wrk' \in [Vms -> WorkerState]
      BY <1>13, <1>a, <1>b, NewWorkerType DEF WFailExecution, At, Goto, Exit, WorkerState, WorkerPc, Outcome
    <2>2. run' \in RunRecord
      BY <1>13, <1>a, WritesKeepType DEF WFailExecution, RunStatus
    <2> QED
      BY <1>13, <2>1, <2>2 DEF WFailExecution, TypeOK
  <1>14. CASE WCrash(v)
    <2>1. wrk' \in [Vms -> WorkerState]
      BY <1>14, <1>a, <1>b, NewWorkerType DEF WCrash, At, Goto, Exit, WorkerState, WorkerPc, Outcome
    <2>2. faults' \in Nat
      BY <1>14, <1>a DEF WCrash, Fault
    <2> QED
      BY <1>14, <2>1, <2>2 DEF WCrash, TypeOK
  <1> QED
    BY <1>1, <1>2, <1>3, <1>4, <1>5, <1>6, <1>7, <1>8, <1>9, <1>10, <1>11, <1>12, <1>13, <1>14 DEF WorkerStep

\* A reconciler step keeps every type.
LEMMA ReconcilerKeepsType ==
    ASSUME TypeOK, NEW r \in Reconcilers, Reconciler(r)
    PROVE  TypeOK'
  <1>a. /\ rec[r] \in ReconcilerState
        /\ rec \in [Reconcilers -> ReconcilerState]
        /\ run \in RunRecord
        /\ clock \in Nat /\ faults \in Nat
    BY DEF TypeOK
  <1>b. \A x \in ReconcilerState : [rec EXCEPT ![r] = x] \in [Reconcilers -> ReconcilerState]
    BY <1>a
  <1>c. IdleReconciler \in ReconcilerState
    BY DEF IdleReconciler, ReconcilerState
  <1>1. CASE RRead(r)
    <2>1. rec' \in [Reconcilers -> ReconcilerState]
      BY <1>1, <1>a, <1>b, <1>c DEF RRead, ReconcilerState, AttachedRun
    <2> QED
      BY <1>1, <2>1 DEF RRead, TypeOK
  <1>2. CASE RSettle(r)
    <2>1. rec' \in [Reconcilers -> ReconcilerState]
      BY <1>2, <1>a, <1>b, <1>c DEF RSettle, ReconcilerState
    <2>2. run' \in RunRecord
      BY <1>2, <1>a, WritesKeepType DEF RSettle, RunStatus
    <2> QED
      BY <1>2, <2>1, <2>2 DEF RSettle, TypeOK
  <1>3. CASE RInspectProven(r)
    <2>1. rec' \in [Reconcilers -> ReconcilerState]
      BY <1>3, <1>a, InspectKeepsType DEF RInspectProven, Evidence, InspectionKind, LivenessOutcome
    <2> QED
      BY <1>3, <2>1 DEF RInspectProven, RInspect, TypeOK
  <1>4. CASE RInspectUncertain(r)
    <2>1. rec' \in [Reconcilers -> ReconcilerState]
      BY <1>4, <1>a, InspectKeepsType DEF RInspectUncertain, Uncertain, InspectionKind, LivenessOutcome
    <2> QED
      BY <1>4, <2>1 DEF RInspectUncertain, RInspect, TypeOK
  <1>5. CASE RObserve(r)
    <2>1. rec' \in [Reconcilers -> ReconcilerState]
      BY <1>5, <1>a, <1>b, <1>c DEF RObserve, ReconcilerState
    <2>2. run' \in RunRecord
      BY <1>5, <1>a, WritesKeepType DEF RObserve, RunStatus, ReconcilerState
    <2> QED
      BY <1>5, <2>1, <2>2 DEF RObserve, TypeOK
  <1>6. CASE RCancel(r)
    <2>1. rec' \in [Reconcilers -> ReconcilerState]
      BY <1>6, <1>a, <1>b, <1>c DEF RCancel, ReconcilerState
    <2>2. run' \in RunRecord
      BY <1>6, <1>a, WritesKeepType DEF RCancel, RunStatus
    <2> QED
      BY <1>6, <2>1, <2>2 DEF RCancel, TypeOK
  <1>7. CASE RFail(r)
    <2>1. rec' \in [Reconcilers -> ReconcilerState]
      BY <1>7, <1>a, <1>b, <1>c DEF RFail, ReconcilerState
    <2>2. run' \in RunRecord
      BY <1>7, <1>a, WritesKeepType DEF RFail, RunStatus
    <2> QED
      BY <1>7, <2>1, <2>2 DEF RFail, TypeOK
  <1>8. CASE RStop(r)
    <2>1. rec' \in [Reconcilers -> ReconcilerState]
      BY <1>8, <1>a, <1>b, <1>c DEF RStop, ReconcilerState
    <2>2. host' \in [Vms -> HostState] /\ wrk' \in [Vms -> WorkerState]
      BY <1>8, <1>a, EndHostKeepsType DEF RStop, ReconcilerState, AttachedRun, HostState
    <2> QED
      BY <1>8, <2>1, <2>2 DEF RStop, TypeOK
  <1>9. CASE RCrash(r)
    <2>1. rec' \in [Reconcilers -> ReconcilerState]
      BY <1>9, <1>a, <1>b, <1>c DEF RCrash, ReconcilerState
    <2>2. faults' \in Nat
      BY <1>9, <1>a DEF RCrash, Fault
    <2> QED
      BY <1>9, <2>1, <2>2 DEF RCrash, TypeOK
  <1> QED
    BY <1>1, <1>2, <1>3, <1>4, <1>5, <1>6, <1>7, <1>8, <1>9 DEF Reconciler

\* A step of the client keeps every type.
LEMMA ClientKeepsType ==
    ASSUME TypeOK, Client
    PROVE  TypeOK'
  <1>a. run \in RunRecord /\ faults \in Nat
    BY DEF TypeOK
  <1>1. CASE CRead
    BY <1>1 DEF CRead, TypeOK
  <1>2. CASE CCancelQueued
    <2>1. run' \in RunRecord
      BY <1>2, <1>a, WritesKeepType DEF CCancelQueued, RunStatus
    <2> QED
      BY <1>2, <2>1 DEF CCancelQueued, TypeOK
  <1>3. CASE CTransition
    <2>1. run' \in RunRecord
      BY <1>3, <1>a, WritesKeepType DEF CTransition, RunStatus
    <2> QED
      BY <1>3, <2>1 DEF CTransition, TypeOK
  <1>4. CASE CStop
    <2>1. host' \in [Vms -> HostState] /\ wrk' \in [Vms -> WorkerState]
      BY <1>4, EndHostKeepsType DEF CStop, TypeOK, HostState
    <2> QED
      BY <1>4, <2>1 DEF CStop, TypeOK
  <1>5. CASE CCrash
    <2>1. faults' \in Nat
      BY <1>5, <1>a DEF CCrash, Fault
    <2> QED
      BY <1>5, <2>1 DEF CCrash, TypeOK
  <1> QED
    BY <1>1, <1>2, <1>3, <1>4, <1>5 DEF Client

\* The cloud, the retirement of terminal workers and a new wake-up keep every type.
LEMMA CloudKeepsType ==
    ASSUME TypeOK, Cloud \/ RNudge \/ \E v \in Vms : RetireWorker(v)
    PROVE  TypeOK'
  <1>1. CASE ForgetToken
    <2>1. faults' \in Nat
      BY <1>1 DEF ForgetToken, Fault, TypeOK
    <2> QED
      BY <1>1, <2>1 DEF ForgetToken, TypeOK
  <1>2. ASSUME NEW v \in Vms, Suspend(v) PROVE TypeOK'
    BY <1>2 DEF Suspend, TypeOK, HostState
  <1>3. ASSUME NEW v \in Vms, Resume(v) PROVE TypeOK'
    BY <1>3 DEF Resume, TypeOK, HostState
  <1>4. ASSUME NEW v \in Vms, HostEnds(v) PROVE TypeOK'
    <2>1. host' \in [Vms -> HostState] /\ wrk' \in [Vms -> WorkerState]
      BY <1>4, EndHostKeepsType DEF HostEnds, HostState
    <2> QED
      BY <1>4, <2>1 DEF HostEnds, TypeOK
  <1>5. ASSUME NEW v \in Vms, RetireWorker(v) PROVE TypeOK'
    <2>1. host' \in [Vms -> HostState] /\ wrk' \in [Vms -> WorkerState]
      BY <1>5, EndHostKeepsType DEF RetireWorker, HostState
    <2> QED
      BY <1>5, <2>1 DEF RetireWorker, TypeOK
  <1>6. CASE RNudge
    BY <1>6 DEF RNudge, TypeOK
  <1> QED
    BY <1>1, <1>2, <1>3, <1>4, <1>5, <1>6 DEF Cloud

\* A freshly submitted Run has the right types.
LEMMA InitType == Init => TypeOK
  <1>1. Worker("none") \in WorkerState
    BY DEF Worker, WorkerState, WorkerPc, Heartbeat, Outcome
  <1>2. IdleDelivery \in DeliveryState
    BY DEF IdleDelivery, DeliveryState, DeliveryPc
  <1>3. IdleReconciler \in ReconcilerState
    BY DEF IdleReconciler, ReconcilerState
  <1>4. QueuedRun \in RunRecord
    BY DEF QueuedRun, RunRecord, RunStatus, Heartbeat
  <1> QED
    BY <1>1, <1>2, <1>3, <1>4 DEF Init, TypeOK, HostState

\* Every step keeps every type.
LEMMA NextType == TypeOK /\ [Next]_vars => TypeOK'
  <1>1. CASE UNCHANGED vars
    BY <1>1 DEF vars, TypeOK
  <1> QED
    BY <1>1, DispatcherKeepsType, WorkerKeepsType, ReconcilerKeepsType, ClientKeepsType,
       CloudKeepsType DEF Next

\* Every variable keeps its type in every behaviour: the record never reaches a
\* status, a reference or a heartbeat outside its attributes' ranges.
THEOREM TypeCorrect == Spec => []TypeOK
  BY InitType, NextType, PTL DEF Spec
-----------------------------------------------------------------------------
(* The Run record refines RunContract, and only its attached worker executes. *)

\* A dispatcher step writes the record as the contract allows: an attachment needs
\* the Pending reference that the claim left.
LEMMA DispatcherRefines ==
    ASSUME TypeOK, RunAttachment, NEW d \in Deliveries, Dispatcher(d)
    PROVE  Contract!Next \/ UNCHANGED Contract!contractVars
  <1>a. run \in RunRecord /\ dlv[d] \in DeliveryState
    BY DEF TypeOK
  <1>1. CASE DClaim(d)
    BY <1>1, <1>a DEF DClaim, UpdateOk, Claim, RunAttachment, RunRecord,
       Contract!Next, Contract!Claim, Contract!contractVars
  <1>2. ASSUME dlv[d].pc = "attach", AttachExecutionOk(run),
               run' = AttachExecution(run, dlv[d].vm, Now)
        PROVE  Contract!Next
    <2>1. run.execution = Pending /\ run.status \in {"dispatching", "running"}
      BY <1>2 DEF AttachExecutionOk, RunAttachment
    <2>2. run'.status = run.status /\ run'.execution = dlv[d].vm /\ dlv[d].vm \in Vms
      BY <1>2, <1>a DEF AttachExecution, RunRecord, DeliveryState
    <2> QED
      BY <2>1, <2>2 DEF Contract!Next, Contract!Attach
  <1>3. CASE DAttach(d)
    BY <1>2, <1>3 DEF DAttach, Contract!contractVars
  <1>4. CASE DAttachError(d)
    BY <1>2, <1>4 DEF DAttachError, Contract!contractVars
  <1>5. CASE DFailStart(d)
    BY <1>5, <1>a DEF DFailStart, UpdateOk, Update, RunRecord,
       Contract!Next, Contract!Settle, Contract!Edges, Contract!contractVars
  <1>6. CASE DSettle(d)
    BY <1>6, <1>a DEF DSettle, UpdateOk, Update, RunRecord,
       Contract!Next, Contract!Settle, Contract!Edges, Contract!contractVars
  <1>7. CASE DReceive(d) \/ DStart(d) \/ DStartFails(d) \/ DStop(d) \/ DCrash(d)
    BY <1>7 DEF DReceive, DStart, DStartFails, DStop, DCrash, Contract!contractVars
  <1> QED
    BY <1>1, <1>3, <1>4, <1>5, <1>6, <1>7 DEF Dispatcher

\* A worker step writes the record as the contract allows: it starts and succeeds
\* only under its own attachment.
LEMMA WorkerRefines ==
    ASSUME TypeOK, WorkerIdentity, NEW v \in Vms, WorkerStep(v)
    PROVE  Contract!Next \/ UNCHANGED Contract!contractVars
  <1>a. run \in RunRecord /\ wrk[v] \in WorkerState
    BY DEF TypeOK
  <1>1. ASSUME wrk[v].pc = "start", StartExecutionOk(run, wrk[v].execution),
               run' = StartExecution(run, wrk[v].startedAt)
        PROVE  Contract!Next
    <2>1. run.status = "dispatching" /\ run.execution = v
      BY <1>1 DEF StartExecutionOk, ExactExecution, WorkerIdentity
    <2>2. run'.status = "running" /\ run'.execution = run.execution
      BY <1>1, <1>a DEF StartExecution, RunRecord
    <2> QED
      BY <2>1, <2>2 DEF Contract!Next, Contract!Start
  <1>2. ASSUME wrk[v].pc = "finish",
               FinishExecutionOk(run, wrk[v].execution, wrk[v].outcome),
               run' = Update(run, wrk[v].outcome)
        PROVE  Contract!Next
    <2>1. wrk[v].outcome \in {"succeeded", "failed", "cancelled"}
      BY <1>2, <1>a DEF WorkerState, Outcome
    <2>2. /\ run.execution = v
          /\ run.status \in {"running", "cancelling"}
          /\ wrk[v].outcome = "succeeded" => run.status = "running"
      BY <1>2 DEF FinishExecutionOk, ExactExecution, WorkerIdentity
    <2>3. run'.status = wrk[v].outcome /\ run'.execution = run.execution
      BY <1>2, <1>a DEF Update, RunRecord
    <2>4. <<run.status, wrk[v].outcome>> \in Contract!Edges
      BY <2>1, <2>2 DEF Contract!Edges
    <2>5. Contract!Settle(wrk[v].outcome)
      BY <2>2, <2>3, <2>4 DEF Contract!Settle
    <2> QED
      BY <2>1, <2>5 DEF Contract!Next
  <1>3. CASE WStart(v)
    BY <1>1, <1>3 DEF WStart, At, Contract!contractVars
  <1>4. CASE WFinish(v)
    BY <1>2, <1>4 DEF WFinish, At, Contract!contractVars
  <1>5. CASE WStoreError(v)
    BY <1>1, <1>2, <1>5 DEF WStoreError, Contract!contractVars
  <1>6. CASE WHeartbeat(v)
    BY <1>6, <1>a DEF WHeartbeat, HeartbeatExecution, RunRecord, Contract!contractVars
  <1>7. CASE WSettle(v)
    BY <1>7, <1>a DEF WSettle, UpdateOk, Update, RunRecord,
       Contract!Next, Contract!Settle, Contract!Edges, Contract!contractVars
  <1>8. CASE WCancelExecution(v)
    BY <1>8, <1>a DEF WCancelExecution, CancelExecutionOk, ExactExecution, Update,
       RunRecord, Contract!Next, Contract!Settle, Contract!Edges, Contract!contractVars
  <1>9. CASE WFailExecution(v)
    BY <1>9, <1>a DEF WFailExecution, FailExecutionOk, ExactExecution, Update,
       RunRecord, Contract!Next, Contract!Settle, Contract!Edges, Contract!contractVars
  <1>10. CASE WBoot(v) \/ WWait(v) \/ WWaitFails(v) \/ WWork(v) \/ WFinalize(v)
              \/ WCatch(v) \/ WCrash(v)
    BY <1>10 DEF WBoot, WWait, WWaitFails, WWork, WFinalize, WCatch, WCrash,
       Contract!contractVars
  <1> QED
    BY <1>3, <1>4, <1>5, <1>6, <1>7, <1>8, <1>9, <1>10 DEF WorkerStep

\* A reconciler step cancels, fails or annotates the record, and nothing else.
LEMMA ReconcilerRefines ==
    ASSUME TypeOK, NEW r \in Reconcilers, Reconciler(r)
    PROVE  Contract!Next \/ UNCHANGED Contract!contractVars
  <1>a. run \in RunRecord
    BY DEF TypeOK
  <1>1. CASE RSettle(r)
    BY <1>1, <1>a DEF RSettle, UpdateOk, Update, RunRecord,
       Contract!Next, Contract!Settle, Contract!Edges, Contract!contractVars
  <1>2. CASE RObserve(r)
    BY <1>2, <1>a DEF RObserve, RecordLivenessInspection, RunRecord, Contract!contractVars
  <1>3. CASE RCancel(r)
    BY <1>3, <1>a DEF RCancel, CancelExecutionOk, ExactExecution, Update, RunRecord,
       Contract!Next, Contract!Settle, Contract!Edges, Contract!contractVars
  <1>4. CASE RFail(r)
    BY <1>4, <1>a DEF RFail, FailExecutionOk, ExactExecution, Update, RunRecord,
       Contract!Next, Contract!Settle, Contract!Edges, Contract!contractVars
  <1>5. CASE RRead(r) \/ RInspectProven(r) \/ RInspectUncertain(r) \/ RStop(r) \/ RCrash(r)
    BY <1>5 DEF RRead, RInspectProven, RInspectUncertain, RInspect, RStop, RCrash,
       Contract!contractVars
  <1> QED
    BY <1>1, <1>2, <1>3, <1>4, <1>5 DEF Reconciler

\* A client step requests a cancellation or cancels a queued Run.
LEMMA ClientRefines ==
    ASSUME TypeOK, Client
    PROVE  Contract!Next \/ UNCHANGED Contract!contractVars
  <1>a. run \in RunRecord
    BY DEF TypeOK
  <1>1. CASE CCancelQueued
    BY <1>1, <1>a DEF CCancelQueued, UpdateOk, Update, RunRecord,
       Contract!Next, Contract!Settle, Contract!Edges, Contract!contractVars
  <1>2. CASE CTransition
    BY <1>2, <1>a DEF CTransition, UpdateOk, Update, RunRecord,
       Contract!Next, Contract!RequestCancel, Contract!contractVars
  <1>3. CASE CRead \/ CStop \/ CCrash
    BY <1>3 DEF CRead, CStop, CCrash, Contract!contractVars
  <1> QED
    BY <1>1, <1>2, <1>3 DEF Client

\* Every step of the system is a step of RunContract or leaves its variables alone.
LEMMA StepRefines ==
    ASSUME TypeOK, AuthorityInv, [Next]_vars
    PROVE  [Contract!Next]_(Contract!contractVars)
  <1>1. CASE UNCHANGED vars
    BY <1>1 DEF vars, Contract!contractVars
  <1>2. CASE RNudge \/ Cloud \/ \E v \in Vms : RetireWorker(v)
    BY <1>2 DEF RNudge, Cloud, ForgetToken, Suspend, Resume, HostEnds, RetireWorker,
       Contract!contractVars
  <1> QED
    BY <1>1, <1>2, DispatcherRefines, WorkerRefines, ReconcilerRefines, ClientRefines
       DEF Next, AuthorityInv

\* A submitted Run is an initial state of the contract.
LEMMA InitRefines == Init => Contract!Init
  BY DEF Init, QueuedRun, Contract!Init
Executing == {"start", "work", "finalize", "finish"}
StartedStatus == RunStatus \ {"queued", "dispatching"}

\* A contract step never takes an attachment away, never unstarts a Run and never
\* loses its execution reference.
LEMMA ContractStability ==
    ASSUME TypeOK, RunAttachment, [Contract!Next]_(Contract!contractVars), run' \in RunRecord
    PROVE  /\ RunAttachment'
           /\ run.execution \in Vms => run'.execution = run.execution
           /\ run.status \in StartedStatus => run'.status \in StartedStatus
  <1>1. CASE Contract!Claim
    BY <1>1, VmsAssumption DEF Contract!Claim, RunAttachment, StartedStatus, RunStatus
  <1>2. ASSUME NEW vm \in Vms, Contract!Attach(vm) PROVE
           /\ RunAttachment'
           /\ run.execution \in Vms => run'.execution = run.execution
           /\ run.status \in StartedStatus => run'.status \in StartedStatus
    BY <1>2, VmsAssumption DEF Contract!Attach, RunAttachment
  <1>3. CASE Contract!Start
    BY <1>3 DEF Contract!Start, RunAttachment, StartedStatus, RunStatus
  <1>4. CASE Contract!RequestCancel
    BY <1>4 DEF Contract!RequestCancel, RunAttachment, StartedStatus, RunStatus
  <1>5. ASSUME NEW to \in {"succeeded", "failed", "cancelled"}, Contract!Settle(to) PROVE
           /\ RunAttachment'
           /\ run.execution \in Vms => run'.execution = run.execution
           /\ run.status \in StartedStatus => run'.status \in StartedStatus
    BY <1>5 DEF Contract!Settle, RunAttachment, StartedStatus, RunStatus
  <1>6. CASE UNCHANGED Contract!contractVars
    BY <1>6 DEF Contract!contractVars, RunAttachment
  <1> QED
    BY <1>1, <1>2, <1>3, <1>4, <1>5, <1>6 DEF Contract!Next

\* Steps of the other actors leave a worker alone, create it or end it.
LEMMA OthersDoNotAdvance ==
    ASSUME TypeOK, Next, ~(\E v \in Vms : WorkerStep(v)), NEW w \in Vms,
           wrk'[w].pc \in Executing
    PROVE  wrk'[w] = wrk[w]
  <1>1. Worker("boot").pc \notin Executing /\ Worker("crashed").pc \notin Executing
    BY DEF Worker, Executing
  <1>2. ASSUME NEW v \in Vms, NEW state \in HostState, EndHost(v, state)
        PROVE  wrk'[w] = wrk[w]
    BY <1>1, <1>2 DEF EndHost, TypeOK
  <1>3. ASSUME NEW d \in Deliveries, Dispatcher(d) PROVE wrk'[w] = wrk[w]
    <2>1. CASE DStart(d)
      BY <1>1, <2>1 DEF DStart, TypeOK
    <2>2. CASE DStop(d)
      <3>1. dlv[d].vm \in Vms
        BY <2>2 DEF DStop, TypeOK, DeliveryState
      <3> QED
        BY <1>2, <2>2, <3>1 DEF DStop, HostState
    <2>3. CASE DReceive(d) \/ DClaim(d) \/ DStartFails(d) \/ DFailStart(d) \/ DAttach(d)
               \/ DAttachError(d) \/ DSettle(d) \/ DCrash(d)
      BY <2>3 DEF DReceive, DClaim, DStartFails, DFailStart, DAttach, DAttachError,
         DSettle, DCrash
    <2> QED
      BY <1>3, <2>1, <2>2, <2>3 DEF Dispatcher
  <1>4. ASSUME NEW r \in Reconcilers, Reconciler(r) PROVE wrk'[w] = wrk[w]
    <2>1. CASE RStop(r)
      <3>1. rec[r].snap.execution \in Vms
        BY <2>1 DEF RStop, TypeOK, ReconcilerState, AttachedRun
      <3> QED
        BY <1>2, <2>1, <3>1 DEF RStop, HostState
    <2>2. CASE RRead(r) \/ RSettle(r) \/ RInspectProven(r) \/ RInspectUncertain(r)
               \/ RObserve(r) \/ RCancel(r) \/ RFail(r) \/ RCrash(r)
      BY <2>2 DEF RRead, RSettle, RInspectProven, RInspectUncertain, RInspect, RObserve,
         RCancel, RFail, RCrash
    <2> QED
      BY <1>4, <2>1, <2>2 DEF Reconciler
  <1>5. CASE Client
    <2>1. CASE CStop
      BY <1>2, <2>1 DEF CStop, HostState
    <2>2. CASE CRead \/ CCancelQueued \/ CTransition \/ CCrash
      BY <2>2 DEF CRead, CCancelQueued, CTransition, CCrash
    <2> QED
      BY <1>5, <2>1, <2>2 DEF Client
  <1>6. CASE RNudge \/ Cloud \/ \E v \in Vms : RetireWorker(v)
    BY <1>2, <1>6 DEF RNudge, Cloud, ForgetToken, Suspend, Resume, HostEnds,
       RetireWorker, HostState
  <1> QED
    BY <1>3, <1>4, <1>5, <1>6 DEF Next

\* A worker reaches an executing step only by checking its identity against the
\* record (WWait) or by winning the conditional start (WStart).
LEMMA WorkerAdvances ==
    ASSUME TypeOK, AuthorityInv, run' \in RunRecord, NEW v \in Vms, WorkerStep(v),
           NEW w \in Vms, wrk'[w].pc \in Executing
    PROVE  /\ wrk'[w].execution = w
           /\ wrk'[w].pc # "start" =>
                \/ wrk[w].pc \in Executing \ {"start"}
                \/ run'.execution = w /\ run'.status = "running"
  <1>a. wrk \in [Vms -> WorkerState] /\ wrk[v] \in WorkerState /\ run \in RunRecord
    BY DEF TypeOK
  <1>b. wrk[v].pc \in Executing => wrk[v].execution = v
    BY DEF AuthorityInv, WorkerIdentity, Executing
  <1>c. Worker("exited").pc \notin Executing /\ Worker("crashed").pc \notin Executing
    BY DEF Worker, Executing
  <1>1. CASE w # v
    <2>1. wrk'[w] = wrk[w]
      BY <1>1, <1>a DEF WorkerStep, WBoot, WWait, WWaitFails, WSettle, WStart, WHeartbeat,
         WWork, WFinalize, WFinish, WStoreError, WCatch, WCancelExecution, WFailExecution,
         WCrash, Goto, Exit
    <2> QED
      BY <2>1 DEF AuthorityInv, WorkerIdentity, Executing
  <1>2. CASE w = v
    <2>1. CASE WBoot(v)
      <3>1. CASE Exit(v)
        BY <1>2, <3>1, <1>a, <1>c DEF Exit
      <3>2. CASE ~Exit(v)
        <4>1. wrk'[v].pc = "wait"
          BY <2>1, <3>2, <1>a DEF WBoot, WorkerState
        <4> QED
          BY <1>2, <4>1 DEF Executing
      <3> QED
        BY <3>1, <3>2
    <2>2. CASE WWait(v)
      <3>1. CASE Exit(v)
        BY <1>2, <3>1, <1>a, <1>c DEF Exit
      <3>2. CASE ~Exit(v)
        <4>1. /\ wrk'[v].pc = IF run.status = "cancelling" THEN "settle"
                             ELSE IF run.execution = v THEN "start" ELSE "catch"
              /\ wrk'[v].execution = run.execution
          BY <2>2, <3>2, <1>a, ZenonT(60) DEF WWait, WorkerState
        <4> QED
          BY <1>2, <4>1 DEF Executing
      <3> QED
        BY <3>1, <3>2
    <2>3. CASE WStart(v)
      <3>1. wrk[v].execution = v
        BY <2>3, <1>b DEF WStart, At, Executing
      <3>2. CASE StartExecutionOk(run, wrk[v].execution)
        <4>1. run'.execution = v /\ run'.status = "running"
          BY <2>3, <3>1, <3>2, <1>a DEF WStart, StartExecutionOk, ExactExecution,
             StartExecution, RunRecord
        <4>2. wrk'[v].execution = v
          BY <2>3, <3>1, <3>2, <1>a DEF WStart, WorkerState
        <4> QED
          BY <1>2, <4>1, <4>2
      <3>3. CASE ~StartExecutionOk(run, wrk[v].execution)
        BY <1>2, <2>3, <3>3, <1>a DEF WStart, Goto, Executing, WorkerState
      <3> QED
        BY <3>2, <3>3
    <2>4. CASE WHeartbeat(v)
      BY <1>2, <2>4, <1>a, <1>b DEF WHeartbeat, Executing, WorkerState
    <2>5. CASE WWork(v) \/ WFinalize(v)
      BY <1>2, <2>5, <1>a, <1>b, ZenonT(60) DEF WWork, WFinalize, At, Goto, Executing, WorkerState
    <2>6. CASE WSettle(v) \/ WFinish(v)
      BY <1>2, <2>6, <1>a, <1>c DEF WSettle, WFinish, At, Goto, Exit, Executing, WorkerState
    <2>7. CASE WWaitFails(v) \/ WStoreError(v) \/ WCatch(v)
      <3>1. wrk'[v].pc \notin Executing
        <4>1. CASE WWaitFails(v)
          BY <4>1, <1>a DEF WWaitFails, At, Goto, Executing, WorkerState
        <4>2. CASE WStoreError(v)
          BY <4>2, <1>a DEF WStoreError, At, Goto, Executing, WorkerState
        <4>3. CASE WCatch(v)
          BY <4>3, <1>a DEF WCatch, At, Goto, Exit, Executing, WorkerState
        <4> QED
          BY <2>7, <4>1, <4>2, <4>3
      <3> QED
        BY <1>2, <3>1
    <2>8. CASE WCancelExecution(v) \/ WFailExecution(v) \/ WCrash(v)
      BY <1>2, <2>8, <1>a, <1>c DEF WCancelExecution, WFailExecution, WCrash, Exit
    <2> QED
      BY <2>1, <2>2, <2>3, <2>4, <2>5, <2>6, <2>7, <2>8 DEF WorkerStep
  <1> QED
    BY <1>1, <1>2

\* AuthorityInv is inductive.
LEMMA AuthorityStep == TypeOK /\ AuthorityInv /\ [Next]_vars => AuthorityInv'
  <1> SUFFICES ASSUME TypeOK, AuthorityInv, [Next]_vars PROVE AuthorityInv'
    OBVIOUS
  <1>1. run' \in RunRecord
    BY NextType DEF TypeOK
  <1>2. /\ RunAttachment'
        /\ run.execution \in Vms => run'.execution = run.execution
        /\ run.status \in StartedStatus => run'.status \in StartedStatus
    BY <1>1, StepRefines, ContractStability DEF AuthorityInv
  <1>3. ASSUME NEW w \in Vms, wrk'[w].pc \in Executing
        PROVE  /\ wrk'[w].execution = w
               /\ wrk'[w].pc # "start" =>
                    \/ wrk[w].pc \in Executing \ {"start"}
                    \/ run'.execution = w /\ run'.status = "running"
    <2>1. CASE UNCHANGED vars
      BY <1>3, <2>1 DEF vars, AuthorityInv, WorkerIdentity, Executing
    <2>2. CASE Next /\ ~(\E v \in Vms : WorkerStep(v))
      <3>1. wrk'[w] = wrk[w]
        BY <1>3, <2>2, OthersDoNotAdvance
      <3> QED
        BY <1>3, <3>1 DEF AuthorityInv, WorkerIdentity, Executing
    <2>3. ASSUME NEW v \in Vms, WorkerStep(v)
          PROVE  /\ wrk'[w].execution = w
                 /\ wrk'[w].pc # "start" =>
                      \/ wrk[w].pc \in Executing \ {"start"}
                      \/ run'.execution = w /\ run'.status = "running"
      BY <1>1, <1>3, <2>3, WorkerAdvances
    <2> QED
      BY <2>1, <2>2, <2>3
  <1>4. WorkerIdentity'
    BY <1>3 DEF WorkerIdentity, Executing
  <1>5. OnlyAttachedWorkerExecutes'
    <2> SUFFICES ASSUME NEW w \in Vms, wrk'[w].pc \in {"work", "finalize", "finish"}
                 PROVE  run'.execution = w /\ run'.status \in StartedStatus
      BY DEF OnlyAttachedWorkerExecutes, StartedStatus
    <2>1. \/ wrk[w].pc \in {"work", "finalize", "finish"}
          \/ run'.execution = w /\ run'.status = "running"
      BY <1>3 DEF Executing
    <2>2. CASE wrk[w].pc \in {"work", "finalize", "finish"}
      <3>1. run.execution = w /\ run.status \in StartedStatus
        BY <2>2 DEF AuthorityInv, OnlyAttachedWorkerExecutes, StartedStatus, TypeOK, RunRecord
      <3> QED
        BY <1>2, <3>1
    <2> QED
      BY <2>1, <2>2 DEF StartedStatus, RunStatus
  <1> QED
    BY <1>2, <1>4, <1>5 DEF AuthorityInv

\* No worker executes before the Run is claimed.
LEMMA InitAuthority == Init => AuthorityInv
  BY DEF Init, AuthorityInv, RunAttachment, WorkerIdentity, OnlyAttachedWorkerExecutes,
     QueuedRun, Worker

\* Only the worker named by the Run's execution reference runs the agent, however
\* many hosts were launched and however many deliveries raced.
THEOREM Authority == Spec => []OnlyAttachedWorkerExecutes
  <1>1. Spec => [](TypeOK /\ AuthorityInv)
    <2>1. Init => TypeOK /\ AuthorityInv
      BY InitType, InitAuthority
    <2>2. (TypeOK /\ AuthorityInv) /\ [Next]_vars => (TypeOK /\ AuthorityInv)'
      BY NextType, AuthorityStep
    <2> QED
      BY <2>1, <2>2, PTL DEF Spec
  <1>2. AuthorityInv => OnlyAttachedWorkerExecutes
    BY DEF AuthorityInv
  <1> QED
    BY <1>1, <1>2, PTL

\* The Run record implements RunContract: its status only follows the edges of
\* domain/state.ts, a worker is attached at most once, and success needs one.
THEOREM Refinement == Spec => RefinesContract
  <1>1. Init => Contract!Init
    BY InitRefines
  <1>2. (TypeOK /\ AuthorityInv) /\ [Next]_vars => [Contract!Next]_(Contract!contractVars)
    BY StepRefines
  <1>3. Init => TypeOK /\ AuthorityInv
    BY InitType, InitAuthority
  <1>4. (TypeOK /\ AuthorityInv) /\ [Next]_vars => (TypeOK /\ AuthorityInv)'
    BY NextType, AuthorityStep
  <1> QED
    BY <1>1, <1>2, <1>3, <1>4, PTL DEF Spec, RefinesContract, Contract!Spec

-----------------------------------------------------------------------------
(***************************************************************************)
(* What the reconciler and every stopper of a host may rely on.  A handler *)
(* acts on a record or an inspection that is older than its write, so each *)
(* invariant says which part of what was read is still true.               *)
(***************************************************************************)
Over == {"cancelling"} \cup Terminal
Gone(v) == host[v] \in Down \/ wrk[v].pc \in {"exited", "crashed"}

\* A delivery that passed its claim works on a claimed Run.
Claimed == \A d \in Deliveries : dlv[d].pc \notin {"idle", "claim"} => run.status # "queued"

\* A stop that is about to be made is for a Run that is no longer wanted, or for a host
\* that lost the attachment.
StopsAreDue ==
    /\ \A d \in Deliveries : dlv[d].pc = "stop" =>
         \/ run.status \in Over
         \/ run.execution \in Vms /\ run.execution # dlv[d].vm
    /\ client = "stop" => run.status \in Over
    /\ \A r \in Reconcilers :
         /\ rec[r].pc = "inspect" /\ rec[r].snap.status = "cancelling" => run.status \in Over
         /\ rec[r].pc = "act" /\ rec[r].decision = "stop" => run.status \in Over

\* A host without a launch has no worker, so what is gone was launched and stays gone.
Unlaunched == \A v \in Vms : host[v] = "off" => wrk[v].pc = "none"
LossIsProven ==
    \A r \in Reconcilers :
        rec[r].pc = "act" /\ rec[r].decision = "fail" => Gone(rec[r].snap.execution)

\* Each actor moves only its own local state.
LEMMA LocalMoves ==
    ASSUME TypeOK, [Next]_vars
    PROVE  /\ \A d \in Deliveries : dlv'[d] # dlv[d] => Dispatcher(d)
           /\ \A r \in Reconcilers : rec'[r] # rec[r] => Reconciler(r)
           /\ client' # client => Client
  <1>a. dlv \in [Deliveries -> DeliveryState] /\ rec \in [Reconcilers -> ReconcilerState]
    BY DEF TypeOK
  <1>1. CASE UNCHANGED vars
    BY <1>1 DEF vars
  <1>2. ASSUME NEW d \in Deliveries, Dispatcher(d)
        PROVE  /\ \A e \in Deliveries : dlv'[e] # dlv[e] => e = d
               /\ UNCHANGED <<rec, client>>
    BY <1>a, <1>2 DEF Dispatcher, DReceive, DClaim, DStart, DStartFails, DFailStart, DAttach,
       DAttachError, DStop, DSettle, DCrash, Return, Throw
  <1>3. ASSUME NEW v \in Vms, WorkerStep(v) PROVE UNCHANGED <<dlv, rec, client>>
    BY <1>3 DEF WorkerStep, WBoot, WWait, WWaitFails, WSettle, WStart, WHeartbeat, WWork,
       WFinalize, WFinish, WStoreError, WCatch, WCancelExecution, WFailExecution, WCrash
  <1>4. CASE Client
    BY <1>4 DEF Client, CRead, CCancelQueued, CTransition, CStop, CCrash
  <1>5. ASSUME NEW r \in Reconcilers, Reconciler(r)
        PROVE  /\ \A q \in Reconcilers : rec'[q] # rec[q] => q = r
               /\ UNCHANGED <<dlv, client>>
    BY <1>a, <1>5 DEF Reconciler, RRead, RSettle, RInspectProven, RInspectUncertain, RInspect,
       RObserve, RCancel, RFail, RStop, RCrash
  <1>6. CASE RNudge \/ Cloud \/ \E v \in Vms : RetireWorker(v)
    BY <1>6 DEF RNudge, Cloud, ForgetToken, Suspend, Resume, HostEnds, RetireWorker
  <1> QED
    BY <1>1, <1>2, <1>3, <1>4, <1>5, <1>6 DEF Next

\* A Run that left a phase never returns to it, and keeps its worker.
LEMMA PhaseStability ==
    ASSUME TypeOK, AuthorityInv, [Next]_vars
    PROVE  /\ run' \in RunRecord
           /\ run.status # "queued" => run'.status # "queued"
           /\ run.status \in Over => run'.status \in Over
           /\ run.execution \in Vms => run'.execution = run.execution
  <1>1. run' \in RunRecord
    BY NextType DEF TypeOK
  <1>2. run.execution \in Vms => run'.execution = run.execution
    BY <1>1, StepRefines, ContractStability DEF AuthorityInv
  <1>3. [Contract!Next]_(Contract!contractVars)
    BY StepRefines
  <1>4. /\ run.status # "queued" => run'.status # "queued"
        /\ run.status \in Over => run'.status \in Over
    BY <1>3 DEF Contract!Next, Contract!contractVars, Contract!Claim, Contract!Attach,
       Contract!Start, Contract!RequestCancel, Contract!Settle, Contract!Edges, Over, Terminal
  <1> QED
    BY <1>1, <1>2, <1>4

\* Claimed is inductive: only a won claim, or a Run read as claimed, passes the claim.
LEMMA ClaimedStep ==
    ASSUME TypeOK, AuthorityInv, Claimed, [Next]_vars
    PROVE  Claimed'
  <1> SUFFICES ASSUME NEW d \in Deliveries, dlv'[d].pc \notin {"idle", "claim"}
               PROVE  run'.status # "queued"
    BY DEF Claimed
  <1>a. run \in RunRecord /\ dlv \in [Deliveries -> DeliveryState] /\ dlv[d] \in DeliveryState
    BY DEF TypeOK
  <1>1. run.status # "queued" => run'.status # "queued"
    BY PhaseStability
  <1>2. CASE dlv'[d] = dlv[d]
    BY <1>1, <1>2 DEF Claimed
  <1>3. CASE Dispatcher(d)
    <2>0. IdleDelivery.pc = "idle"
      BY DEF IdleDelivery
    <2>1. CASE DReceive(d)
      BY <1>1, <1>a, <2>1 DEF DReceive, Dispatchable, DeliveryState
    <2>2. CASE DClaim(d)
      BY <1>a, <2>0, <2>2 DEF DClaim, UpdateOk, Claim, Return, RunRecord
    <2>3. CASE dlv[d].pc \notin {"idle", "claim"}
      BY <1>1, <2>3 DEF Claimed
    <2> QED
      BY <1>3, <1>a, <2>0, <2>1, <2>2, <2>3 DEF Dispatcher, DStart, DStartFails, DFailStart,
         DAttach, DAttachError, DStop, DSettle, DCrash, Return, Throw
  <1> QED
    BY <1>2, <1>3, LocalMoves

\* StopsAreDue is inductive when the dispatcher's own attachment is never uncertain.
LEMMA StopsStep ==
    ASSUME TypeOK, AuthorityInv, Claimed, StopsAreDue, [Next]_vars,
           "dispatcher" \notin StoreErrors
    PROVE  StopsAreDue'
  <1>a. /\ run \in RunRecord
        /\ dlv \in [Deliveries -> DeliveryState]
        /\ rec \in [Reconcilers -> ReconcilerState]
    BY DEF TypeOK
  <1>b. /\ run.status \in Over => run'.status \in Over
        /\ run.execution \in Vms => run'.execution = run.execution
    BY PhaseStability
  <1>1. ASSUME NEW d \in Deliveries, dlv'[d].pc = "stop"
        PROVE  \/ run'.status \in Over
               \/ run'.execution \in Vms /\ run'.execution # dlv'[d].vm
    <2>1. CASE dlv'[d] = dlv[d]
      BY <1>1, <1>b, <2>1 DEF StopsAreDue
    <2>2. CASE Dispatcher(d)
      <3>a. dlv[d] \in DeliveryState /\ IdleDelivery.pc = "idle"
        BY <1>a DEF IdleDelivery
      <3>1. DAttach(d)
        BY <1>1, <1>a, <2>2, <3>a, ZenonT(60) DEF Dispatcher, DReceive, DClaim, DStart, DStartFails,
           DFailStart, DAttachError, DStop, DSettle, DCrash, Return, Throw, DeliveryState
      <3>2. ~AttachExecutionOk(run) /\ ~AlreadyAttached(run, dlv[d].vm) /\ run' = run
        BY <1>1, <1>a, <3>a, <3>1 DEF DAttach, Return
      <3>3. dlv'[d].vm = dlv[d].vm
        BY <1>1, <1>a, <3>a, <3>1, <3>2 DEF DAttach, DeliveryState
      <3>4. run.status # "queued"
        BY <3>1 DEF DAttach, Claimed
      <3> QED
        BY <1>a, <3>2, <3>3, <3>4 DEF AttachExecutionOk, AlreadyAttached, RunRecord,
           RunStatus, Over, Terminal
    <2> QED
      BY <2>1, <2>2, LocalMoves
  <1>2. client' = "stop" => run'.status \in Over
    <2>1. CASE client' = client
      BY <1>b, <2>1 DEF StopsAreDue
    <2>2. CASE Client
      BY <1>a, <1>b, <2>2 DEF Client, CRead, CCancelQueued, CTransition, CStop, CCrash,
         Update, RunRecord, Over
    <2> QED
      BY <2>1, <2>2, LocalMoves
  <1>3. ASSUME NEW r \in Reconcilers
        PROVE  /\ rec'[r].pc = "inspect" /\ rec'[r].snap.status = "cancelling"
                    => run'.status \in Over
               /\ rec'[r].pc = "act" /\ rec'[r].decision = "stop" => run'.status \in Over
    <2>1. CASE rec'[r] = rec[r]
      BY <1>b, <2>1 DEF StopsAreDue
    <2>2. CASE Reconciler(r)
      <3>a. rec[r] \in ReconcilerState /\ IdleReconciler.pc = "idle"
        BY <1>a DEF IdleReconciler
      <3>1. CASE RRead(r)
        <4>1. rec'[r].snap = run /\ rec'[r].pc \in {"inspect", "settle"} /\ run' = run
          BY <1>a, <3>a, <3>1 DEF RRead, ReconcilerState
        <4> QED
          BY <4>1 DEF Over
      <3>2. ASSUME NEW kinds, RInspect(r, kinds)
            PROVE  rec'[r].pc = "act" /\
                     (rec'[r].decision = "stop" => rec[r].snap.status = "cancelling")
        <4>1. PICK kind \in kinds, expired \in BOOLEAN :
                /\ rec'[r].pc = "act"
                /\ rec'[r].decision = Decision(rec[r].snap, kind, expired)
          BY <1>a, <3>a, <3>2 DEF RInspect, ReconcilerState
        <4> QED
          BY <4>1 DEF Decision
      <3>3. CASE RInspectProven(r) \/ RInspectUncertain(r)
        BY <1>b, <3>2, <3>3 DEF RInspectProven, RInspectUncertain, StopsAreDue, RInspect
      <3>4. CASE RFail(r)
        <4>1. CASE FailExecutionOk(run, rec[r].snap.execution, rec[r].snap.heartbeatAt)
          BY <1>a, <3>4, <4>1 DEF RFail, Update, RunRecord, Over, Terminal
        <4>2. CASE ~FailExecutionOk(run, rec[r].snap.execution, rec[r].snap.heartbeatAt)
          BY <1>a, <3>a, <3>4, <4>2 DEF RFail
        <4> QED
          BY <4>1, <4>2
      <3>5. CASE RSettle(r) \/ RObserve(r) \/ RCancel(r) \/ RStop(r) \/ RCrash(r)
        BY <1>a, <3>a, <3>5 DEF RSettle, RObserve, RCancel, RStop, RCrash
      <3> QED
        BY <2>2, <3>1, <3>3, <3>4, <3>5 DEF Reconciler
    <2> QED
      BY <2>1, <2>2, LocalMoves
  <1> QED
    BY <1>1, <1>2, <1>3 DEF StopsAreDue

\* What a step does to one host and its worker: nothing, a launch, the end of a
\* launched host or of its worker, a suspension, or a step of the worker itself.
LEMMA HostMoves ==
    ASSUME TypeOK, [Next]_vars, NEW w \in Vms
    PROVE  \/ host'[w] = host[w] /\ wrk'[w] = wrk[w]
           \/ host[w] = "off" /\ host'[w] = "up"
           \/ host[w] \in {"up", "suspended"} /\ host'[w] \in Down
                /\ wrk'[w].pc \in {"exited", "crashed"}
           \/ /\ {host[w], host'[w]} = {"up", "suspended"}
              /\ wrk'[w] = wrk[w]
           \/ host'[w] = host[w] /\ WorkerStep(w)
  <1>a. host \in [Vms -> HostState] /\ wrk \in [Vms -> WorkerState]
    BY DEF TypeOK
  <1>1. CASE UNCHANGED vars
    BY <1>1 DEF vars
  <1>2. ASSUME NEW v \in Vms, NEW state \in Down, EndHost(v, state)
        PROVE  \/ host'[w] = host[w] /\ wrk'[w] = wrk[w]
               \/ host[w] \in {"up", "suspended"} /\ host'[w] \in Down
                    /\ wrk'[w].pc \in {"exited", "crashed"}
    BY <1>a, <1>2 DEF EndHost, Down, Worker
  <1>3. ASSUME NEW d \in Deliveries, Dispatcher(d)
        PROVE  \/ host'[w] = host[w] /\ wrk'[w] = wrk[w]
               \/ host[w] = "off" /\ host'[w] = "up"
               \/ host[w] \in {"up", "suspended"} /\ host'[w] \in Down
                    /\ wrk'[w].pc \in {"exited", "crashed"}
    <2>1. CASE DStart(d)
      BY <1>a, <2>1 DEF DStart
    <2>2. CASE DStop(d)
      <3>1. dlv[d].vm \in Vms
        BY <2>2 DEF DStop, TypeOK, DeliveryState
      <3> QED
        BY <1>2, <2>2, <3>1 DEF DStop, Down
    <2> QED
      BY <1>3, <2>1, <2>2 DEF Dispatcher, DReceive, DClaim, DStartFails, DFailStart, DAttach,
         DAttachError, DSettle, DCrash
  <1>4. ASSUME NEW v \in Vms, WorkerStep(v)
        PROVE  host'[w] = host[w] /\ (wrk'[w] = wrk[w] \/ WorkerStep(w))
    BY <1>a, <1>4 DEF WorkerStep, WBoot, WWait, WWaitFails, WSettle, WStart, WHeartbeat, WWork,
       WFinalize, WFinish, WStoreError, WCatch, WCancelExecution, WFailExecution, WCrash,
       Goto, Exit
  <1>5. CASE Client
    <2>1. CASE CStop
      BY <1>2, <2>1 DEF CStop, Down
    <2> QED
      BY <1>5, <2>1 DEF Client, CRead, CCancelQueued, CTransition, CCrash
  <1>6. ASSUME NEW r \in Reconcilers, Reconciler(r)
        PROVE  \/ host'[w] = host[w] /\ wrk'[w] = wrk[w]
               \/ host[w] \in {"up", "suspended"} /\ host'[w] \in Down
                    /\ wrk'[w].pc \in {"exited", "crashed"}
    <2>1. CASE RStop(r)
      <3>1. rec[r].snap.execution \in Vms
        BY <2>1 DEF RStop, TypeOK, ReconcilerState, AttachedRun
      <3> QED
        BY <1>2, <2>1, <3>1 DEF RStop, Down
    <2> QED
      BY <1>6, <2>1 DEF Reconciler, RRead, RSettle, RInspectProven, RInspectUncertain,
         RInspect, RObserve, RCancel, RFail, RCrash
  <1>7. CASE RNudge
    BY <1>7 DEF RNudge
  <1>8. ASSUME NEW v \in Vms, RetireWorker(v)
        PROVE  \/ host'[w] = host[w] /\ wrk'[w] = wrk[w]
               \/ host[w] \in {"up", "suspended"} /\ host'[w] \in Down
                    /\ wrk'[w].pc \in {"exited", "crashed"}
    BY <1>2, <1>8 DEF RetireWorker, Down
  <1>9. CASE Cloud
    <2>1. ASSUME NEW v \in Vms, HostEnds(v)
          PROVE  \/ host'[w] = host[w] /\ wrk'[w] = wrk[w]
                 \/ host[w] \in {"up", "suspended"} /\ host'[w] \in Down
                      /\ wrk'[w].pc \in {"exited", "crashed"}
      BY <1>2, <2>1 DEF HostEnds, Down
    <2>2. ASSUME NEW v \in Vms, Suspend(v) \/ Resume(v)
          PROVE  /\ wrk'[w] = wrk[w]
                 /\ host'[w] = host[w] \/ {host[w], host'[w]} = {"up", "suspended"}
      BY <1>a, <2>2 DEF Suspend, Resume
    <2> QED
      BY <1>9, <2>1, <2>2 DEF Cloud, ForgetToken
  <1> QED
    BY <1>1, <1>3, <1>4, <1>5, <1>6, <1>7, <1>8, <1>9 DEF Next

\* Unlaunched is inductive, and a host or worker that is gone stays gone.
LEMMA GoneStays ==
    ASSUME TypeOK, Unlaunched, [Next]_vars
    PROVE  Unlaunched' /\ \A w \in Vms : Gone(w) => Gone(w)'
  <1>a. host \in [Vms -> HostState] /\ wrk \in [Vms -> WorkerState]
    BY DEF TypeOK
  <1>1. ASSUME NEW w \in Vms, WorkerStep(w)
        PROVE  /\ host[w] = "up"
               /\ wrk[w].pc \in {"exited", "crashed"} => wrk'[w].pc \in {"exited", "crashed"}
    <2>1. CASE WHeartbeat(w)
      BY <1>a, <2>1 DEF WHeartbeat, WorkerState
    <2>2. CASE ~WHeartbeat(w)
      BY <1>1, <2>2 DEF WorkerStep, WBoot, WWait, WWaitFails, WSettle, WStart, WWork,
         WFinalize, WFinish, WStoreError, WCatch, WCancelExecution, WFailExecution, WCrash, At
    <2> QED
      BY <2>1, <2>2
  <1>2. ASSUME NEW w \in Vms
        PROVE  /\ host'[w] = "off" => wrk'[w].pc = "none"
               /\ Gone(w) => Gone(w)'
    <2>1. CASE host'[w] = host[w] /\ wrk'[w] = wrk[w]
      BY <2>1 DEF Unlaunched, Gone
    <2>2. CASE host[w] = "off" /\ host'[w] = "up"
      BY <2>2 DEF Unlaunched, Gone, Down
    <2>3. CASE host[w] \in {"up", "suspended"} /\ host'[w] \in Down
                 /\ wrk'[w].pc \in {"exited", "crashed"}
      BY <2>3 DEF Gone, Down
    <2>4. CASE {host[w], host'[w]} = {"up", "suspended"} /\ wrk'[w] = wrk[w]
      <3>1. host[w] \in {"up", "suspended"} /\ host'[w] \in {"up", "suspended"}
        BY <2>4
      <3> QED
        BY <2>4, <3>1 DEF Gone, Down
    <2>5. CASE host'[w] = host[w] /\ WorkerStep(w)
      BY <1>1, <2>5 DEF Gone, Down
    <2> QED
      BY <2>1, <2>2, <2>3, <2>4, <2>5, HostMoves
  <1> QED
    BY <1>2 DEF Unlaunched

\* LossIsProven is inductive: a loss is decided on the host of the Run that was read,
\* and evidence of an end does not age.
LEMMA LossStep ==
    ASSUME TypeOK, Unlaunched, LossIsProven, [Next]_vars
    PROVE  LossIsProven'
  <1> SUFFICES ASSUME NEW r \in Reconcilers, rec'[r].pc = "act", rec'[r].decision = "fail",
                      NEW w, w = rec'[r].snap.execution
               PROVE  Gone(w)'
    BY DEF LossIsProven, Gone
  <1>a. rec \in [Reconcilers -> ReconcilerState] /\ rec[r] \in ReconcilerState
    BY DEF TypeOK
  <1>b. IdleReconciler.pc = "idle"
    BY DEF IdleReconciler
  <1>1. CASE rec'[r] = rec[r]
    <2>1. w \in Vms /\ Gone(w)
      BY <1>1, <1>a DEF LossIsProven, ReconcilerState, AttachedRun
    <2> QED
      BY <2>1, GoneStays
  <1>2. CASE Reconciler(r)
    <2>1. CASE RInspectUncertain(r)
      <3>1. PICK kind \in Uncertain, expired \in BOOLEAN :
              rec'[r].decision = Decision(rec[r].snap, kind, expired)
        BY <1>a, <2>1 DEF RInspectUncertain, RInspect, ReconcilerState
      <3> QED
        BY <3>1 DEF Decision
    <2>2. CASE RInspectProven(r)
      <3>1. PICK kind \in Evidence(rec[r].snap.execution), expired \in BOOLEAN :
              /\ rec'[r].decision = Decision(rec[r].snap, kind, expired)
              /\ rec'[r].snap = rec[r].snap
        BY <1>a, <2>2 DEF RInspectProven, RInspect, ReconcilerState
      <3>2. kind \notin {"active", "suspended"}
        BY <3>1 DEF Decision, Uncertain
      <3>3. Gone(w) /\ UNCHANGED <<host, wrk>>
        BY <2>2, <3>1, <3>2 DEF Evidence, Gone, RInspectProven, RInspect
      <3> QED
        BY <3>3 DEF Gone
    <2>3. CASE RFail(r)
      BY <1>a, <1>b, <2>3 DEF RFail, ReconcilerState
    <2>4. CASE RRead(r)
      BY <1>a, <2>4 DEF RRead, ReconcilerState
    <2> QED
      BY <1>2, <1>a, <1>b, <2>1, <2>2, <2>3, <2>4 DEF Reconciler, RSettle, RObserve, RCancel,
         RStop, RCrash
  <1> QED
    BY <1>1, <1>2, LocalMoves

\* The initial state satisfies each of them: nothing is launched, nothing is under way.
LEMMA InitRepair == Init => Claimed /\ StopsAreDue /\ Unlaunched /\ LossIsProven
  BY DEF Init, Claimed, StopsAreDue, Unlaunched, LossIsProven, IdleDelivery, IdleReconciler,
     Worker

\* A step that fails a Run from a reconciler's loss decision finds the attached worker
\* gone: the write is conditional on the attachment that was inspected.
LEMMA FailsTheLost ==
    ASSUME TypeOK, LossIsProven, [Next]_vars, NEW r \in Reconcilers,
           rec[r].pc = "act", rec[r].decision = "fail", rec'[r] # rec[r],
           run.status # "failed", run'.status = "failed"
    PROVE  Gone(run.execution)
  <1>1. RFail(r) \/ RCrash(r)
    BY LocalMoves DEF Reconciler, RRead, RSettle, RInspectProven, RInspectUncertain, RInspect,
       RObserve, RCancel, RStop
  <1>2. run.execution = rec[r].snap.execution
    BY <1>1 DEF RFail, RCrash, FailExecutionOk, ExactExecution
  <1> QED
    BY <1>2 DEF LossIsProven

\* A step that stops the host of an attached Run belongs to a Run that is over.
LEMMA StopsTheUnwanted ==
    ASSUME TypeOK, StopsAreDue, [Next]_vars, NEW v \in Vms,
           host[v] # "stopped", host'[v] = "stopped", run.execution = v
    PROVE  run.status \in Over
  <1>a. host \in [Vms -> HostState]
    BY DEF TypeOK
  <1>1. ASSUME NEW w, NEW state, EndHost(w, state) PROVE w = v
    BY <1>a, <1>1 DEF EndHost
  <1>2. ASSUME NEW d \in Deliveries, Dispatcher(d) PROVE run.status \in Over
    <2>1. DStop(d)
      BY <1>a, <1>2 DEF Dispatcher, DReceive, DClaim, DStart, DStartFails, DFailStart, DAttach,
         DAttachError, DSettle, DCrash
    <2> QED
      BY <1>1, <2>1 DEF DStop, StopsAreDue
  <1>3. ~(\E w \in Vms : WorkerStep(w))
    BY DEF WorkerStep, WBoot, WWait, WWaitFails, WSettle, WStart, WHeartbeat, WWork,
       WFinalize, WFinish, WStoreError, WCatch, WCancelExecution, WFailExecution, WCrash
  <1>4. CASE Client
    BY <1>4 DEF Client, CRead, CCancelQueued, CTransition, CStop, CCrash, StopsAreDue
  <1>5. ASSUME NEW r \in Reconcilers, Reconciler(r) PROVE run.status \in Over
    BY <1>5 DEF Reconciler, RRead, RSettle, RInspectProven, RInspectUncertain, RInspect,
       RObserve, RCancel, RFail, RStop, RCrash, StopsAreDue
  <1>6. ASSUME NEW w \in Vms, RetireWorker(w) PROVE run.status \in Over
    BY <1>6 DEF RetireWorker, Over
  <1>7. ~(RNudge \/ Cloud)
    <2>1. ASSUME NEW w \in Vms, HostEnds(w) PROVE FALSE
      BY <1>a, <2>1 DEF HostEnds, EndHost
    <2> QED
      BY <1>a, <2>1 DEF RNudge, Cloud, ForgetToken, Suspend, Resume
  <1>8. ~(UNCHANGED vars)
    BY DEF vars
  <1> QED
    BY <1>2, <1>3, <1>4, <1>5, <1>6, <1>7, <1>8 DEF Next

RepairInv == TypeOK /\ AuthorityInv /\ Claimed /\ Unlaunched /\ LossIsProven

\* RepairInv holds in every reachable state, whatever fails.
LEMMA RepairInvariant == Spec => []RepairInv
  <1>1. Init => RepairInv
    BY InitType, InitAuthority, InitRepair DEF RepairInv
  <1>2. RepairInv /\ [Next]_vars => RepairInv'
    BY NextType, AuthorityStep, ClaimedStep, GoneStays, LossStep DEF RepairInv
  <1> QED
    BY <1>1, <1>2, PTL DEF Spec

\* A Run is reported as lost only when its attached worker is gone for good, although
\* the inspection is older than the write and the host may have been resumed since.
THEOREM LostIsGone == Spec => LostMeansGone
  <1>1. RepairInv /\ [Next]_vars =>
          [\A r \in Reconcilers :
             (/\ rec[r].pc = "act" /\ rec[r].decision = "fail"
              /\ rec'[r] # rec[r]
              /\ run.status # "failed" /\ run'.status = "failed")
             => \/ host[run.execution] \in Down
                \/ wrk[run.execution].pc \in {"exited", "crashed"}]_vars
    BY FailsTheLost DEF RepairInv, Gone
  <1> QED
    BY <1>1, RepairInvariant, PTL DEF Spec, LostMeansGone

\* When the dispatcher's own attachment write has a certain answer, nothing the control
\* plane does stops the host of a Run that still wants its worker, and no Run is reported
\* as lost while its worker lives.  Without that hypothesis the statement is false (run
\* attachment_error).
THEOREM TrueRepair ==
    ASSUME "dispatcher" \notin StoreErrors
    PROVE  Spec => RepairIsTrue
  <1>1. Spec => [](RepairInv /\ StopsAreDue)
    <2>1. Init => RepairInv /\ StopsAreDue
      BY InitType, InitAuthority, InitRepair DEF RepairInv
    <2>2. (RepairInv /\ StopsAreDue) /\ [Next]_vars => (RepairInv /\ StopsAreDue)'
      BY NextType, AuthorityStep, ClaimedStep, GoneStays, LossStep, StopsStep DEF RepairInv
    <2> QED
      BY <2>1, <2>2, PTL DEF Spec
  <1>2. (RepairInv /\ StopsAreDue) /\ [Next]_vars =>
          [\A v \in Vms : (host[v] # "stopped" /\ host'[v] = "stopped" /\ run.execution = v)
             => run.status \notin {"dispatching", "running"}]_vars
    BY StopsTheUnwanted DEF RepairInv, Over, Terminal
  <1>3. Spec => AttachedHostNotStopped
    BY <1>1, <1>2, PTL DEF Spec, AttachedHostNotStopped
  <1> QED
    BY <1>3, LostIsGone DEF RepairIsTrue

\* A Run that wrote a heartbeat after somebody decided to fail it is not failed: the write
\* is conditional on the heartbeat that the reconciler or the failing worker read.
THEOREM HeartbeatWins == Spec => HeartbeatDefeatsFailure
  <1> DEFINE Fenced ==
        (run.status = "running" /\ run'.status = "failed") =>
         \/ \E r \in Reconcilers : /\ rec[r].pc = "act" /\ rec'[r] # rec[r]
                                   /\ rec[r].snap.heartbeatAt = run.heartbeatAt
         \/ \E v \in Vms : /\ wrk[v].pc = "failing" /\ wrk'[v] # wrk[v]
                            /\ wrk[v].heartbeatAt = run.heartbeatAt
         \/ \E v \in Vms : wrk[v].pc = "finish" /\ wrk'[v] # wrk[v]
  <1>1. TypeOK /\ [Next]_vars => [Fenced]_vars
    <2> SUFFICES ASSUME TypeOK, Next, run.status = "running", run'.status = "failed"
                 PROVE  Fenced
      BY DEF vars
    <2>a. /\ run \in RunRecord
          /\ wrk \in [Vms -> WorkerState] /\ rec \in [Reconcilers -> ReconcilerState]
      BY DEF TypeOK
    <2>b. Worker("exited").pc = "exited" /\ IdleReconciler.pc = "idle"
      BY DEF Worker, IdleReconciler
    <2>1. ASSUME NEW d \in Deliveries, Dispatcher(d) PROVE FALSE
      BY <2>a, <2>1 DEF Dispatcher, DReceive, DClaim, DStart, DStartFails, DFailStart, DAttach,
         DAttachError, DStop, DSettle, DCrash, UpdateOk, Claim, AttachExecution, RunRecord
    <2>2. ASSUME NEW v \in Vms, WorkerStep(v) PROVE Fenced
      <3>1. CASE WFailExecution(v)
        BY <2>a, <2>b, <3>1 DEF WFailExecution, At, Exit, FailExecutionOk
      <3>2. CASE WFinish(v)
        BY <2>a, <2>b, <3>2 DEF WFinish, At, Exit, Goto
      <3>3. CASE WStoreError(v)
        <4>1. wrk[v].pc = "finish"
          BY <2>a, <3>3 DEF WStoreError, StartExecution, RunRecord
        <4>2. wrk'[v].pc = "catch"
          BY <2>a, <3>3 DEF WStoreError, Goto, WorkerState
        <4> QED
          BY <4>1, <4>2
      <3> QED
        BY <2>a, <2>2, <3>1, <3>2, <3>3 DEF WorkerStep, WBoot, WWait, WWaitFails, WSettle,
           WStart, WHeartbeat, WWork, WFinalize, WCatch, WCancelExecution, WCrash, UpdateOk,
           StartExecution, HeartbeatExecution, CancelExecutionOk, ExactExecution, RunRecord
    <2>3. CASE Client
      BY <2>a, <2>3 DEF Client, CRead, CCancelQueued, CTransition, CStop, CCrash, UpdateOk,
         Update, RunRecord
    <2>4. ASSUME NEW r \in Reconcilers, Reconciler(r) PROVE Fenced
      <3>1. CASE RFail(r)
        <4>1. FailExecutionOk(run, rec[r].snap.execution, rec[r].snap.heartbeatAt)
          BY <3>1 DEF RFail
        <4>2. rec'[r] # rec[r]
          BY <2>a, <2>b, <3>1 DEF RFail, ReconcilerState
        <4> QED
          BY <3>1, <4>1, <4>2 DEF RFail, FailExecutionOk
      <3> QED
        BY <2>a, <2>4, <3>1 DEF Reconciler, RRead, RSettle, RInspectProven, RInspectUncertain,
           RInspect, RObserve, RCancel, RStop, RCrash, UpdateOk, CancelExecutionOk,
           ExactExecution, RecordLivenessInspection, RunRecord
    <2>5. ~(RNudge \/ Cloud \/ \E v \in Vms : RetireWorker(v))
      BY DEF RNudge, Cloud, ForgetToken, Suspend, Resume, HostEnds, RetireWorker
    <2> QED
      BY <2>1, <2>2, <2>3, <2>4, <2>5 DEF Next
  <1> QED
    BY <1>1, TypeCorrect, PTL DEF Spec, HeartbeatDefeatsFailure
=============================================================================
