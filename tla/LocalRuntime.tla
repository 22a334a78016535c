---------------------------- MODULE LocalRuntime ----------------------------
(***************************************************************************)
(* The isolated workers of a user's computer: LocalManagedEnvironment,     *)
(* which starts, watches and retires the worker of each Session, over one  *)
(* of the runtimes it is given: LocalNativeRuntime (a virtual machine,     *)
(* one slot; on macOS or on Linux with KVM) or LocalContainerRuntime.      *)
(*                                                                         *)
(* Operations of a Session run one at a time (serialize); those of two     *)
(* Sessions interleave.  A claim of the workspace is durable before its    *)
(* storage is made, and both outlive the host, as a worker may.            *)
(***************************************************************************)
EXTENDS Naturals, FiniteSets

CONSTANTS
    Sessions,
    MaxFaults     \* bound on crashes, failed calls and workers that die

Assumptions == IsFiniteSet(Sessions) /\ MaxFaults \in Nat

VARIABLES
    backend,      \* the runtime: native, kvm or container
    capacity,     \* maxSessions
    claim,        \* Sessions with a local_prepared record
    storage,      \* parts of each workspace that exist: disk and receipt, or two volumes
    endpoint,     \* the container engine is recorded on disk
    slot,         \* the native runtime's reservation
    machine,      \* the worker of each Session this host started
    orphan,       \* Sessions with a worker an earlier host left
    connections,
    known,        \* the Sessions the heartbeat watches
    poisoned,
    retiring,     \* Sessions with a failed worker to retire
    op,           \* the operation that holds each Session
    stopped,      \* Sessions whose last close was confirmed
    faults

vars == <<backend, capacity, claim, storage, endpoint, slot, machine, orphan, connections, known, poisoned,
          retiring, op, stopped, faults>>

Backends == {"native", "kvm", "container"}
Idle == [kind |-> "none", pc |-> "none", fresh |-> FALSE]
Free == [holder |-> "none", state |-> "free"]
Whole == 2        \* both parts of a workspace's storage

\* Types of the records, of this host's memory and of the workers.
TypeOK ==
    /\ backend \in Backends /\ capacity \in 1 .. 2
    /\ claim \in SUBSET Sessions /\ storage \in [Sessions -> 0 .. Whole] /\ endpoint \in BOOLEAN
    /\ slot \in [holder : Sessions \union {"none", "probe"}, state : {"free", "pending", "running"}]
    /\ machine \in [Sessions -> {"none", "worker", "snapshot"}] /\ orphan \in SUBSET Sessions
    /\ connections \in SUBSET Sessions /\ Cardinality(connections) <= capacity /\ known \in SUBSET Sessions
    /\ poisoned \in SUBSET Sessions /\ retiring \in SUBSET Sessions /\ stopped \in SUBSET Sessions
    /\ \A s \in Sessions : op[s].kind \in {"none", "ensure", "close", "retire", "refresh", "snapshot"}
    /\ faults \in 0 .. MaxFaults

Init ==
    /\ backend \in Backends /\ capacity \in 1 .. 2
    /\ claim = {} /\ storage = [s \in Sessions |-> 0] /\ endpoint = FALSE
    /\ slot = Free /\ machine = [s \in Sessions |-> "none"] /\ orphan = {}
    /\ connections = {} /\ known = {} /\ poisoned = {} /\ retiring = {}
    /\ op = [s \in Sessions |-> Idle]
    /\ stopped = {} /\ faults = 0

Fault == faults < MaxFaults /\ faults' = faults + 1
native == backend # "container"
settings == <<backend, capacity>>
records == <<claim, storage, endpoint>>
workers == <<machine, orphan>>
memory == <<connections, known, poisoned, retiring>>

At(s, pc) == op' = [op EXCEPT ![s].pc = pc]
Return(s) == op' = [op EXCEPT ![s] = Idle]
Begin(s, kind, pc) == op' = [op EXCEPT ![s] = [Idle EXCEPT !.kind = kind, !.pc = pc]]
Doing(s, kind, pc) == op[s].kind = kind /\ op[s].pc = pc

\* releaseOperation: the slot stays with a worker that runs.
Released(s, running) ==
    IF slot.holder # s THEN slot ELSE IF running THEN [slot EXCEPT !.state = "running"] ELSE Free

-----------------------------------------------------------------------------
(* Starting a worker.                                                      *)

\* Mutant: one connection more than there are workers.
MutantHasRoom(s) == Cardinality(connections \ {s}) <= capacity
\* A Session's own connection does not count.
HasRoom(s) == Cardinality(connections \ {s}) < capacity
\* ensureWorker: the worker that runs, or a start, unless cleanup is unconfirmed or none is left.
Ensure(s) ==
    /\ op[s] = Idle /\ s \notin poisoned
    /\ ~(s \in connections /\ machine[s] = "worker")
    /\ HasRoom(s)
    /\ connections' = connections \union {s}
    /\ op' = [op EXCEPT ![s] = [kind |-> "ensure", pc |-> "reserve", fresh |-> s \notin claim]]
    /\ stopped' = stopped \ {s}
    /\ UNCHANGED <<settings, records, slot, workers, known, poisoned, retiring, faults>>

\* The start fails: its connection is forgotten and the slot given back.
Fails(s) ==
    /\ connections' = connections \ {s}
    /\ slot' = Released(s, native /\ machine'[s] # "none")
    /\ Return(s)

\* reserve: the one slot, free or with this Session's own worker.
Reserve(s) ==
    LET pc == IF op[s].kind = "ensure" THEN "claim" ELSE "inspect"
    IN  /\ op[s].pc = "reserve" /\ native
        /\ IF slot = Free \/ slot = [holder |-> s, state |-> "running"]
           THEN slot' = [holder |-> s, state |-> "pending"] /\ At(s, pc) /\ UNCHANGED connections
           ELSE /\ connections' = IF op[s].kind = "ensure" THEN connections \ {s} ELSE connections
                /\ Return(s) /\ UNCHANGED slot
        /\ UNCHANGED <<settings, records, workers, known, poisoned, retiring, stopped, faults>>

\* The container runtime pins its engine and compares the volumes with the claim instead.
SelectEngine(s) ==
    /\ Doing(s, "ensure", "reserve") /\ ~native
    /\ endpoint' = TRUE
    /\ IF storage[s] = IF op[s].fresh THEN 0 ELSE Whole
       THEN At(s, "claim") /\ UNCHANGED connections
       ELSE connections' = connections \ {s} /\ Return(s)
    /\ UNCHANGED <<settings, claim, storage, slot, workers, known, poisoned, retiring, stopped, faults>>

\* commitWorkspaceClaim: the record of a new workspace; its answer may be lost.
CommitClaim(s) ==
    /\ Doing(s, "ensure", "claim")
    /\ \/ /\ claim' = claim \union {s} /\ known' = known \union {s}
          /\ At(s, IF op[s].fresh THEN "make" ELSE "open")
          /\ UNCHANGED <<connections, slot, faults>>
       \/ /\ Fault
          /\ claim' \in {claim, claim \union {s}}
          /\ connections' = connections \ {s}
          /\ slot' = Released(s, machine[s] # "none")
          /\ Return(s) /\ UNCHANGED known
    /\ UNCHANGED <<settings, storage, endpoint, workers, poisoned, retiring, stopped>>

\* diskBinding, or the volumes: exclusively created, one after the other.
MakeStorage(s) ==
    /\ Doing(s, "ensure", "make") /\ storage[s] < Whole
    /\ storage' = [storage EXCEPT ![s] = @ + 1]
    /\ IF storage'[s] = Whole THEN At(s, "stop") ELSE UNCHANGED op
    /\ UNCHANGED <<settings, claim, endpoint, slot, workers, memory, stopped, faults>>

\* A workspace that is resumed must be there and must be the one that was claimed.
OpenStorage(s) ==
    /\ Doing(s, "ensure", "open")
    /\ IF storage[s] = Whole THEN At(s, "stop") /\ UNCHANGED <<connections, slot>>
       ELSE /\ connections' = connections \ {s} /\ slot' = Released(s, machine[s] # "none") /\ Return(s)
    /\ UNCHANGED <<settings, records, workers, known, poisoned, retiring, stopped, faults>>

\* removeContainer finds the container by name, whoever started it; a native worker is stopped by its own host.
Gone(s) ==
    /\ machine' = [machine EXCEPT ![s] = "none"]
    /\ orphan' = IF native THEN orphan ELSE orphan \ {s}
\* A stop that fails has killed a native worker, and may leave a container.
NotGone(s) ==
    IF native THEN machine' = [machine EXCEPT ![s] = "none"] /\ UNCHANGED orphan ELSE UNCHANGED workers

StopPredecessor(s) ==
    /\ op[s].kind \in {"ensure", "snapshot"} /\ op[s].pc = "stop"
    /\ \/ Gone(s) /\ At(s, "boot") /\ UNCHANGED <<connections, slot, faults>>
       \/ /\ Fault /\ NotGone(s)
          /\ IF op[s].kind = "ensure" THEN Fails(s)
             ELSE slot' = Released(s, FALSE) /\ At(s, "failed") /\ UNCHANGED connections
    /\ UNCHANGED <<settings, records, known, poisoned, retiring, stopped>>

\* boot: the helper locks the disk, so that a worker an earlier host left makes it fail.
Boot(s) ==
    /\ op[s].pc = "boot"
    /\ IF s \in orphan
       THEN /\ UNCHANGED machine
            /\ IF op[s].kind = "ensure" THEN Fails(s)
               ELSE slot' = Released(s, FALSE) /\ At(s, "failed") /\ UNCHANGED connections
       ELSE /\ machine' = [machine EXCEPT ![s] = IF op[s].kind = "ensure" THEN "worker" ELSE "snapshot"]
            /\ At(s, "run") /\ UNCHANGED <<connections, slot>>
    /\ UNCHANGED <<settings, records, orphan, known, poisoned, retiring, stopped, faults>>

\* The worker registers; a failure stops it again.
Register(s) ==
    /\ Doing(s, "ensure", "run")
    /\ \/ /\ machine[s] = "worker"
          /\ slot' = Released(s, TRUE) /\ At(s, "ready")
          /\ UNCHANGED <<workers, connections, faults>>
       \/ /\ IF machine[s] = "worker" THEN Fault ELSE UNCHANGED faults
          /\ \/ Gone(s)
             \/ ~native /\ UNCHANGED workers   \* the removal's own failure is ignored
          /\ Fails(s)
    /\ UNCHANGED <<settings, records, known, poisoned, retiring, stopped>>

\* managedReady: a worker that cannot be announced is retired.
Ready(s) ==
    /\ Doing(s, "ensure", "ready")
    /\ \/ Return(s) /\ UNCHANGED <<connections, faults>>
       \/ Fault /\ connections' = connections \ {s} /\ At(s, "retire")
    /\ UNCHANGED <<settings, records, slot, workers, known, poisoned, retiring, stopped>>

-----------------------------------------------------------------------------
(* Stopping a worker.                                                      *)

\* close: nothing to do for a Session that never claimed a workspace.
Close(s) ==
    /\ op[s] = Idle
    /\ IF s \in claim
       THEN Begin(s, "close", "retire") /\ poisoned' = poisoned \union {s}
            /\ connections' = connections \ {s} /\ UNCHANGED stopped
       ELSE /\ {s} \intersect (connections \union known \union poisoned) = {}
            /\ stopped' = stopped \union {s} /\ UNCHANGED <<op, poisoned, connections>>
    /\ UNCHANGED <<settings, records, slot, workers, known, retiring, faults>>

\* retireFailedWorker: poisoned at once, in the middle of another operation too; then retired in turn.
Poison(s) ==
    /\ s \in connections /\ s \notin retiring /\ s \in claim
    /\ poisoned' = poisoned \union {s} /\ retiring' = retiring \union {s}
    /\ UNCHANGED <<settings, records, slot, workers, connections, known, op, stopped, faults>>

RetireFailed(s) ==
    /\ op[s] = Idle /\ s \in retiring
    /\ retiring' = retiring \ {s} /\ connections' = connections \ {s}
    /\ Begin(s, "retire", "retire")
    /\ UNCHANGED <<settings, records, slot, workers, known, poisoned, stopped, faults>>

\* refresh: the heartbeat retires a worker that has died.
Refresh(s) ==
    /\ op[s] = Idle /\ s \in known /\ machine[s] # "worker"
    /\ connections' = connections \ {s}
    /\ Begin(s, "refresh", "retire")
    /\ UNCHANGED <<settings, records, slot, workers, known, poisoned, retiring, stopped, faults>>

\* confirmColdStop: the Linux helper tries the lock of the disk; elsewhere nothing is checked.
ColdStopConfirmed(s) == backend = "kvm" => storage[s] = Whole /\ s \notin orphan

ColdStop(s) == ColdStopConfirmed(s)

\* runtime.stop, as the end of a close, of a retirement or of a failed start.
Stop(s) ==
    /\ op[s].pc = "retire"
    /\ \/ /\ native /\ machine[s] = "none" => ColdStop(s)
          /\ ~native => endpoint
          /\ Gone(s)
          /\ slot' = IF slot = [holder |-> s, state |-> "running"] THEN Free ELSE slot
          /\ known' = known \ {s}
          /\ \/ /\ poisoned' = IF op[s].kind \in {"close", "retire"} THEN poisoned \ {s} ELSE poisoned
                /\ stopped' = IF op[s].kind = "close" THEN stopped \union {s} ELSE stopped
                /\ UNCHANGED faults
             \/ Fault /\ UNCHANGED <<poisoned, stopped>>  \* its status could not be written
       \/ /\ IF native /\ machine[s] = "none" THEN ~ColdStop(s) /\ UNCHANGED faults ELSE Fault
          /\ NotGone(s)
          /\ slot' = IF native /\ slot = [holder |-> s, state |-> "running"] THEN Free ELSE slot
          /\ UNCHANGED <<known, poisoned, stopped>>
    /\ Return(s)
    /\ UNCHANGED <<settings, records, connections, retiring>>

-----------------------------------------------------------------------------
(* Copying a workspace out, and the probe of the native runtime.           *)

\* snapshot: the worker is replaced by one that only reads.
Snapshot(s) ==
    /\ op[s] = Idle /\ s \in claim
    /\ Begin(s, "snapshot", IF native THEN "reserve" ELSE "inspect")
    /\ stopped' = stopped \ {s}
    /\ UNCHANGED <<settings, records, slot, workers, memory, faults>>

SnapshotStorage(s) ==
    /\ Doing(s, "snapshot", "inspect")
    /\ IF storage[s] = Whole THEN At(s, "stop") /\ UNCHANGED slot
       ELSE At(s, "failed") /\ slot' = Released(s, native /\ machine[s] # "none")
    /\ UNCHANGED <<settings, records, workers, memory, stopped, faults>>

SnapshotTaken(s) ==
    /\ Doing(s, "snapshot", "run")
    /\ machine' = [machine EXCEPT ![s] = "none"] /\ slot' = Released(s, FALSE)
    /\ connections' = connections \ {s} /\ known' = known \ {s}
    /\ Return(s)
    /\ UNCHANGED <<settings, records, orphan, poisoned, retiring, stopped, faults>>

SnapshotFails(s) ==
    /\ Doing(s, "snapshot", "failed")
    /\ IF machine[s] = "worker" THEN UNCHANGED <<connections, known>>
       ELSE connections' = connections \ {s} /\ known' = known \ {s}
    /\ Return(s)
    /\ UNCHANGED <<settings, records, slot, workers, poisoned, retiring, stopped, faults>>

\* setup, and the probe of a release: a disposable worker in the slot.
Probe ==
    /\ native /\ slot = Free
    /\ slot' = [holder |-> "probe", state |-> "pending"]
    /\ UNCHANGED <<settings, records, workers, memory, op, stopped, faults>>
ProbeEnds ==
    /\ slot.holder = "probe" /\ slot' = Free
    /\ UNCHANGED <<settings, records, workers, memory, op, stopped, faults>>

-----------------------------------------------------------------------------

\* A worker dies; a native one that runs gives its slot back.
Dies(s) ==
    /\ machine[s] # "none" /\ Fault
    /\ machine' = [machine EXCEPT ![s] = "none"]
    /\ slot' = IF slot = [holder |-> s, state |-> "running"] THEN Free ELSE slot
    /\ UNCHANGED <<settings, records, orphan, memory, op, stopped>>

\* The host stops: its memory is lost and its workers may stay for a while, or for good.
Crash ==
    /\ Fault
    /\ slot' = Free /\ connections' = {} /\ known' = {} /\ poisoned' = {} /\ retiring' = {}
    /\ op' = [s \in Sessions |-> Idle]
    /\ orphan' = orphan \union {s \in Sessions : machine[s] # "none"}
    /\ machine' = [s \in Sessions |-> "none"]
    /\ UNCHANGED <<settings, records, stopped>>
OrphanEnds(s) ==
    /\ s \in orphan /\ orphan' = orphan \ {s}
    /\ UNCHANGED <<settings, records, slot, machine, memory, op, stopped, faults>>

Next ==
    \/ Probe \/ ProbeEnds \/ Crash
    \/ \E s \in Sessions :
         \/ Ensure(s) \/ Reserve(s) \/ SelectEngine(s) \/ CommitClaim(s) \/ MakeStorage(s) \/ OpenStorage(s)
         \/ StopPredecessor(s) \/ Boot(s) \/ Register(s) \/ Ready(s)
         \/ Close(s) \/ Poison(s) \/ RetireFailed(s) \/ Refresh(s) \/ Stop(s)
         \/ Snapshot(s) \/ SnapshotStorage(s) \/ SnapshotTaken(s) \/ SnapshotFails(s)
         \/ Dies(s) \/ OrphanEnds(s)

Spec == Init /\ [][Next]_vars

-----------------------------------------------------------------------------

\* Nothing shares a workspace or the native runtime's slot: no two workers of a Session run at once,
\* even across hosts; one native worker runs at a time, in a slot that is its own; and a slot is
\* taken only while the operation or the worker it was taken for goes on (reserve, releaseOperation).
OneMachine ==
    /\ \A s \in Sessions : machine[s] # "none" => s \notin orphan
    /\ native => \A s \in Sessions : machine[s] # "none" => slot.holder = s
    /\ \A s \in Sessions :
         /\ slot = [holder |-> s, state |-> "running"] => machine[s] # "none"
         /\ slot = [holder |-> s, state |-> "pending"] => op[s].kind \in {"ensure", "snapshot"}

\* What a confirmed close says is so: no worker of the Session runs until one is asked for again
\* (on macOS, none this host started); and storage is only ever made for a claimed workspace.
StoppedMeansGone ==
    /\ \A s \in stopped : machine[s] = "none" /\ (backend # "native" => s \notin orphan)
    /\ \A s \in Sessions : storage[s] > 0 => s \in claim
=============================================================================
