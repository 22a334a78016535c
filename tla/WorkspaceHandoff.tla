-------------------------- MODULE WorkspaceHandoff --------------------------
(***************************************************************************)
(* A managed workspace passes from one worker to the next, and is copied   *)
(* for forks (core/workspace-handoff-service.ts and -planning.ts,          *)
(* runner/workspace-handoff.ts, runner/fork-workspace.ts and the managed   *)
(* part of core/environment-service.ts).                                   *)
(*                                                                         *)
(* A Run is admitted to the environment, its worker binds or adopts it,    *)
(* writes to the durable root and, to hibernate, seals admission, stops    *)
(* every writer, synchronizes storage and commits a checkpoint.  The next  *)
(* Run's worker consumes the checkpoint.  Fork copies read the root of a   *)
(* committed checkpoint under a lease.                                     *)
(*                                                                         *)
(* update (read, plan, conditional put, up to five times) takes effect in  *)
(* one step.  A process in `current` has read the revision that is stored. *)
(***************************************************************************)
EXTENDS Naturals

CONSTANTS
    LastRun,      \* Runs 1 .. LastRun of one Session; one execution generation each
    Forks,        \* forks of the Session
    MaxFaults     \* bound on crashes, lost answers and failed barriers

Runs == 1 .. LastRun
NoFork == "none"

Assumptions == LastRun \in Nat \ {0} /\ MaxFaults \in Nat /\ NoFork \notin Forks

VARIABLES
    row,       \* the environment record
    current,   \* Runs whose recovery read the stored revision
    attach,    \* the control plane, admitting each Run
    worker,    \* the worker of each Run
    effect,    \* Runs with an admitted effect under way
    unsynced,  \* Runs whose writes to the root are not all on durable storage yet
    copier,    \* what each fork's copier is doing
    faults

vars == <<row, current, attach, worker, effect, unsynced, copier, faults>>

-----------------------------------------------------------------------------

Phases == {"none", "quiescing", "committed", "consumed", "aborted"}
Row == [run : Runs \union {0}, generation : Runs \union {0}, pending : Runs \union {0},
        phase : Phases, source : Runs \union {0}, expired : BOOLEAN,
        lease : Forks \union {NoFork}, leaseState : {"running", "late", "expired"},
        sandbox : BOOLEAN, failed : BOOLEAN, retired : BOOLEAN]
WorkerPc == {"none", "boot", "adopt", "bind", "prepare", "work", "sealed", "begin", "shutdown", "sync",
             "commit", "abort", "undo", "stopped"}

\* Types of the environment record and its users.
TypeOK ==
    /\ row \in Row
    /\ current \in SUBSET Runs
    /\ attach \in [Runs -> [pc : {"idle", "check", "recover", "reset", "write", "done"},
                            seen : Row, run : Runs \union {0}, generation : Runs \union {0}]]
    /\ worker \in [Runs -> WorkerPc]
    /\ effect \in SUBSET Runs
    /\ unsynced \in SUBSET Runs
    /\ copier \in [Forks -> {"idle", "copy", "publish", "published", "failed"}]
    /\ faults \in 0 .. MaxFaults

NewEnvironment ==
    [run |-> 0, generation |-> 0, pending |-> 0, phase |-> "none", source |-> 0, expired |-> FALSE,
     lease |-> NoFork, leaseState |-> "expired", sandbox |-> FALSE, failed |-> FALSE, retired |-> FALSE]
Idle == [pc |-> "idle", seen |-> NewEnvironment, run |-> 0, generation |-> 0]

Init ==
    /\ row = NewEnvironment
    /\ current = {}
    /\ attach = [r \in Runs |-> Idle]
    /\ worker = [r \in Runs |-> "none"]
    /\ effect = {}
    /\ unsynced = {}
    /\ copier = [f \in Forks |-> "idle"]
    /\ faults = 0

Put(value) == row' = value /\ current' = {}
Works(r, pc) == worker' = [worker EXCEPT ![r] = pc]
Fault == faults < MaxFaults /\ faults' = faults + 1

\* Hosts whose termination the control plane can prove; it is irreversible.
SourceStopped(r) == worker[r] = "stopped"
Leased(value) == value.lease # NoFork /\ value.leaseState # "expired"

\* hosted and authority of the planning functions.
Hosted(value) == ~value.retired /\ ~value.failed
Authority(value, r) == Hosted(value) /\ value.run = r /\ value.generation = r

-----------------------------------------------------------------------------
(* Admission of a Run: attachManaged with prepareReplacement and recover. *)

AttachRead(r) ==
    /\ attach[r].pc = "idle"
    /\ attach' = [attach EXCEPT ![r] = [Idle EXCEPT !.pc = "check", !.seen = row]]
    /\ UNCHANGED <<row, current, worker, effect, unsynced, copier, faults>>

Admits(r, run, generation) ==
    attach' = [attach EXCEPT ![r].pc = "write", ![r].run = run, ![r].generation = generation]
AttachFails(r) == attach' = [attach EXCEPT ![r] = Idle]

\* Who has to be gone before a handoff that was abandoned is undone.
Owner(value) == IF value.phase = "consumed" THEN value.run ELSE value.source

\* prepareReplacement on the value read: a bound predecessor must have stopped.  The claim of
\* another Run on the committed checkpoint stands, or is released once that Run has ended, which
\* says nothing of its worker.
AttachCheck(r) ==
    /\ attach[r].pc = "check"
    /\ LET seen == attach[r].seen
           bound == seen.phase = "none" /\ seen.run \notin {0, r} /\ seen.generation # 0
           claimed == seen.phase = "committed" /\ seen.pending \notin {0, r}
       IN  \/ /\ claimed \/ (bound /\ ~SourceStopped(seen.run))
              /\ AttachFails(r)
              /\ UNCHANGED <<row, current>>
           \/ /\ claimed
              /\ IF row.pending = seen.pending /\ row.phase = "committed"
                 THEN Put([row EXCEPT !.pending = 0]) /\ Admits(r, seen.run, seen.generation)
                 ELSE AttachFails(r) /\ UNCHANGED <<row, current>>
           \/ /\ ~claimed /\ (bound => SourceStopped(seen.run))
              /\ IF seen.phase \in {"none", "committed"} \/ seen.run = r
                 THEN Admits(r, seen.run, seen.generation)
                 ELSE attach' = [attach EXCEPT ![r].pc = "recover"]
              /\ UNCHANGED <<row, current>>
    /\ UNCHANGED <<worker, effect, unsynced, copier, faults>>

\* recover reads again; the source is the one that prepareReplacement saw.
RecoverRead(r) ==
    /\ attach[r].pc = "recover"
    /\ LET source == Owner(attach[r].seen)
       IN  IF \/ row.phase \in {"none", "committed"} \/ Owner(row) # source
              \/ row.phase = "quiescing" /\ ~row.expired
              \/ ~SourceStopped(source) \/ row.retired \/ row.run # source
           THEN AttachFails(r) /\ UNCHANGED current
           ELSE /\ attach' = [attach EXCEPT ![r].pc = "reset"]
                /\ current' = current \union {r}
    /\ UNCHANGED <<row, worker, effect, unsynced, copier, faults>>

\* "One CAS, without retries: a commit, renewal or deletion during inspection must win."
Reset(r) ==
    /\ attach[r].pc = "reset"
    /\ IF r \in current
       THEN /\ Put([row EXCEPT !.phase = "none", !.source = 0, !.generation = 0, !.lease = NoFork])
            /\ Admits(r, attach[r].seen.run, 0)
       ELSE AttachFails(r) /\ UNCHANGED <<row, current>>
    /\ UNCHANGED <<worker, effect, unsynced, copier, faults>>

\* The update of attachManaged: the admission still describes the record.
AttachWrite(r) ==
    /\ attach[r].pc = "write"
    /\ IF \/ row.run # attach[r].run \/ row.generation # attach[r].generation \/ ~Hosted(row)
          \/ /\ row.phase # "none" /\ row.run # r
             /\ row.phase # "committed" \/ Leased(row) \/ row.pending \notin {0, r}
       THEN AttachFails(r) /\ UNCHANGED <<row, current>>
       ELSE /\ attach' = [attach EXCEPT ![r] = [Idle EXCEPT !.pc = "done"]]
            /\ IF row.phase # "none" /\ row.run # r THEN Put([row EXCEPT !.pending = r])
               ELSE IF row.run = r THEN UNCHANGED <<row, current>>
               ELSE Put([row EXCEPT !.run = r, !.generation = 0])
    /\ UNCHANGED <<worker, effect, unsynced, copier, faults>>

-----------------------------------------------------------------------------
(* The worker: from launch to readiness. *)

Launch(r) ==
    /\ attach[r].pc = "done"
    /\ worker[r] = "none"
    /\ Works(r, "boot")
    /\ UNCHANGED <<row, current, attach, effect, unsynced, copier, faults>>

\* prepareWorker reads the record, then adopts or binds.
PrepareWorker(r) ==
    /\ worker[r] = "boot"
    /\ IF row.phase = "committed" THEN Works(r, IF row.pending = r THEN "adopt" ELSE "stopped")
       ELSE Works(r, "bind")
    /\ UNCHANGED <<row, current, attach, effect, unsynced, copier, faults>>

\* planCheckpointAdoption: the permit is single-use and not given while the root is being copied.
Adopt(r) ==
    /\ worker[r] = "adopt"
    /\ IF /\ row.phase = "committed" /\ Authority(row, row.source)
          /\ row.pending \in {0, r} /\ r # row.source /\ ~Leased(row)
       THEN /\ Put([row EXCEPT !.run = r, !.generation = r, !.pending = 0, !.phase = "consumed",
                               !.lease = NoFork])
            /\ Works(r, "prepare")
       ELSE Works(r, "stopped") /\ UNCHANGED <<row, current>>
    /\ UNCHANGED <<attach, effect, unsynced, copier, faults>>

\* "Bind before any writer starts; never replace a generation in place."
Bind(r) ==
    /\ worker[r] = "bind"
    /\ IF Hosted(row) /\ row.run = r /\ row.phase = "none" /\ row.generation \in {0, r}
       THEN Put([row EXCEPT !.generation = r]) /\ Works(r, "prepare")
       ELSE Works(r, "stopped") /\ UNCHANGED <<row, current>>
    /\ UNCHANGED <<attach, effect, unsynced, copier, faults>>

\* managedReady; a failed preparation is reported as "failed".
Ready(r) ==
    /\ worker[r] = "prepare"
    /\ LET authority == ~row.retired /\ row.run = r /\ row.phase \in {"none", "consumed"}
       IN  \/ /\ authority
              /\ Put([row EXCEPT !.sandbox = TRUE, !.failed = FALSE])
              /\ Works(r, "work")
              /\ UNCHANGED faults
           \/ /\ Fault
              /\ IF authority THEN Put([row EXCEPT !.failed = TRUE]) ELSE UNCHANGED <<row, current>>
              /\ Works(r, "stopped")
           \/ ~authority /\ Works(r, "stopped") /\ UNCHANGED <<row, current, faults>>
    /\ UNCHANGED <<attach, effect, unsynced, copier>>

\* Who may change the root: preparation, the native harness until it is shut down, and
\* admitted effects.
Writing(r) == worker[r] \in {"prepare", "work", "sealed", "begin", "shutdown", "abort"} \/ r \in effect

Write(r) ==
    /\ Writing(r)
    /\ unsynced' = unsynced \union {r}
    /\ UNCHANGED <<row, current, attach, worker, effect, copier, faults>>

\* WorkspaceAdmission.run: file operations, tool answers and starts.
EffectStarts(r) ==
    /\ worker[r] = "work"
    /\ r \notin effect
    /\ effect' = effect \union {r}
    /\ UNCHANGED <<row, current, attach, worker, unsynced, copier, faults>>

EffectEnds(r) ==
    /\ r \in effect
    /\ effect' = effect \ {r}
    /\ UNCHANGED <<row, current, attach, worker, unsynced, copier, faults>>

\* The keep-alive: a worker that lost authority aborts.
KeepAlive(r) ==
    /\ worker[r] = "work"
    /\ row.retired \/ row.run # r \/ row.phase \notin {"none", "consumed"}
    /\ Works(r, "stopped")
    /\ effect' = effect \ {r}
    /\ UNCHANGED <<row, current, attach, unsynced, copier, faults>>

-----------------------------------------------------------------------------
(* checkpointWorkspace *)

Seal(r) ==
    /\ worker[r] = "work"
    /\ Works(r, "sealed")
    /\ UNCHANGED <<row, current, attach, effect, unsynced, copier, faults>>

\* seal has awaited the admitted effects; a busy Session reopens admission.
InspectIdle(r) ==
    /\ worker[r] = "sealed"
    /\ r \notin effect
    /\ \E idle \in BOOLEAN : Works(r, IF idle THEN "begin" ELSE "work")
    /\ UNCHANGED <<row, current, attach, effect, unsynced, copier, faults>>

\* planHandoffBegin.  Its answer may be lost after the record was written.
Begin(r) ==
    /\ worker[r] = "begin"
    /\ IF Authority(row, r) /\ row.sandbox /\ row.phase \in {"none", "consumed"}
       THEN /\ Put([row EXCEPT !.phase = "quiescing", !.source = r, !.expired = FALSE, !.lease = NoFork])
            /\ \/ Works(r, "shutdown") /\ UNCHANGED faults
               \/ Works(r, "abort") /\ Fault
       ELSE Works(r, "abort") /\ UNCHANGED <<row, current, faults>>
    /\ UNCHANGED <<attach, effect, unsynced, copier>>

\* The native harness acknowledges its flush and exits; the remaining writers are stopped and
\* the journal is flushed into the root.
ShutdownNative(r) ==
    /\ worker[r] = "shutdown"
    /\ \/ Works(r, "sync") /\ unsynced' = unsynced \union {r} /\ UNCHANGED faults
       \/ Works(r, "abort") /\ Fault /\ UNCHANGED unsynced
    /\ UNCHANGED <<row, current, attach, effect, copier>>

SyncStorage(r) ==
    /\ worker[r] = "sync"
    /\ \/ Works(r, "commit") /\ unsynced' = unsynced \ {r} /\ UNCHANGED faults
       \/ Works(r, "undo") /\ Fault /\ UNCHANGED unsynced
    /\ UNCHANGED <<row, current, attach, effect, copier>>

\* planCheckpointWrite, after which the worker settles.
Commit(r) ==
    /\ worker[r] = "commit"
    /\ IF Authority(row, r) /\ row.phase = "quiescing" /\ row.source = r /\ ~row.expired
       THEN /\ Put([row EXCEPT !.phase = "committed"])
            /\ \/ Works(r, "stopped") /\ UNCHANGED faults
               \/ Works(r, "undo") /\ Fault
       ELSE Works(r, "undo") /\ UNCHANGED <<row, current, faults>>
    /\ UNCHANGED <<attach, effect, unsynced, copier>>

\* Mutant: an abort undoes a commit whose answer was lost.
MutantAbortCommitted(r) ==
    /\ worker[r] \in {"abort", "undo"}
    /\ IF Authority(row, r) /\ row.phase \in {"quiescing", "committed"} /\ row.source = r
       THEN Put([row EXCEPT !.phase = "none"])
       ELSE UNCHANGED <<row, current>>
    /\ Works(r, "stopped")
    /\ UNCHANGED <<attach, effect, unsynced, copier, faults>>

\* Writers are stopped (in "undo" they already were), then planHandoffAbort leaves a tombstone;
\* a failed abort is ignored.  The worker ends.
Abort(r) ==
    /\ worker[r] \in {"abort", "undo"}
    /\ \/ /\ Authority(row, r) /\ row.phase = "quiescing" /\ row.source = r
          /\ Put([row EXCEPT !.phase = "aborted"])
          /\ UNCHANGED faults
       \/ Fault /\ UNCHANGED <<row, current>>
       \/ /\ ~(Authority(row, r) /\ row.phase = "quiescing" /\ row.source = r)
          /\ UNCHANGED <<row, current, faults>>
    /\ Works(r, "stopped")
    /\ UNCHANGED <<attach, effect, unsynced, copier>>

\* The host of a worker ends, with its processes and what was not synchronized.
Crash(r) ==
    /\ worker[r] \notin {"none", "stopped"}
    /\ Fault
    /\ Works(r, "stopped")
    /\ effect' = effect \ {r}
    /\ unsynced' = unsynced \ {r}
    /\ UNCHANGED <<row, current, attach, copier>>

-----------------------------------------------------------------------------
(* Forks: leaseSnapshot, the copy, publishSnapshot. *)

Copies(f, pc) == copier' = [copier EXCEPT ![f] = pc]

LeaseSnapshot(f) ==
    /\ copier[f] = "idle"
    /\ Hosted(row) /\ row.phase = "committed" /\ ~Leased(row)
    /\ Put([row EXCEPT !.lease = f, !.leaseState = "running"])
    /\ Copies(f, "copy")
    /\ UNCHANGED <<attach, worker, effect, unsynced, faults>>

\* The lease of this fork holds; prepareForkWorkspace and planSnapshotRelease ask for it.
Holds(f) == Hosted(row) /\ row.phase = "committed" /\ row.lease = f /\ row.leaseState # "expired"

\* The copier stops at its deadline, five seconds before the lease.
CopyTree(f) ==
    /\ copier[f] = "copy"
    /\ Copies(f, IF Holds(f) /\ row.leaseState = "running" THEN "publish" ELSE "failed")
    /\ UNCHANGED <<row, current, attach, worker, effect, unsynced, faults>>

\* One transaction stores the snapshot and releases the lease.
PublishSnapshot(f) ==
    /\ copier[f] = "publish"
    /\ IF Holds(f) THEN Put([row EXCEPT !.lease = NoFork]) /\ Copies(f, "published")
       ELSE Copies(f, "failed") /\ UNCHANGED <<row, current>>
    /\ UNCHANGED <<attach, worker, effect, unsynced, faults>>

\* A fork that fails before its worker copies gives the lease back.
ReleaseFork(f) ==
    /\ copier[f] = "copy"
    /\ Fault
    /\ IF Holds(f) THEN Put([row EXCEPT !.lease = NoFork]) ELSE UNCHANGED <<row, current>>
    /\ Copies(f, "failed")
    /\ UNCHANGED <<attach, worker, effect, unsynced>>

-----------------------------------------------------------------------------
(* Time and the owner. *)

HandoffExpires ==
    /\ row.phase = "quiescing" /\ ~row.expired
    /\ row' = [row EXCEPT !.expired = TRUE]
    /\ UNCHANGED <<current, attach, worker, effect, unsynced, copier, faults>>

\* The five seconds between the deadline and the lease are enough for a copier to stop.
LeaseTime ==
    /\ row.lease # NoFork
    /\ \/ row.leaseState = "running" /\ row' = [row EXCEPT !.leaseState = "late"]
       \/ /\ row.leaseState = "late" /\ copier[row.lease] # "copy"
          /\ row' = [row EXCEPT !.leaseState = "expired"]
    /\ UNCHANGED <<current, attach, worker, effect, unsynced, copier, faults>>

\* EnvironmentService.retire: not while the workspace is being copied.
Retire ==
    /\ ~row.retired
    /\ ~(row.phase = "committed" /\ Leased(row))
    /\ Put([row EXCEPT !.retired = TRUE])
    /\ UNCHANGED <<attach, worker, effect, unsynced, copier, faults>>

Next ==
    \/ \E r \in Runs :
          \/ AttachRead(r) \/ AttachCheck(r) \/ RecoverRead(r) \/ Reset(r) \/ AttachWrite(r)
          \/ Launch(r) \/ PrepareWorker(r) \/ Adopt(r) \/ Bind(r) \/ Ready(r) \/ Write(r)
          \/ EffectStarts(r) \/ EffectEnds(r) \/ KeepAlive(r) \/ Seal(r) \/ InspectIdle(r) \/ Begin(r)
          \/ ShutdownNative(r) \/ SyncStorage(r) \/ Commit(r) \/ Abort(r) \/ Crash(r)
    \/ \E f \in Forks : LeaseSnapshot(f) \/ CopyTree(f) \/ PublishSnapshot(f) \/ ReleaseFork(f)
    \/ HandoffExpires
    \/ LeaseTime
    \/ Retire

Spec == Init /\ [][Next]_vars

-----------------------------------------------------------------------------
(* Properties *)

\* The root has one user at a time: two workers never write to it, and none writes while a
\* fork copies it, whatever was lost or crashed.  Expiry of a transition proves nothing; only
\* a checkpoint or a terminated host lets the next worker in.
RootHasOneUser ==
    \A r \in Runs : Writing(r) =>
        /\ \A s \in Runs : Writing(s) => r = s
        /\ \A f \in Forks : copier[f] # "copy"

\* A checkpoint that can be adopted or copied is complete: nothing still writes, and all that was
\* written is on durable storage.
CheckpointIsComplete ==
    row.phase = "committed" => row.source \notin unsynced /\ ~Writing(row.source)

\* One worker at a time writes a workspace, and what a checkpoint names is all of it.
WorkspaceIsKept == RootHasOneUser /\ CheckpointIsComplete
=============================================================================
