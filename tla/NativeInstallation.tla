------------------------- MODULE NativeInstallation -------------------------
(***************************************************************************)
(* The local workspace's native runtime: LocalNativeInstallation installs, *)
(* probes and selects releases in the profile directory, and               *)
(* LocalNativeService runs one requested change at a time and keeps a      *)
(* record of each.  The process may be killed and the machine may lose     *)
(* power at any step; what was not synchronized may then be gone.          *)
(*                                                                         *)
(* A step ends where the code waits for the file system, the probe or the  *)
(* record store with an effect on what is modelled.  One process holds the *)
(* profile's lease, so there is no other writer.  Bundle contents are not  *)
(* modelled: inspectVersion fails exactly when the version is not there or *)
(* not sealed.                                                             *)
(***************************************************************************)
EXTENDS Integers, FiniteSets

CONSTANTS
    Releases,    \* release ids an app bundle may carry
    Ids,         \* ids of requested changes
    None,        \* no release
    MaxFaults    \* bound on kills, power losses and failed calls

Assumptions == None \notin Releases /\ MaxFaults \in Nat /\ Ids \subseteq Nat \ {0}

VARIABLES
    disk,         \* the profile's runtime directory
    process,      \* what the service holds in memory
    op,           \* the installation's current operation
    records,      \* the change records
    bundled,      \* the release in the app bundle
    selections,   \* every <<generation, active release>> that was on disk
    interrupted,  \* releases published by an operation that did not synchronize them
    faults

vars == <<disk, process, op, records, bundled, selections, interrupted, faults>>
history == <<selections, interrupted>>

-----------------------------------------------------------------------------
(* States *)

Actions == {"setup", "rollback"}
NoPending == [action |-> "none", release |-> None]
Pending == [action : Actions, release : Releases] \union {NoPending}
Selection == [generation : Nat, active : Releases \union {None}, previous : Releases \union {None},
              pending : Pending]
EmptySelection == [generation |-> 0, active |-> None, previous |-> None, pending |-> NoPending]

Disk == [selection : Selection,                            \* selection.json
         synced : Selection,                               \* what of it survives a power loss
         versions : [Releases -> {"absent", "open", "sealed"}],
         kept : SUBSET Releases,                           \* versions that survive a power loss
         stage : {"none", "partial", "verified"}, probe : BOOLEAN, tmp : BOOLEAN]

Process == [up : BOOLEAN, state : {"checking", "needs_setup", "ready", "failed", "stopping"},
            lifecycle : {"recovering", "recovered"}, known : BOOLEAN, selection : Selection,
            selected : Releases \union {None}, \* LocalNativeInstallation.selected
            pinned : Releases \union {None},   \* the release of the state "ready"
            active : Ids \union {0}]           \* the change that is being carried out

Operation == [key : {"none", "startup"} \union Actions,
              pc : {"none", "recover", "read", "plan", "install", "copy", "publish", "seal", "syncVersion",
                    "commit", "rename", "syncSelection", "probe", "probing", "pin", "done", "failed",
                    "record", "catch"},
              target : Releases \union {None}, next : Selection, write : BOOLEAN,
              then : {"done", "probe", "select"}, fallback : BOOLEAN, failed : BOOLEAN]

NoIntent == [target |-> None, requested |-> 0]
Record == [action : Actions \union {"none"},
           intent : [target : Releases, requested : Nat] \union {NoIntent},
           status : {"none", "queued", "working", "awaiting_restart", "complete", "failed"}]
NoRecord == [action |-> "none", intent |-> NoIntent, status |-> "none"]

Down == [up |-> FALSE, state |-> "checking", lifecycle |-> "recovering", known |-> FALSE,
         selection |-> EmptySelection, selected |-> None, pinned |-> None, active |-> 0]
NoOperation == [key |-> "none", pc |-> "none", target |-> None, next |-> EmptySelection, write |-> FALSE,
                then |-> "done", fallback |-> FALSE, failed |-> FALSE]

\* Types of the disk, the memory and the records.
TypeOK ==
    /\ disk \in Disk
    /\ process \in Process
    /\ op \in Operation
    /\ records \in [Ids -> Record]
    /\ bundled \in Releases
    /\ selections \subseteq Nat \X (Releases \union {None})
    /\ interrupted \subseteq Releases
    /\ faults \in 0 .. MaxFaults

Init ==
    /\ disk = [selection |-> EmptySelection, synced |-> EmptySelection,
               versions |-> [r \in Releases |-> "absent"], kept |-> {},
               stage |-> "none", probe |-> FALSE, tmp |-> FALSE]
    /\ process = Down
    /\ op = NoOperation
    /\ records = [i \in Ids |-> NoRecord]
    /\ bundled \in Releases
    /\ selections = {<<0, None>>} /\ interrupted = {}
    /\ faults = 0

Fault == faults < MaxFaults /\ faults' = faults + 1
NoFault == UNCHANGED faults

-----------------------------------------------------------------------------
(* Selections *)

\* requestNativeSelection, for a release that a rollback may name
RequestSelection(selection, action, release) ==
    IF selection.pending = [action |-> action, release |-> release] THEN selection
    ELSE IF selection.active = release
      THEN IF selection.pending = NoPending THEN selection
           ELSE [selection EXCEPT !.generation = @ + 1, !.pending = NoPending]
    ELSE [selection EXCEPT !.generation = @ + 1, !.pending = [action |-> action, release |-> release]]

\* activateNativeSelection
MayActivate(selection, release) == selection.pending.release = release
ActivateSelection(selection, release) ==
    [selection EXCEPT !.generation = @ + 1, !.active = release, !.previous = selection.active,
                      !.pending = NoPending]

\* What decodeNativeSelection accepts; anything else bricks the profile.
Coherent(selection) ==
    /\ selection.active = None => selection.previous = None
    /\ selection.active # None => selection.active # selection.previous
    /\ selection.pending # NoPending => selection.active # selection.pending.release
    /\ selection.pending.action = "rollback" => selection.pending.release = selection.previous

Names(selection) == {selection.active, selection.previous, selection.pending.release} \ {None}

Final == {"complete", "failed"}

\* reconcileNativeRuntimeChange
Reconciled(record, selection) ==
    LET intent == record.intent
        applied == /\ intent # NoIntent
                   /\ selection.active = intent.target
                   /\ selection.generation \in intent.requested .. intent.requested + 1
        waits == /\ intent # NoIntent
                 /\ selection.generation = intent.requested
                 /\ selection.pending = [action |-> record.action, release |-> intent.target]
    IN  IF record.status \in Final \union {"none"} THEN record
        ELSE [record EXCEPT !.status = IF applied THEN "complete"
                                       ELSE IF waits THEN "awaiting_restart" ELSE "failed"]

-----------------------------------------------------------------------------
(* The installation *)

Goes(pc) == op' = [op EXCEPT !.pc = pc]

\* A failing activation at startup falls back to the active release; any other failure ends the operation.
Activating == op.pc \in {"probe", "probing"} \/ (op.pc \in {"commit", "rename", "syncSelection"} /\ op.then = "select")

FallsBack == op.key = "startup" /\ Activating /\ process.selection.active # None

FailsKnowing(lifecycle, known) ==
    /\ op' = IF FallsBack THEN [op EXCEPT !.pc = "recover", !.fallback = TRUE]
             ELSE [op EXCEPT !.pc = "failed", !.failed = TRUE]
    /\ process' = [process EXCEPT !.lifecycle = IF FallsBack THEN "recovering" ELSE lifecycle,
                                  !.known = known]

Fails(lifecycle) == FailsKnowing(lifecycle, process.known)

Inspectable(r) == r # None /\ disk.versions[r] = "sealed"

\* recover: what earlier processes left behind is removed.
Recover ==
    /\ op.pc = "recover"
    /\ disk' = [disk EXCEPT !.stage = "none", !.probe = FALSE, !.tmp = FALSE]
    /\ process' = [process EXCEPT !.lifecycle = "recovered"]
    /\ Goes(IF op.fallback THEN "pin" ELSE "read")
    /\ UNCHANGED <<records, bundled, history, faults>>

\* readSelection
Read ==
    /\ op.pc = "read"
    /\ LET selection == disk.selection
       IN  /\ process' = [process EXCEPT !.known = TRUE, !.selection = selection]
           /\ op' = CASE op.key = "startup" /\ selection.pending # NoPending ->
                             [op EXCEPT !.pc = "probe", !.target = selection.pending.release]
                      [] op.key = "startup" /\ selection.pending = NoPending ->
                             [op EXCEPT !.pc = IF selection.active = None THEN "done" ELSE "pin"]
                      [] op.key = "setup" -> [op EXCEPT !.pc = "plan", !.target = bundled]
                      [] op.key = "rollback" ->
                             IF Inspectable(selection.previous)
                               THEN [op EXCEPT !.pc = "plan", !.target = selection.previous]
                               ELSE [op EXCEPT !.pc = "failed", !.failed = TRUE]
    /\ UNCHANGED <<disk, records, bundled, history, faults>>

\* The intent is recorded before anything changes (beforeMutation).
Plan ==
    /\ op.pc = "plan"
    /\ LET next == RequestSelection(process.selection, op.key, op.target)
           planned == [op EXCEPT !.next = next, !.write = next # process.selection]
           same == process.selection.active = op.target
       IN  /\ records' = [records EXCEPT ![process.active].intent =
                              [target |-> op.target, requested |-> next.generation]]
           /\ op' = IF op.key = "rollback" THEN [planned EXCEPT !.pc = "commit"]
                    ELSE IF ~same THEN [planned EXCEPT !.pc = "install",
                                            !.then = IF process.selected = None THEN "probe" ELSE "done"]
                    ELSE IF Inspectable(op.target) THEN [planned EXCEPT !.pc = "commit"]
                    ELSE [op EXCEPT !.pc = "failed", !.failed = TRUE]
    /\ UNCHANGED <<disk, process, bundled, history, faults>>

\* install: a version that an interrupted setup published is sealed and used.
Install ==
    /\ op.pc = "install"
    /\ IF disk.versions[op.target] = "absent"
         THEN disk' = [disk EXCEPT !.stage = "partial"] /\ Goes("copy") /\ UNCHANGED process
         ELSE IF disk.versions[op.target] = "open" /\ op.target \in Names(process.selection)
           THEN Fails(process.lifecycle) /\ disk' = [disk EXCEPT !.stage = "none"]
           ELSE /\ disk' = [disk EXCEPT !.stage = "none", !.versions[op.target] = "sealed"]
                /\ Goes("commit") /\ UNCHANGED process
    /\ UNCHANGED <<records, bundled, history, faults>>

Copy ==
    /\ op.pc = "copy"
    /\ disk' = [disk EXCEPT !.stage = "verified"] /\ Goes("publish")
    /\ UNCHANGED <<process, records, bundled, history, faults>>

Publish ==
    /\ op.pc = "publish"
    /\ disk' = [disk EXCEPT !.stage = "none", !.versions[op.target] = "open"] /\ Goes("seal")
    /\ UNCHANGED <<process, records, bundled, history, faults>>

\* Mutant: the version is selected before its directory is synchronized.
MutantSeal ==
    /\ op.pc = "seal"
    /\ disk' = [disk EXCEPT !.versions[op.target] = "sealed"] /\ Goes("commit")
    /\ UNCHANGED <<process, records, bundled, history, faults>>

\* sealVersion
Seal ==
    /\ op.pc = "seal"
    /\ disk' = [disk EXCEPT !.versions[op.target] = "sealed"] /\ Goes("syncVersion")
    /\ UNCHANGED <<process, records, bundled, history, faults>>

SyncVersion ==
    /\ op.pc = "syncVersion"
    /\ disk' = [disk EXCEPT !.kept = @ \union {op.target}] /\ Goes("commit")
    /\ UNCHANGED <<process, records, bundled, history, faults>>

\* Where an operation goes once its selection is committed.
Committed ==
    /\ op' = [op EXCEPT !.pc = IF op.then = "probe" THEN "probe" ELSE "done"]
    /\ process' = IF op.then = "select" \/ (op.key = "setup" /\ op.next.active = op.target /\ process.selected = None)
                    THEN [process EXCEPT !.selected = op.target] ELSE process

\* commit: the new selection goes to a temporary file, which is renamed and then synchronized.
Commit ==
    /\ op.pc = "commit"
    /\ IF op.write THEN disk' = [disk EXCEPT !.tmp = TRUE] /\ Goes("rename") /\ UNCHANGED process
       ELSE Committed /\ UNCHANGED disk
    /\ UNCHANGED <<records, bundled, history, faults>>

Rename ==
    /\ op.pc = "rename"
    /\ disk' = [disk EXCEPT !.selection = op.next, !.tmp = FALSE]
    /\ process' = [process EXCEPT !.selection = op.next]
    /\ selections' = selections \union {<<op.next.generation, op.next.active>>}
    /\ Goes("syncSelection")
    /\ UNCHANGED <<records, bundled, interrupted, faults>>

SyncSelection ==
    /\ op.pc = "syncSelection"
    /\ disk' = [disk EXCEPT !.synced = disk.selection]
    /\ Committed
    /\ UNCHANGED <<records, bundled, history, faults>>

\* activate: the candidate is probed in a directory of its own.
Probe ==
    /\ op.pc = "probe"
    /\ IF Inspectable(op.target)
         THEN disk' = [disk EXCEPT !.probe = TRUE] /\ Goes("probing") /\ UNCHANGED process
         ELSE Fails(process.lifecycle) /\ UNCHANGED disk
    /\ UNCHANGED <<records, bundled, history, faults>>

\* A probe that succeeds leads to the activation, one that reports a failure does not; one that breaks
\* leaves its directory to the next recovery.
Probing ==
    /\ op.pc = "probing"
    /\ \/ /\ disk' = [disk EXCEPT !.probe = FALSE]
          /\ IF MayActivate(process.selection, op.target)
               THEN /\ op' = [op EXCEPT !.pc = "commit", !.then = "select", !.write = TRUE,
                                        !.next = ActivateSelection(process.selection, op.target)]
                    /\ UNCHANGED process
               ELSE Fails(process.lifecycle)
          /\ NoFault
       \/ /\ disk' = [disk EXCEPT !.probe = FALSE]
          /\ Fails(process.lifecycle) /\ NoFault
       \/ Fails("recovering") /\ Fault /\ UNCHANGED disk
    /\ UNCHANGED <<records, bundled, selections, interrupted>>

\* The active release is used, after a failed activation too.
Pin ==
    /\ op.pc = "pin"
    /\ IF Inspectable(process.selection.active)
         THEN /\ process' = [process EXCEPT !.selected = process.selection.active]
              /\ op' = [op EXCEPT !.pc = "done", !.failed = op.fallback]
         ELSE op' = [op EXCEPT !.pc = "failed", !.failed = TRUE] /\ UNCHANGED process
    /\ UNCHANGED <<disk, records, bundled, history, faults>>

Interrupted == IF op.pc \in {"seal", "syncVersion"} THEN interrupted \union {op.target} ELSE interrupted

\* A call on the file system or, in Plan, on the record store fails.
Breaks ==
    /\ op.pc \in {"recover", "read", "plan", "install", "copy", "publish", "seal", "syncVersion", "commit",
                  "rename", "syncSelection", "probe", "pin"}
    /\ \/ Fails(process.lifecycle)
       \/ op.pc = "read" /\ FailsKnowing(process.lifecycle, FALSE)
    /\ interrupted' = Interrupted
    /\ Fault
    /\ UNCHANGED <<disk, records, bundled, selections>>

Operate == \/ Recover \/ Read \/ Plan \/ Install \/ Copy \/ Publish \/ Seal \/ SyncVersion
            \/ Commit \/ Rename \/ SyncSelection \/ Probe \/ Probing \/ Pin

-----------------------------------------------------------------------------
(* The service *)

\* start, with the release the installed app carries.
Boot ==
    /\ ~process.up
    /\ process' = [Down EXCEPT !.up = TRUE]
    /\ op' = [NoOperation EXCEPT !.key = "startup", !.pc = "recover"]
    /\ bundled' \in Releases
    /\ UNCHANGED <<disk, records, history, faults>>

\* pin
Pinned(failed) ==
    IF process.state \in {"ready", "stopping"} THEN process
    ELSE IF process.selected # None
      THEN [process EXCEPT !.state = "ready", !.pinned = process.selected]
      ELSE [process EXCEPT !.state = IF failed THEN "failed" ELSE "needs_setup"]

\* Mutant: a record without an intent is left as it is.
MutantReconcileOthers ==
    records' = [i \in Ids |-> IF i = process.active \/ records[i].intent = NoIntent THEN records[i]
                              ELSE Reconciled(records[i], process.selection)]

\* reconcile: every record but the active change's, if the selection could be read.
ReconcileOthers ==
    records' = IF process.known
                 THEN [i \in Ids |-> IF i = process.active THEN records[i]
                                     ELSE Reconciled(records[i], process.selection)]
                 ELSE records

\* The end of start; a failing record store leaves the release unpinned.
StartupEnds ==
    /\ op.key = "startup" /\ op.pc \in {"done", "failed"}
    /\ \/ ReconcileOthers /\ process' = Pinned(op.failed) /\ NoFault
       \/ /\ Fault /\ UNCHANGED records
          /\ process' = [process EXCEPT !.state = IF @ = "stopping" THEN @ ELSE "failed"]
    /\ op' = NoOperation
    /\ UNCHANGED <<disk, bundled, history>>

\* createChange for a new id; one change is carried out at a time.  If the answer of the record store is
\* lost, nothing carries out the record that it wrote.
CreateChange(i, action) ==
    /\ process.up /\ process.state # "stopping"
    /\ process.active = 0 /\ records[i] = NoRecord
    /\ records' = [records EXCEPT ![i] = [NoRecord EXCEPT !.action = action, !.status = "queued"]]
    /\ \/ process' = [process EXCEPT !.active = i] /\ NoFault
       \/ Fault /\ UNCHANGED process
    /\ UNCHANGED <<disk, op, bundled, history>>

\* retrieveChange, or createChange for an id that exists.
Retrieve(i) ==
    /\ process.up /\ records[i] # NoRecord
    /\ i # process.active /\ process.state \notin {"checking", "stopping"} /\ process.known
    /\ records' = [records EXCEPT ![i] = Reconciled(@, process.selection)]
    /\ UNCHANGED <<disk, process, op, bundled, history, faults>>

\* runChange, once startup has settled; a lost progress note is ignored.
BeginChange ==
    /\ process.active # 0 /\ op.key = "none"
    /\ op' = [NoOperation EXCEPT !.key = records[process.active].action,
                                 !.pc = IF process.lifecycle = "recovering" THEN "recover" ELSE "read"]
    /\ \/ records' = [records EXCEPT ![process.active].status = "working"] /\ NoFault
       \/ Fault /\ UNCHANGED records
    /\ UNCHANGED <<disk, process, bundled, history>>

\* The operation is over: a service without a release takes the one that was selected.
ChangeEnds ==
    /\ op.key \in Actions /\ op.pc \in {"done", "failed"}
    /\ \/ /\ NoFault /\ Goes("record")
          /\ IF process.state = "ready" THEN UNCHANGED <<process, records>>
             ELSE ReconcileOthers /\ process' = Pinned(op.failed)
       \/ Goes("catch") /\ Fault /\ UNCHANGED <<process, records>>
    /\ UNCHANGED <<disk, bundled, history>>

\* The last update of a change's record; its answer may be lost.
RecordOutcome ==
    /\ op.pc = "record"
    /\ LET i == process.active
           written == [records EXCEPT ![i] = IF op.failed THEN [@ EXCEPT !.status = "failed"]
                                             ELSE Reconciled(@, process.selection)]
       IN  \/ /\ records' = written /\ NoFault
              /\ op' = NoOperation /\ process' = [process EXCEPT !.active = 0]
           \/ /\ records' \in {records, written} /\ Fault
              /\ Goes("catch") /\ UNCHANGED process
    /\ UNCHANGED <<disk, bundled, history>>

\* The error handler of runChange.
Catch ==
    /\ op.pc = "catch"
    /\ LET i == process.active
           reconciled == IF process.known THEN Reconciled(records[i], process.selection) ELSE records[i]
       IN  \/ /\ NoFault
              /\ records' = [records EXCEPT ![i] =
                                IF reconciled.status \in {"complete", "awaiting_restart"} THEN reconciled
                                ELSE [@ EXCEPT !.status = "failed"]]
           \/ Fault /\ UNCHANGED records
    /\ process' = [process EXCEPT !.active = 0,
                                  !.state = IF @ \in {"ready", "stopping"} THEN @ ELSE "failed"]
    /\ op' = NoOperation
    /\ UNCHANGED <<disk, bundled, history>>

\* stop waits for what was accepted.
Stop ==
    /\ process.up /\ process.state # "stopping"
    /\ process' = [process EXCEPT !.state = "stopping"]
    /\ UNCHANGED <<disk, op, records, bundled, history, faults>>

Exit ==
    /\ process.up /\ process.state = "stopping" /\ op.key = "none" /\ process.active = 0
    /\ process' = Down
    /\ UNCHANGED <<disk, op, records, bundled, history, faults>>

\* The process is killed.
Kill ==
    /\ process.up /\ Fault
    /\ process' = Down /\ op' = NoOperation
    /\ interrupted' = Interrupted
    /\ UNCHANGED <<disk, records, bundled, selections>>

\* The machine loses power, and any of what was not synchronized.
PowerLoss ==
    /\ process.up /\ Fault
    /\ process' = Down /\ op' = NoOperation
    /\ \E left \in SUBSET Releases, selection \in {disk.selection, disk.synced} :
         /\ disk.kept \subseteq left
         /\ disk' = [disk EXCEPT !.selection = selection, !.synced = selection,
                                 !.versions = [r \in Releases |-> IF r \in left THEN @[r] ELSE "absent"],
                                 !.kept = {r \in left : disk.versions[r] # "absent"}]
    /\ interrupted' = Interrupted
    /\ UNCHANGED <<records, bundled, selections>>

-----------------------------------------------------------------------------

Next ==
    \/ Operate \/ Breaks
    \/ Boot \/ StartupEnds \/ BeginChange \/ ChangeEnds \/ RecordOutcome \/ Catch
    \/ \E i \in Ids : Retrieve(i) \/ \E action \in Actions : CreateChange(i, action)
    \/ Stop \/ Exit \/ Kill \/ PowerLoss

Spec == Init /\ [][Next]_vars

\* The service is started again, its work goes on, and clients ask for the changes they requested.
Works == Operate \/ StartupEnds \/ ChangeEnds \/ RecordOutcome \/ Catch
Fairness ==
    /\ WF_vars(Works)
    /\ WF_vars(Boot) /\ WF_vars(BeginChange) /\ WF_vars(Exit)
    /\ \A i \in Ids : WF_vars(Retrieve(i))

FairSpec == Spec /\ Fairness

-----------------------------------------------------------------------------
(* Properties *)

\* The selection on disk can always be decoded, so that no sequence of setups, rollbacks, activations and
\* crashes bricks the profile (domain/native-release.ts decodeNativeSelection).
SelectionsCoherent == Coherent(disk.selection) /\ Coherent(disk.synced)

\* What the selection names after a power loss is installed and sealed: a version is synchronized before it
\* is selected.  Excepted are versions whose publication was interrupted earlier: install does not
\* synchronize those again.
SelectedSurvives ==
    Names(disk.synced) \ interrupted \subseteq {r \in disk.kept : disk.versions[r] = "sealed"}

\* An update that cannot be activated does not take the service down: at the end of a startup the
\* active release is in use, unless it is damaged or a call failed.
BadUpdateKeepsActive ==
    (op.key = "startup" /\ op.pc \in {"done", "failed"} /\ faults = 0) =>
        (process.selection.active # None => process.selected = process.selection.active)

\* A change that is reported complete took effect: its target was active at the generation it asked
\* for or at the one that activated it.
CompleteIsTrue ==
    \A i \in Ids : records[i].status = "complete" =>
        \E g \in {records[i].intent.requested, records[i].intent.requested + 1} :
            <<g, records[i].intent.target>> \in selections

\* Every accepted change is carried out, fails or waits for the restart, whatever crashes.
ChangesSettle ==
    \A i \in Ids : records[i].status \in {"queued", "working"} ~>
                       records[i].status \in Final \union {"awaiting_restart"}
=============================================================================
