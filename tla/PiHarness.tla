------------------------------ MODULE PiHarness ------------------------------
(* Pi: an agent whose native history is a chain of commits in the Session's *)
(* runtime record (core/session-native-store.ts, session-runtime-store.ts). *)
(* A harness claims the record with a new Run and epoch, loads the chain    *)
(* into memory (runner/pi/storage.ts) and advances it, each commit naming   *)
(* its parent, while an engine runs Turns from the image it has loaded      *)
(* (runner/pi/engine.ts). A commit whose answer is lost poisons the image;  *)
(* a harness can crash; its successor goes on from what was committed. What *)
(* tools do outside (the effects) is not part of a commit. On AWS a harness *)
(* is replaced when its worker is known to have stopped, a bounded number   *)
(* of times; locally (runner/local-pi-execution.ts) the host claims first   *)
(* and stops the worker of its predecessor when it opens the effects.       *)
EXTENDS Naturals, FiniteSets

CONSTANTS Harnesses,    \* the claims that can be made, 1 .. n
          LastTurn,     \* Turns are 1 .. LastTurn
          LastSeq,      \* bound on the commits of a history
          Profiles,     \* what Turns use, sets of "effect", "function", "steer", "child"
          Replacements, \* how often a lost worker is replaced (3 in the code)
          MaxFaults     \* bound on lost answers and crashes

Assumptions ==
    /\ IsFiniteSet(Harnesses) /\ Harnesses = 1 .. Cardinality(Harnesses)
    /\ {LastTurn, LastSeq, Replacements, MaxFaults} \subseteq Nat
    /\ Profiles \subseteq SUBSET {"effect", "function", "steer", "child"}

VARIABLES uses,     \* the profile of this Session
          hosted,   \* the worker runs on AWS; otherwise this host is local
          disk,     \* the Session's runtime record
          harness,  \* the harnesses and the image each has in memory
          ran,      \* how often the effect of each Turn's tool was started
          granted,  \* the identifiers each harness has reserved
          faults

vars == <<uses, hosted, disk, harness, ran, granted, faults>>

Turns == 1 .. LastTurn
Terminal == {"done", "cancelled", "failed"}
NoHead == [seq |-> 0, by |-> 0]

\* The documents of the native image: links, commands, functions, tasks.
NewDocs ==
    [turn |-> [t \in Turns |-> "absent"], cancel |-> [t \in Turns |-> "none"],
     steer |-> [t \in Turns |-> "none"], tool |-> [t \in Turns |-> "none"],
     call |-> [t \in Turns |-> "none"], marked |-> {}, child |-> "none"]
Running(d) == {t \in Turns : d.turn[t] \in {"live", "aborting"}}
\* piImageHasLiveTasks
HasLiveTasks(d) == Running(d) # {} \/ d.child = "closing"
\* projectPi: what a reader of the Session is shown of the documents.
View(d) == [turn |-> [t \in Turns |->
                IF t \in d.marked /\ d.turn[t] \in Terminal THEN "failed" ELSE d.turn[t]],
            actions |-> {t \in Running(d) : d.call[t] = "waiting"}]

Unused == [state |-> "unused", mode |-> "execute", epoch |-> 0, head |-> NoHead, docs |-> NewDocs,
           minted |-> FALSE, poisoned |-> FALSE, ready |-> FALSE, behind |-> FALSE,
           task |-> 0, effect |-> "none", cancelling |-> 0]

TurnStates == {"absent", "live", "aborting"} \cup Terminal
Docs ==
    [turn : [Turns -> TurnStates],
     cancel : [Turns -> {"none", "accepted", "settled", "stale"}],
     steer : [Turns -> {"none", "queued", "taken", "dropped", "stale"}],
     tool : [Turns -> {"none", "begun", "done"}],
     call : [Turns -> {"none", "waiting", "answered"}],
     marked : SUBSET Turns,
     child : {"none", "open", "closing", "closed"}]
Heads == [seq : 0 .. LastSeq, by : Harnesses \cup {0}]
Views == [turn : [Turns -> TurnStates], actions : SUBSET Turns]
RecordState ==
    [run : Harnesses \cup {0}, epoch : Nat, closed : BOOLEAN, head : Heads, docs : Docs, high : Nat,
     projected : 0 .. LastSeq, snapshot : Views, failures : Nat, exhausted : BOOLEAN,
     refused : SUBSET Turns]
HarnessState ==
    [state : {"unused", "claimed", "open", "dead"}, mode : {"execute", "cancel"}, epoch : Nat,
     head : Heads, docs : Docs, minted : BOOLEAN, poisoned : BOOLEAN, ready : BOOLEAN,
     behind : BOOLEAN, task : Turns \cup {0}, effect : {"none", "admitted", "running", "ended"},
     cancelling : Turns \cup {0}]

\* Types of the record and of the harnesses.
TypeOK ==
    /\ uses \in Profiles /\ hosted \in BOOLEAN
    /\ disk \in RecordState /\ harness \in [Harnesses -> HarnessState]
    /\ ran \in [Turns -> Nat] /\ granted \in [Harnesses -> SUBSET Nat] /\ faults \in 0 .. MaxFaults

Init ==
    /\ uses \in Profiles /\ hosted \in BOOLEAN
    /\ disk = [run |-> 0, epoch |-> 0, closed |-> FALSE, head |-> NoHead, docs |-> NewDocs,
               high |-> 1, projected |-> 0, snapshot |-> View(NewDocs),
               failures |-> 0, exhausted |-> FALSE, refused |-> {}]
    /\ harness = [h \in Harnesses |-> Unused]
    /\ ran = [t \in Turns |-> 0]
    /\ granted = [h \in Harnesses |-> {}]
    /\ faults = 0

Fault == faults < MaxFaults /\ faults' = faults + 1
Quiet(h) == harness[h].effect \in {"none", "ended"}

-----------------------------------------------------------------------------
(* The record. *)

\* nativeLease, active: the claim this harness made is the one in the record.
Active(h) == ~disk.closed /\ disk.run = h /\ disk.epoch = harness[h].epoch
\* planNativeCommit: the head must be the parent the commit names.
Accepts(h) == Active(h) /\ disk.head = harness[h].head

Usable(h) == harness[h].state = "open" /\ ~harness[h].poisoned
Image(h) == harness[h].docs
Poisoned(h) == harness' = [harness EXCEPT ![h].poisoned = TRUE]

\* commit and its place in openPiStorage: the image changes once the write is
\* acknowledged; any error poisons it for ever. A lost answer is asked again
\* and recognised, unless the attempts end or the lease is lost meanwhile.
\* after: what else the harness keeps of an acknowledged commit.
Commit(h, new, after) ==
    LET head == [seq |-> harness[h].head.seq + 1, by |-> h]
        written == [disk EXCEPT !.head = head, !.docs = new]
        acknowledged == [after EXCEPT !.head = head, !.docs = new, !.behind = TRUE]
    IN  /\ Usable(h) /\ head.seq <= LastSeq
        /\ \/ /\ Accepts(h)
              /\ disk' = written /\ harness' = [harness EXCEPT ![h] = acknowledged]
              /\ UNCHANGED faults
           \/ Accepts(h) /\ Fault /\ disk' = written /\ Poisoned(h)
           \/ (IF Accepts(h) THEN Fault ELSE UNCHANGED faults) /\ UNCHANGED disk /\ Poisoned(h)
        /\ UNCHANGED <<uses, hosted, ran, granted>>
Engine(h, new) == Commit(h, new, harness[h])

\* reserveIds, before the first mintId. The identity of the request makes a
\* repetition return the same block (of 256 identifiers; one here).
Reserve(h) ==
    /\ Usable(h) /\ ~harness[h].minted
    /\ IF Active(h)
       THEN /\ disk' = [disk EXCEPT !.high = @ + 1]
            /\ granted' = [granted EXCEPT ![h] = @ \cup {disk.high + 1}]
            /\ \/ harness' = [harness EXCEPT ![h].minted = TRUE] /\ UNCHANGED faults
               \/ Fault /\ Poisoned(h)
       ELSE Poisoned(h) /\ UNCHANGED <<disk, granted, faults>>
    /\ UNCHANGED <<uses, hosted, ran>>

\* publishNative: it counts only when the commit it shows is still the head
\* and nothing as new was published.
PublishNative(h) ==
    IF /\ ~disk.closed /\ disk.run = h /\ disk.head.seq = harness[h].head.seq
       /\ disk.projected < harness[h].head.seq
    THEN [disk EXCEPT !.projected = disk.head.seq, !.snapshot = View(harness[h].docs)]
    ELSE disk
\* The engine publishes its newest commit.
Publish(h) ==
    /\ harness[h].state = "open" /\ harness[h].behind
    /\ harness' = [harness EXCEPT ![h].behind = FALSE]
    /\ disk' = PublishNative(h)
    /\ UNCHANGED <<uses, hosted, ran, granted, faults>>
\* piProjectionRepair: a control plane publishes what the engine did not.
Repair ==
    /\ hosted /\ ~disk.closed /\ disk.projected < disk.head.seq
    /\ disk' = [disk EXCEPT !.projected = disk.head.seq, !.snapshot = View(disk.docs)]
    /\ UNCHANGED <<uses, hosted, harness, ran, granted, faults>>

-----------------------------------------------------------------------------
(* Claims. *)

\* The worker of the present claim has stopped, or was never submitted.
Stopped ==
    \A h \in Harnesses : disk.run = h =>
        \/ harness[h].state = "claimed"
        \/ harness[h].state = "dead" /\ (hosted => harness[h].effect = "none")

\* A local cancellation without an engine stops the worker, and opens an
\* engine with no effects.
Modes == IF hosted THEN {"execute"}
         ELSE {"execute"} \cup {m \in {"cancel"} : \A g \in Harnesses : harness[g].effect = "none"}
\* claim: a new Run and epoch, in a record not closed.
ClaimRecord(h) ==
    [disk EXCEPT !.run = h, !.epoch = @ + 1,
                 !.failures = IF hosted /\ HasLiveTasks(disk.docs) THEN @ + 1 ELSE @]
\* A harness is claimed by start of RunSessionExecution and open of
\* LocalPiExecution; a worker lost with work left is replaced a few times.
Claim(h) ==
    /\ harness[h].state = "unused" /\ \A g \in 1 .. h - 1 : harness[g].state # "unused"
    /\ ~disk.closed /\ ~disk.exhausted /\ Stopped
    /\ hosted /\ HasLiveTasks(disk.docs) => disk.failures < Replacements
    /\ \E mode \in Modes :
         harness' = [harness EXCEPT ![h] = [Unused EXCEPT !.state = "claimed", !.mode = mode,
                                                          !.epoch = disk.epoch + 1]]
    /\ disk' = ClaimRecord(h)
    /\ UNCHANGED <<uses, hosted, ran, granted, faults>>

\* Mutant: the engine opens while the worker before may still be at work.
MutantOpen(h) ==
    /\ harness[h].state = "claimed"
    /\ harness' = [harness EXCEPT
         ![h] = IF Active(h) THEN [@ EXCEPT !.state = "open", !.head = disk.head, !.docs = disk.docs,
                                            !.behind = disk.head.seq > 0]
                ELSE [@ EXCEPT !.state = "dead"]]
    /\ UNCHANGED <<uses, hosted, disk, ran, granted, faults>>
\* openPiStorage, openPiEngine, openPiEffects: the chain is loaded under the
\* lease, and the worker of the harness before is gone before effects open.
Open(h) ==
    /\ harness[h].state = "claimed"
    /\ \A g \in 1 .. h - 1 : harness[g].effect = "none"
    /\ harness' = [harness EXCEPT
         ![h] = IF Active(h) THEN [@ EXCEPT !.state = "open", !.head = disk.head, !.docs = disk.docs,
                                            !.behind = disk.head.seq > 0]
                ELSE [@ EXCEPT !.state = "dead"]]
    /\ UNCHANGED <<uses, hosted, disk, ran, granted, faults>>

\* start of LocalPiExecution, when the worker cannot be started for it: the
\* worker is closed, then the Turn is recorded as failed, outside the history.
Refuse(h, t) ==
    /\ ~hosted /\ harness[h].state = "claimed" /\ harness[h].mode = "execute"
    /\ disk.docs.turn[t] = "absent" /\ \A g \in Harnesses : harness[g].effect = "none"
    /\ harness' = [harness EXCEPT ![h].state = "dead"]
    /\ disk' = [disk EXCEPT !.refused = @ \cup {t}]
    /\ UNCHANGED <<uses, hosted, ran, granted, faults>>

\* What is left of a harness that is gone: perhaps an effect, for a while.
Gone(e) == [Unused EXCEPT !.state = "dead", !.epoch = e.epoch, !.task = e.task,
                          !.effect = IF e.effect = "ended" THEN "none" ELSE e.effect]
Crash(h) ==
    /\ harness[h].state \in {"claimed", "open"} /\ Fault
    /\ harness' = [harness EXCEPT ![h] = Gone(@)]
    /\ UNCHANGED <<uses, hosted, disk, ran, granted>>

\* The engine is finished or has failed: its effects are stopped, then it is
\* gone (the finally of executePiWorker, retire).
Close(h) ==
    /\ harness[h].state = "open" /\ Quiet(h) /\ harness[h].cancelling = 0
    /\ \/ harness[h].poisoned
       \/ harness[h].ready /\ ~HasLiveTasks(Image(h)) /\ ~harness[h].behind
    /\ harness' = [harness EXCEPT ![h] = [Gone(@) EXCEPT !.effect = "none", !.task = 0]]
    /\ UNCHANGED <<uses, hosted, disk, ran, granted, faults>>

\* close of the Session: no harness may claim the record afterwards.
CloseSession ==
    /\ ~disk.closed
    /\ disk' = [disk EXCEPT !.closed = TRUE, !.epoch = @ + 1]
    /\ UNCHANGED <<uses, hosted, harness, ran, granted, faults>>

\* abortPiRecovery, when replacements are used up: Turns that are not over are
\* marked failed in one commit and their work is aborted in those after it.
Exhausted ==
    /\ hosted /\ ~disk.closed /\ ~disk.exhausted /\ Stopped
    /\ HasLiveTasks(disk.docs) /\ disk.failures >= Replacements /\ disk.head.seq < LastSeq
RepairCommit(new) ==
    /\ disk' = [disk EXCEPT !.head = [seq |-> @.seq + 1, by |-> 0], !.docs = new]
    /\ UNCHANGED <<uses, hosted, harness, ran, granted, faults>>
Mark ==
    /\ Exhausted /\ ~(Running(disk.docs) \subseteq disk.docs.marked)
    /\ RepairCommit([disk.docs EXCEPT !.marked = @ \cup Running(disk.docs),
                                      !.child = IF @ = "open" THEN "closing" ELSE @])
Abort ==
    /\ Exhausted /\ Running(disk.docs) \subseteq disk.docs.marked
    /\ RepairCommit([disk.docs EXCEPT
         !.turn = [t \in Turns |-> IF t \in Running(disk.docs) THEN "failed" ELSE @[t]],
         !.tool = [t \in Turns |-> IF @[t] = "begun" THEN "done" ELSE @[t]],
         !.child = IF @ = "closing" THEN "closed" ELSE @])
\* reconcile records that recovery has ended.
RecordExhausted ==
    /\ hosted /\ ~disk.closed /\ ~disk.exhausted /\ Stopped
    /\ disk.failures >= Replacements /\ disk.docs.marked # {} /\ ~HasLiveTasks(disk.docs)
    /\ disk' = [disk EXCEPT !.exhausted = TRUE]
    /\ UNCHANGED <<uses, hosted, harness, ran, granted, faults>>

-----------------------------------------------------------------------------
(* The commands of the engine. *)

\* start, admitPiInput: a Turn is admitted when no other runs or is queued.
StartTurn(h, t) ==
    /\ harness[h].mode = "execute" /\ Image(h).turn[t] = "absent"
    /\ t \notin disk.refused /\ Running(Image(h)) = {}
    /\ \A u \in 1 .. t - 1 : Image(h).turn[u] # "absent" \/ u \in disk.refused
    /\ Engine(h, [Image(h) EXCEPT !.turn[t] = "live"])

\* steer: input for the Turn that runs, or a receipt that it came too late.
Steer(h, t) ==
    /\ "steer" \in uses /\ harness[h].mode = "execute"
    /\ Image(h).turn[t] # "absent" /\ Image(h).steer[t] = "none"
    /\ Engine(h, [Image(h) EXCEPT !.steer[t] = IF t \in Running(Image(h)) THEN "queued" ELSE "stale"])

\* planPiCancel: queued input of the Turn is dropped; its run, if it has one,
\* is to be aborted; else the command is over.
Cancelled(d, t) ==
    [d EXCEPT !.steer[t] = IF @ = "queued" THEN "dropped" ELSE @,
              !.cancel[t] = IF t \in Running(d) THEN "accepted"
                            ELSE IF @ # "none" \/ d.steer[t] = "queued" THEN "settled" ELSE "stale"]
\* A round of cancelAccepted. A command found accepted is taken up again when
\* an engine opens, and when its run ended before it could be aborted.
Cancel(h, t) ==
    /\ Image(h).turn[t] # "absent" /\ Image(h).cancel[t] \in {"none", "accepted"}
    /\ harness[h].cancelling = 0 /\ Image(h).turn[t] # "aborting"
    /\ Commit(h, Cancelled(Image(h), t),
              [harness[h] EXCEPT !.cancelling = IF t \in Running(Image(h)) THEN t ELSE 0])
\* abortTask: the run is to end, once its tasks have.
AbortTask(h) ==
    LET t == harness[h].cancelling IN
    /\ t # 0 /\ Image(h).turn[t] = "live"
    /\ Commit(h, [Image(h) EXCEPT !.turn[t] = "aborting"], [harness[h] EXCEPT !.cancelling = 0])
RunEnded(h) ==
    /\ harness[h].cancelling # 0
    /\ harness[h].poisoned \/ Image(h).turn[harness[h].cancelling] # "live"
    /\ harness' = [harness EXCEPT ![h].cancelling = 0]
    /\ UNCHANGED <<uses, hosted, disk, ran, granted, faults>>

\* toolResult: the first result of a pending function call is kept.
ToolResult(h, t) ==
    /\ Image(h).call[t] = "waiting"
    /\ Engine(h, [Image(h) EXCEPT !.call[t] = "answered"])

\* resume: from here on tasks run, and the host admits effects (openEffects).
\* The engine of a local cancellation resumes only to end what it cancelled.
Resume(h) ==
    /\ Usable(h) /\ ~harness[h].ready
    /\ harness[h].mode = "cancel" => \A t \in Turns : Image(h).turn[t] # "live"
    /\ harness' = [harness EXCEPT ![h].ready = TRUE]
    /\ UNCHANGED <<uses, hosted, disk, ran, granted, faults>>

-----------------------------------------------------------------------------
(* What the engine's tasks do once it is resumed. *)

Runs(h, t) == harness[h].ready /\ Image(h).turn[t] = "live"
\* A generation takes the queued input.
TakeInput(h, t) ==
    Runs(h, t) /\ Image(h).steer[t] = "queued" /\ Engine(h, [Image(h) EXCEPT !.steer[t] = "taken"])
\* A generation calls a tool: the task is committed before it is executed,
\* and is executed by this engine only.
BeginTool(h, t) ==
    /\ "effect" \in uses /\ Runs(h, t) /\ Image(h).tool[t] = "none" /\ harness[h].minted
    /\ Commit(h, [Image(h) EXCEPT !.tool[t] = "begun"], [harness[h] EXCEPT !.task = t])
\* Another engine finds the task begun: it is reported as interrupted.
Interrupt(h, t) ==
    /\ harness[h].ready /\ Image(h).tool[t] = "begun" /\ harness[h].task # t
    /\ Engine(h, [Image(h) EXCEPT !.tool[t] = "done"])
\* functionTools: the call is pending until the application answers it.
CallFunction(h, t) ==
    /\ "function" \in uses /\ Runs(h, t) /\ Image(h).call[t] = "none"
    /\ Engine(h, [Image(h) EXCEPT !.call[t] = "waiting"])
\* spawn_agent, close_agent and the child's keeper.
Spawn(h, t) ==
    /\ "child" \in uses /\ Runs(h, t) /\ Image(h).child = "none"
    /\ Engine(h, [Image(h) EXCEPT !.child = "open"])
CloseChild(h, t) ==
    /\ Runs(h, t) /\ Image(h).child = "open"
    /\ Engine(h, [Image(h) EXCEPT !.child = "closing"])
Keeper(h) ==
    /\ harness[h].ready /\ Image(h).child = "closing"
    /\ Engine(h, [Image(h) EXCEPT !.child = "closed"])
\* The generation answers: the Turn is over, its queued input taken.
Finish(h, t) ==
    /\ Runs(h, t) /\ Image(h).tool[t] # "begun"
    /\ Image(h).call[t] # "waiting" /\ Image(h).steer[t] # "queued"
    /\ Engine(h, [Image(h) EXCEPT !.turn[t] = "done"])
\* The tasks of an aborted run have ended.
AbortEnds(h, t) ==
    /\ harness[h].ready /\ Image(h).turn[t] = "aborting"
    /\ harness[h].task = t => harness[h].effect = "none"
    /\ Engine(h, [Image(h) EXCEPT !.turn[t] = "cancelled", !.tool[t] = IF @ = "begun" THEN "done" ELSE @])

-----------------------------------------------------------------------------
(* Effects. *)

\* The host admits an effect: replay is over, it was not aborted, and its
\* lease is still active.
Admit(h) ==
    /\ Usable(h) /\ harness[h].task # 0 /\ harness[h].effect = "none" /\ harness[h].ready
    /\ Image(h).turn[harness[h].task] = "live" /\ Image(h).tool[harness[h].task] = "begun" /\ Active(h)
    /\ harness' = [harness EXCEPT ![h].effect = "admitted"]
    /\ UNCHANGED <<uses, hosted, disk, ran, granted, faults>>
\* The command starts, in a worker that may outlive the host a little.
RunEffect(h) ==
    /\ harness[h].effect = "admitted"
    /\ harness' = [harness EXCEPT ![h].effect = "running"]
    /\ ran' = [ran EXCEPT ![harness[h].task] = @ + 1]
    /\ UNCHANGED <<uses, hosted, disk, granted, faults>>
\* It ends by itself, is terminated when the run is aborted or the broker
\* closes, or dies with its worker.
EffectEnds(h) ==
    /\ harness[h].effect \in {"admitted", "running"}
    /\ harness' = [harness EXCEPT ![h].effect = IF harness[h].state = "dead" THEN "none" ELSE "ended"]
    /\ UNCHANGED <<uses, hosted, disk, ran, granted, faults>>
\* Its result, or the refusal to run it, is committed.
ToolEnds(h) ==
    LET t == harness[h].task IN
    /\ t # 0 /\ Image(h).tool[t] = "begun"
    /\ harness[h].effect = "ended" \/ (harness[h].effect = "none" /\ ~Active(h))
    /\ Commit(h, [Image(h) EXCEPT !.tool[t] = "done"], [harness[h] EXCEPT !.effect = "none", !.task = 0])

Next ==
    \/ CloseSession \/ Repair \/ Mark \/ Abort \/ RecordExhausted
    \/ \E h \in Harnesses :
         \/ Claim(h) \/ Open(h) \/ Crash(h) \/ Close(h) \/ Reserve(h) \/ Publish(h)
         \/ AbortTask(h) \/ RunEnded(h) \/ Resume(h) \/ Keeper(h)
         \/ Admit(h) \/ RunEffect(h) \/ EffectEnds(h) \/ ToolEnds(h)
         \/ \E t \in Turns :
              \/ StartTurn(h, t) \/ Steer(h, t) \/ Cancel(h, t) \/ ToolResult(h, t)
              \/ TakeInput(h, t) \/ BeginTool(h, t) \/ Interrupt(h, t) \/ CallFunction(h, t)
              \/ Refuse(h, t) \/ Spawn(h, t) \/ CloseChild(h, t) \/ Finish(h, t) \/ AbortEnds(h, t)

Spec == Init /\ [][Next]_vars

-----------------------------------------------------------------------------

\* An effect is started at most once, through crashes, lost answers and
\* replacements of the harness: what began is never begun again.
EffectsRunOnce == \A t \in Turns : ran[t] <= 1

\* When the record says that a Turn is over, nothing it started outside is
\* still at work, in this harness or in one before it.
OverIsQuiet ==
    \A t \in Turns, h \in Harnesses :
        disk.docs.turn[t] \in Terminal /\ harness[h].task = t => Quiet(h)

\* What the Session shows is the record's state whenever it says so.
ProjectionIsTrue == disk.projected = disk.head.seq => disk.snapshot = View(disk.docs)

\* No identifier is granted to two harnesses: call identifiers are made of them.
IdsAreFresh == \A g, h \in Harnesses : g # h => granted[g] \cap granted[h] = {}

\* What Pi's harnesses keep of a Session, whatever becomes of them.
PiIsKept == EffectsRunOnce /\ OverIsQuiet /\ ProjectionIsTrue /\ IdsAreFresh
=============================================================================
