--------------------------- MODULE SessionEvents ---------------------------
(***************************************************************************)
(* The public events of one Session: SessionEventStore turns every write   *)
(* of a source (the Session's record, the harness's projection) into one   *)
(* transaction with the next observation and its event batch, fenced by    *)
(* the observation's revision; SessionService.stream replays the batches   *)
(* to a reader; the watchdog cancels a loop at the observation it judged.  *)
(*                                                                         *)
(* A source keeps its revision and what an observation shows of it.  An    *)
(* observation is [turn, item, status]; one turn and one item stand for    *)
(* all.  What the two sources say of a turn is savedSessionObservation's.  *)
(***************************************************************************)
EXTENDS Integers, Sequences, SequencesExt

CONSTANTS
    Writers,      \* services that write the Session's record
    Harnesses,    \* processes that write the projection
    Profiles      \* bounds of a behaviour: observations committed; answers lost, writers that end
                  \* and batches that expire; whether there is a stream

Assumptions ==
    /\ Profiles \subseteq [last : Nat \ {0}, faults : Nat, streams : BOOLEAN]
    /\ Writers \cap Harnesses = {}

VARIABLES
    session, \* the record: revision 0 before it exists; deleted
    runtime, \* the projection the harness publishes
    obs,     \* session_observations: revision and snapshot
    log,     \* the snapshots committed so far, by revision
    batch,   \* session_event_batches: the events of each revision, {} when absent
    writer,  \* a write in progress
    reader,  \* a stream
    judged,  \* what the watchdog judged and what was true when its cancel took effect
    faults,
    profile  \* the bounds of this behaviour

vars == <<session, runtime, obs, log, batch, writer, reader, judged, faults, profile>>

LastRevision == profile.last

Turns == {"absent", "queued", "in_progress", "waiting", "completed", "cancelled"}
Items == {"none", "partial", "done"}
Statuses == {"idle", "in_progress", "requires_action"}
Snapshots == [turn : Turns, item : Items, status : Statuses]
terminalTurn(t) == t \in {"completed", "cancelled"}

\* savedSessionObservation: a turn the record has ended is over whatever the projection says, and
\* its items are the saved ones; observeSession: the status follows from the turn.
Observed(s, r) ==
    LET over == terminalTurn(s.turn)
        turn == IF ~over /\ s.turn # "absent" /\ r.turn # "absent" THEN r.turn ELSE s.turn
        item == IF s.saved # "unsaved" THEN s.saved ELSE IF s.turn = "absent" THEN "none" ELSE r.item
    IN  [turn |-> turn, item |-> item,
         status |-> CASE turn \in {"absent", "completed", "cancelled"} -> "idle"
                      [] turn = "waiting" -> "requires_action" [] OTHER -> "in_progress"]
Nothing == [turn |-> "absent", item |-> "none", status |-> "idle"]

\* planSessionStream: what changed, output before the turn's end and the Session's status last.
When(c, e) == IF c THEN <<e>> ELSE <<>>
planSessionStream(old, new, created) ==
    When(created, <<"created", new>>)
    \o When(old.turn = "absent" /\ new.turn # "absent", <<"turn.created", new.turn>>)
    \o When(new.turn \in {"in_progress", "waiting"} /\ old.turn \notin {"in_progress", "waiting"},
            <<"turn.in_progress", new.turn>>)
    \o When(old.item = "none" /\ new.item # "none", <<"item.added", new.item>>)
    \o When(old.item # "done" /\ new.item = "done", <<"item.done", new.item>>)
    \o When(terminalTurn(new.turn) /\ old.turn # new.turn, <<"turn.ended", new.turn>>)
    \o When(old.status # new.status, <<"status", new.status>>)

\* What a client makes of an event.
Replay(view, e) ==
    CASE e[1] = "created" -> [view EXCEPT !.status = e[2].status]
      [] e[1] \in {"turn.created", "turn.in_progress", "turn.ended"} -> [view EXCEPT !.turn = e[2]]
      [] e[1] \in {"item.added", "item.done"} -> [view EXCEPT !.item = e[2]]
      [] OTHER -> [view EXCEPT !.status = e[2]]
\* A turn in progress that waits for an answer changes only the Session's status.
Seen(s) == [s EXCEPT !.turn = IF @ = "waiting" THEN "in_progress" ELSE @]

Sessions == [rev : 0..2 * LastRevision, turn : Turns \ {"in_progress", "waiting"},
             saved : Items \cup {"unsaved"}, cancel : BOOLEAN, deleted : BOOLEAN]
Runtimes == [rev : 0..2 * LastRevision, turn : Turns \ {"queued"}, item : Items]
Revisions == 0..LastRevision
Idle == [pc |-> "idle"]

TypeOK ==
    /\ session \in Sessions /\ runtime \in Runtimes
    /\ obs.rev \in Revisions /\ obs.snap \in Snapshots
    /\ log \in Seq(Snapshots) /\ DOMAIN batch = 1..LastRevision
    /\ DOMAIN writer = Writers \cup Harnesses
    /\ \A w \in DOMAIN writer : writer[w] # Idle =>
          /\ writer[w].pc \in {"begun", "fenced", "read"}
          /\ writer[w].put \in IF w \in Writers THEN Sessions ELSE Runtimes
    /\ reader.phase \in {"none", "live", "ended", "gone", "expired"}
    /\ reader.rev \in Revisions /\ reader.view \in Snapshots
    /\ profile \in Profiles /\ faults \in 0..profile.faults

Init ==
    /\ profile \in Profiles
    /\ session = [rev |-> 0, turn |-> "absent", saved |-> "unsaved", cancel |-> FALSE, deleted |-> FALSE]
    /\ runtime = [rev |-> 0, turn |-> "absent", item |-> "none"]
    /\ obs = [rev |-> 0, snap |-> Nothing]
    /\ log = <<>>
    /\ batch = [r \in 1..LastRevision |-> {}]
    /\ writer = [w \in Writers \cup Harnesses |-> Idle]
    /\ reader = [phase |-> "none", rev |-> 0, view |-> Nothing, created |-> FALSE]
    /\ judged = {}
    /\ faults = 0

Fault == faults < profile.faults /\ faults' = faults + 1
Exists == session.rev > 0 /\ ~session.deleted

(***************************************************************************)
(* What is written.  Each write was planned from the source it replaces,   *)
(* and from the projection as the service saw it then.                     *)
(***************************************************************************)
SessionWrites ==
    IF session.rev = 0 THEN {[session EXCEPT !.rev = 1, !.turn = t] : t \in {"absent", "queued"}}
    ELSE LET next == [session EXCEPT !.rev = @ + 1]
         IN  {next}                                          \* what no observation shows
             \cup {[next EXCEPT !.turn = "queued"] : x \in {y \in {1} : session.turn = "absent"}}
             \cup {[next EXCEPT !.turn = "cancelled"] :
                      x \in {y \in {1} : session.turn = "queued" /\ runtime.turn = "absent"}}
             \cup {[next EXCEPT !.turn = runtime.turn, !.saved = runtime.item] :
                      x \in {y \in {1} : session.turn = "queued" /\ terminalTurn(runtime.turn)}}
RuntimeWrites ==
    IF session.turn = "absent" \/ terminalTurn(runtime.turn) THEN {}
    ELSE {[rev |-> runtime.rev + 1, turn |-> t, item |-> i] :
             t \in {"in_progress", "waiting", "completed"},
             i \in CASE runtime.item = "none" -> Items [] runtime.item = "partial" -> {"partial", "done"}
                     [] OTHER -> {"done"}}

Plan(put, guard) == [pc |-> "begun", put |-> put, guard |-> guard, fence |-> [rev |-> 0, snap |-> Nothing],
                     snap |-> Nothing, seen |-> FALSE]

Write(w) ==
    /\ writer[w] = Idle /\ obs.rev < LastRevision
    /\ IF w \in Writers THEN ~session.deleted ELSE Exists
    /\ \E put \in IF w \in Writers THEN SessionWrites ELSE RuntimeWrites :
          writer' = [writer EXCEPT ![w] = Plan(put, 0)]
    /\ UNCHANGED <<session, runtime, obs, log, batch, reader, judged, faults>>

\* applyWatchdogAction: the loop it judged is the item it saw; the record was read before.
WatchdogCancels(w) ==
    /\ w \in Writers /\ writer[w] = Idle /\ Exists /\ obs.rev < LastRevision
    /\ session.turn = "queued" /\ ~session.cancel /\ obs.snap.item = "partial"
    /\ writer' = [writer EXCEPT ![w] = Plan([session EXCEPT !.rev = @ + 1, !.cancel = TRUE], obs.rev)]
    /\ UNCHANGED <<session, runtime, obs, log, batch, reader, judged, faults>>

(***************************************************************************)
(* commitObserved.                                                         *)
(***************************************************************************)
\* The fence is read before any source; a guarded write needs the observation it judged.
ReadFence(w) ==
    /\ writer[w].pc = "begun"
    /\ writer' = [writer EXCEPT ![w] = IF writer[w].guard \notin {0, obs.rev} THEN Idle
                                       ELSE [writer[w] EXCEPT !.pc = "fenced", !.fence = obs]]
    /\ UNCHANGED <<session, runtime, obs, log, batch, reader, judged, faults>>

\* The other source as it is stored, this one as it will be.  Without the Session's record the
\* write has no observation.
ReadSources(w) ==
    /\ writer[w].pc = "fenced"
    /\ writer' = [writer EXCEPT ![w].pc = "read",
                    ![w].seen = IF w \in Writers THEN TRUE ELSE Exists,
                    ![w].snap = IF w \in Writers THEN Observed(writer[w].put, runtime)
                                ELSE Observed(session, writer[w].put)]
    /\ UNCHANGED <<session, runtime, obs, log, batch, reader, judged, faults>>

Unchanged(w) == LET p == writer[w].put IN IF w \in Writers THEN ~session.deleted /\ session.rev = p.rev - 1
                                          ELSE runtime.rev = p.rev - 1
Fenced(w) == writer[w].seen => obs.rev = writer[w].fence.rev

\* One transaction: the write, the observation and its batch.  A conflict on the observation alone
\* is tried again from the fence; a changed source, or an answer that was lost, is not.
Effect(w) ==
    LET v == writer[w]  next == obs.rev + 1
    IN  /\ IF w \in Writers THEN session' = v.put /\ UNCHANGED runtime ELSE runtime' = v.put /\ UNCHANGED session
        /\ IF v.seen
           THEN /\ next <= LastRevision
                /\ obs' = [rev |-> next, snap |-> v.snap]
                /\ log' = Append(log, v.snap)
                /\ batch' = [batch EXCEPT ![next] = {planSessionStream(v.fence.snap, v.snap, v.fence.rev = 0)}]
           ELSE UNCHANGED <<obs, log, batch>>
        /\ judged' = IF v.guard = 0 THEN judged
                     ELSE judged \cup {<<log[v.guard].item, Observed(session, runtime).item>>}

Commit(w) ==
    /\ writer[w].pc = "read" /\ Unchanged(w) /\ Fenced(w)
    /\ Effect(w)
    /\ writer' = [writer EXCEPT ![w] = Idle]
    /\ UNCHANGED <<reader, faults>>

Conflict(w) ==
    /\ writer[w].pc = "read" /\ ~(Unchanged(w) /\ Fenced(w))
    /\ writer' = [writer EXCEPT ![w] = IF Unchanged(w) /\ writer[w].guard = 0
                                       THEN [writer[w] EXCEPT !.pc = "begun"] ELSE Idle]
    /\ UNCHANGED <<session, runtime, obs, log, batch, reader, judged, faults>>

\* A lost answer leaves the retry to find its own source changed.  A writer may also just end.
CommitLost(w) ==
    /\ writer[w].pc = "read" /\ Unchanged(w) /\ Fenced(w) /\ Fault
    /\ Effect(w)
    /\ UNCHANGED <<writer, reader>>
Crash(w) ==
    /\ writer[w] # Idle /\ Fault
    /\ writer' = [writer EXCEPT ![w] = Idle]
    /\ UNCHANGED <<session, runtime, obs, log, batch, reader, judged>>

\* SessionEventStore.delete: the Session goes with a new fence, which has no batch; reads and
\* transaction are one step, since a conflict repeats both.
Delete ==
    /\ Exists /\ obs.rev < LastRevision
    /\ session' = [session EXCEPT !.deleted = TRUE]
    /\ obs' = [obs EXCEPT !.rev = @ + 1]
    /\ log' = Append(log, obs.snap)
    /\ UNCHANGED <<runtime, batch, writer, reader, judged, faults>>

(***************************************************************************)
(* The stream.                                                             *)
(***************************************************************************)
\* A stream of a Session just created replays it from its first event, any other starts at the
\* observation it found.
Subscribe(created) ==
    /\ profile.streams /\ reader.phase = "none" /\ Exists
    /\ reader' = [phase |-> "live", rev |-> IF created THEN 0 ELSE obs.rev,
                  view |-> IF created THEN Nothing ELSE Seen(obs.snap), created |-> created]
    /\ UNCHANGED <<session, runtime, obs, log, batch, writer, judged, faults>>

Ends(events) == reader.created /\ \E i \in DOMAIN events : events[i][1] = "turn.ended"
\* committedStream: the next batch after the last one read, or the news that it is gone.
ReadBatch ==
    /\ reader.phase = "live"
    /\ IF ~Exists THEN reader' = [reader EXCEPT !.phase = "gone"]
       ELSE /\ reader.rev < obs.rev
            /\ IF batch[reader.rev + 1] = {} THEN reader' = [reader EXCEPT !.phase = "expired"]
               ELSE LET events == CHOOSE e \in batch[reader.rev + 1] : TRUE
                    IN  reader' = [reader EXCEPT !.rev = @ + 1, !.view = Seen(FoldLeft(Replay, reader.view, events)),
                                                 !.phase = IF Ends(events) THEN "ended" ELSE "live"]
    /\ UNCHANGED <<session, runtime, obs, log, batch, writer, judged, faults>>

\* Four days later the batches are gone, oldest first.
Expire ==
    /\ Fault
    /\ \E r \in 1..obs.rev : batch[r] # {} /\ (\A q \in 1..(r - 1) : batch[q] = {})
                             /\ batch' = [batch EXCEPT ![r] = {}]
    /\ UNCHANGED <<session, runtime, obs, log, writer, reader, judged>>

Next ==
    /\ \/ \E w \in Writers \cup Harnesses :
             Write(w) \/ WatchdogCancels(w) \/ ReadFence(w) \/ ReadSources(w)
             \/ Commit(w) \/ Conflict(w) \/ CommitLost(w) \/ Crash(w)
       \/ Delete \/ ReadBatch \/ Expire
       \/ \E created \in BOOLEAN : Subscribe(created)
    /\ UNCHANGED profile

Spec == Init /\ [][Next]_vars

\* The stored observation is the one the two sources give: no interleaving of their writers
\* commits a mixed one (commitObserved).
ObservationIsCurrent == Exists => obs.snap = Observed(session, runtime)

\* A reader that applies the events it was sent has exactly the observation of the revision it
\* has reached: none is missing, repeated or out of order (committedStream, planSessionStream).
StreamReplays == reader.rev > 0 => reader.view = Seen(log[reader.rev])

\* A loop is cancelled only while its items are the ones that were judged (commitAtObservation).
LoopIsCurrent == \A j \in judged : j[1] = j[2]

\* What a client is told of a Session is true (session-event-store.ts, session-stream.ts).
EventsAreTrue == ObservationIsCurrent /\ StreamReplays /\ LoopIsCurrent
============================================================================
