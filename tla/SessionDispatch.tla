-------------------------- MODULE SessionDispatch --------------------------
(***************************************************************************)
(* One Agents API Session from accepted input to a finished Turn.          *)
(*                                                                         *)
(* SessionService.events commits an input and its commands to the Session  *)
(* record.  Outbox jobs (SessionService.dispatch) carry the commands to    *)
(* RunSessionExecution, which submits a Run for a new harness or talks to  *)
(* the running one.  The harness publishes a snapshot of its Turns in the  *)
(* runtime record, which names the Run that may publish.  A client may     *)
(* delete the Session at any time.                                         *)
(*                                                                         *)
(* A step is one call on a store or a harness with the local computation   *)
(* up to the next call.  A read followed by the conditional write that     *)
(* depends on it is one step wherever the loser only throws: a job that    *)
(* throws starts over.  Messages have one event each.  A Turn's Run has    *)
(* the Turn's number; the Run of a hosted Session's bootstrap is 0.        *)
(***************************************************************************)
EXTENDS Integers, Sequences, FiniteSets

CONSTANTS
    Messages,      \* idempotency keys of message events
    Cancels,       \* idempotency keys of cancel events
    Jobs,          \* outbox jobs that dispatch the Session at the same time
    Deletable,     \* whether a client may delete the Session
    Hosted,        \* environment type "openai_hosted": a bootstrap Run is started first
    HostManaged,   \* harness lifetime "host-managed" (EC2) rather than "bounded"
    MaxFaults      \* bound on crashes, lost answers and refusals

Assumptions ==
    /\ IsFiniteSet(Messages) /\ Messages \intersect Cancels = {}
    /\ {Deletable, Hosted, HostManaged} \subseteq BOOLEAN
    /\ MaxFaults \in Nat

Keys == Messages \union Cancels
Turns == 1 .. Cardinality(Messages)
Bootstrap == 0
Runs == {Bootstrap} \union Turns
NoRun == -1

VARIABLES
    session,   \* the Session record
    runtime,   \* the runtime record
    run,       \* the Run records
    worker,    \* the harness process of each Run
    native,    \* the Turns as each harness knows them
    started,   \* the harnesses that natively started each Turn
    refused,   \* the Turns of which a start was refused
    client,    \* the API calls
    deleter,   \* the API call that deletes
    job,       \* the outbox jobs
    faults     \* crashes, lost answers and refusals so far

vars == <<session, runtime, run, worker, native, started, refused, client, deleter, job, faults>>
platform == <<run, worker, native, started, refused>>

-----------------------------------------------------------------------------
(* States *)

Finished == {"completed", "failed", "cancelled"}
TurnStatus == {"queued", "in_progress"} \union Finished
NativeStatus == {"none", "in_progress"} \union Finished
Ended == {"succeeded", "failed", "cancelled"}
Active == {"queued", "running", "cancelling"}
Live == {"launched", "admitted", "ready"}

Turn == [status : TurnStatus, cancelRequested : BOOLEAN]
Receipt == [key : Keys, type : {"start", "steer", "cancel", "none"}, turn : Runs,
            dispatched : BOOLEAN, failed : BOOLEAN]

SessionState == [phase : {"open", "closing", "deleted"}, revision : Nat,
                 turns : Seq(Turn), receipts : Seq(Receipt)]

RuntimeState == [revision : Nat, run : Runs \union {NoRun}, closed : BOOLEAN,
                 saved : [Runs -> NativeStatus]]

ClientState == [pc : {"idle", "planned", "done"}, revision : Nat, turns : Seq(TurnStatus)]

JobState == [pc : {"idle", "initialize", "start", "run", "deliver", "launch", "claim", "submit", "fail",
                   "steer", "steering", "cancel", "interrupt", "observe", "settle", "ack"},
             copy : [turns : Seq(Turn), receipts : Seq(Receipt)], \* resource
             runtime : RuntimeState,        \* what start read of the runtime record
             at : Nat,                      \* the receipt it works on
             turn : Runs, target : Runs,    \* the command's Turn, the Run it talks to
             then : {"ack", "observe", "idle"}, \* where cancel returns to
             outcome : TurnStatus,          \* what it observed
             failed : BOOLEAN]

EmptySession == [phase |-> "open", revision |-> 1, turns |-> <<>>, receipts |-> <<>>]
Copy(resource) == [turns |-> resource.turns, receipts |-> resource.receipts]
NoRuntime == [revision |-> 0, run |-> NoRun, closed |-> FALSE, saved |-> [t \in Runs |-> "none"]]
NoCall == [pc |-> "idle", revision |-> 0, turns |-> <<>>]
NoJob == [pc |-> "idle", copy |-> Copy(EmptySession), runtime |-> NoRuntime, at |-> 0, turn |-> Bootstrap,
          target |-> Bootstrap, then |-> "ack", outcome |-> "queued", failed |-> FALSE]

\* Types of everything the Session's actors read and write.
TypeOK ==
    /\ session \in SessionState
    /\ runtime \in RuntimeState
    /\ run \in [Runs -> {"none"} \union Active \union Ended]
    /\ worker \in [Runs -> {"off", "closed", "gone"} \union Live]
    /\ native \in [Runs -> [Runs -> NativeStatus]]
    /\ started \in [Runs -> SUBSET Runs]
    /\ refused \subseteq Runs
    /\ client \in [Keys -> ClientState]
    /\ deleter \in [pc : {"idle", "closing", "remove", "done"}, revision : Nat]
    /\ job \in [Jobs -> JobState]
    /\ faults \in 0 .. MaxFaults

Init ==
    /\ session = EmptySession
    /\ runtime = NoRuntime
    /\ run = [r \in Runs |-> "none"]
    /\ worker = [r \in Runs |-> "off"]
    /\ native = [r \in Runs |-> NoRuntime.saved]
    /\ started = [t \in Runs |-> {}]
    /\ refused = {}
    /\ client = [k \in Keys |-> NoCall]
    /\ deleter = [pc |-> "idle", revision |-> 0]
    /\ job = [j \in Jobs |-> NoJob]
    /\ faults = 0

Fault == faults < MaxFaults /\ faults' = faults + 1

-----------------------------------------------------------------------------
(* Reading a Turn *)

\* stoppedSessionRuntime: what a harness left unfinished has failed.
Stopped(turns) == [t \in Runs |-> IF turns[t] = "in_progress" THEN "failed" ELSE turns[t]]

\* run: the Run the runtime record names, or the one a Turn would be given.
RunFor(t) == IF runtime.run # NoRun THEN runtime.run ELSE t

\* Mutant: a Run's own name for success gets into the Turn.
MutantProjected(status) == IF status \in {"running", "cancelling"} THEN "in_progress" ELSE status

\* projectSessionTurn
Projected(status) ==
    CASE status = "queued" -> "queued"
      [] status \in {"running", "cancelling"} -> "in_progress"
      [] status = "succeeded" -> "completed"
      [] OTHER -> status

\* RunSessionExecution.observe
Observed(t, status) ==
    LET saved == runtime.saved[t]
        r == RunFor(t)
    IN  IF saved \in Finished THEN saved
        ELSE IF saved # "none" THEN IF run[r] \in Active THEN saved ELSE "failed"
        ELSE IF run[r] = "none" \/ r # t THEN status
        ELSE Projected(run[r])

\* Reading the Turn a harness was launched for asks the harness: while that fails the caller retries.
Observable(t) ==
    \/ runtime.saved[t] # "none"
    \/ RunFor(t) = t /\ run[t] = "running" => worker[t] \in Live

\* SessionService.observe asks only about Turns that are not stored as finished.
ObservedTurns ==
    [t \in DOMAIN session.turns |->
        IF session.turns[t].status \in Finished THEN session.turns[t].status
        ELSE Observed(t, session.turns[t].status)]

-----------------------------------------------------------------------------
(* Accepting input *)

Call(k, pc) == client' = [client EXCEPT ![k] = [NoCall EXCEPT !.pc = pc]]

\* The Session, its receipts and its Turns are read, and the Run and the runtime observed.
EventsRead(k) ==
    /\ client[k].pc = "idle"
    /\ \A t \in DOMAIN session.turns : session.turns[t].status \in Finished \/ Observable(t)
    /\ IF session.phase # "open" \/ \E i \in DOMAIN session.receipts : session.receipts[i].key = k
         THEN Call(k, "done")
         ELSE client' = [client EXCEPT ![k] = [pc |-> "planned", revision |-> session.revision,
                                               turns |-> ObservedTurns]]
    /\ UNCHANGED <<session, runtime, platform, deleter, job, faults>>

\* The Turn an event is for: the last that is neither finished nor to be cancelled; 0 if none.
ActiveTurn(turns) ==
    LET open == {t \in DOMAIN turns : turns[t].status \notin Finished /\ ~turns[t].cancelRequested}
    IN  IF open = {} THEN 0 ELSE CHOOSE t \in open : \A u \in open : u <= t

\* planSessionInput
Planned(k) ==
    LET turns == [t \in DOMAIN session.turns |->
                    [session.turns[t] EXCEPT !.status = client[k].turns[t]]]
        active == ActiveTurn(turns)
        fresh == active = 0 /\ k \in Messages
        type == IF k \in Cancels THEN IF active = 0 THEN "none" ELSE "cancel"
                ELSE IF fresh THEN "start" ELSE "steer"
    IN  [session EXCEPT
            !.revision = @ + 1,
            !.turns = IF fresh THEN Append(turns, [status |-> "queued", cancelRequested |-> FALSE])
                      ELSE [t \in DOMAIN turns |-> IF t = active /\ k \in Cancels
                                THEN [turns[t] EXCEPT !.cancelRequested = TRUE] ELSE turns[t]],
            !.receipts = Append(@, [key |-> k, type |-> type, dispatched |-> FALSE, failed |-> FALSE,
                                    turn |-> IF fresh THEN Len(turns) + 1 ELSE active])]

\* A lost race is planned again from a new read; a lost answer makes the client send the key again.
EventsCommit(k) ==
    /\ client[k].pc = "planned"
    /\ IF session.revision = client[k].revision /\ session.phase # "deleted"
         THEN /\ session' = Planned(k)
              /\ \/ Call(k, "done") /\ UNCHANGED faults
                 \/ Call(k, "idle") /\ Fault
         ELSE Call(k, "idle") /\ UNCHANGED <<session, faults>>
    /\ UNCHANGED <<runtime, platform, deleter, job>>

-----------------------------------------------------------------------------
(* Deleting the Session *)

\* RunService.cancel: a Run that was not dispatched ends at once.
CancelRun(r) ==
    IF run[r] = "queued" THEN run' \in {[run EXCEPT ![r] = "cancelled"], [run EXCEPT ![r] = "cancelling"]}
    ELSE run' = IF run[r] = "running" THEN [run EXCEPT ![r] = "cancelling"] ELSE run

\* The Session and its runtime are closed in one transaction; a repeated call goes on from there.
DeleteClose ==
    /\ Deletable /\ deleter.pc = "idle" /\ session.phase # "deleted"
    /\ session' = IF session.phase = "open"
                    THEN [session EXCEPT !.phase = "closing", !.revision = @ + 1] ELSE session
    /\ runtime' = IF runtime.closed THEN runtime
                  ELSE [runtime EXCEPT !.closed = TRUE, !.revision = @ + 1]
    /\ deleter' = [pc |-> "closing", revision |-> session'.revision]
    /\ UNCHANGED <<platform, client, job, faults>>

\* RunSessionExecution.close stops the Run that the closed runtime names.
DeleteStop ==
    /\ deleter.pc = "closing"
    /\ IF runtime.run # NoRun THEN CancelRun(runtime.run) ELSE UNCHANGED run
    /\ deleter' = [deleter EXCEPT !.pc = "remove"]
    /\ UNCHANGED <<session, runtime, worker, native, started, refused, client, job, faults>>

\* The record goes if it is still as closed; otherwise the caller is told and repeats the call.
DeleteRemove ==
    /\ deleter.pc = "remove"
    /\ IF session.revision = deleter.revision
         THEN session' = [session EXCEPT !.phase = "deleted"] /\ deleter' = [deleter EXCEPT !.pc = "done"]
         ELSE deleter' = [deleter EXCEPT !.pc = "idle"] /\ UNCHANGED session
    /\ UNCHANGED <<runtime, platform, client, job, faults>>

DeleteFails ==
    /\ deleter.pc \in {"closing", "remove"}
    /\ deleter' = [deleter EXCEPT !.pc = "idle"]
    /\ Fault
    /\ UNCHANGED <<session, runtime, platform, client, job>>

-----------------------------------------------------------------------------
(* Dispatching what was accepted *)

\* Any error that leaves dispatch: the queue delivers the job again.
Throws(j) == job' = [job EXCEPT ![j] = NoJob]

Goes(j, pc) == job' = [job EXCEPT ![j].pc = pc]

\* The effect of a call took place; its answer arrives or is lost.
Answered(j, pc) == \/ Goes(j, pc) /\ UNCHANGED faults
                   \/ Throws(j) /\ Fault

\* An error that is the client's is noted in the receipt.
Refused(j) == job' = [job EXCEPT ![j].pc = "ack", ![j].failed = TRUE]

\* The next receipt of the list read at the start, with the Turns last read.
NextCommand(copy, at) ==
    LET left == {i \in DOMAIN copy.receipts : i > at /\ ~copy.receipts[i].dispatched}
        i == CHOOSE n \in left : \A m \in left : n <= m
        receipt == copy.receipts[i]
        cancelled == receipt.type = "start" /\ copy.turns[receipt.turn].cancelRequested
        base == [NoJob EXCEPT !.copy = copy, !.at = i, !.turn = receipt.turn]
    IN  IF left = {} THEN NoJob
        ELSE CASE cancelled -> [base EXCEPT !.pc = "cancel", !.then = "observe"]
               [] receipt.type = "none" -> [base EXCEPT !.pc = "ack"]
               [] OTHER -> [base EXCEPT !.pc = receipt.type]

Advance(j, copy, at) == job' = [job EXCEPT ![j] = NextCommand(copy, at)]

\* dispatch: a Session that is gone or closing is left alone.
DispatchRead(j) ==
    /\ job[j].pc = "idle" /\ session.phase = "open"
    /\ \/ Hosted
       \/ \E i \in DOMAIN session.receipts : ~session.receipts[i].dispatched
    /\ IF Hosted THEN job' = [job EXCEPT ![j] = [NoJob EXCEPT !.pc = "initialize", !.copy = Copy(session)]]
       ELSE Advance(j, Copy(session), 0)
    /\ UNCHANGED <<session, runtime, platform, client, deleter, faults>>

\* initialize: the bootstrap Run is started unless the runtime is closed or names a Run that exists.
Initialize(j) ==
    /\ job[j].pc = "initialize"
    /\ IF runtime.closed \/ (runtime.run # NoRun /\ run[runtime.run] # "none")
         THEN Advance(j, job[j].copy, 0)
         ELSE Goes(j, "start")
    /\ UNCHANGED <<session, runtime, platform, client, deleter, faults>>

\* Where start returns to: the loop over the receipts, or initialize.
StartDone(j) == IF job[j].turn = Bootstrap THEN Advance(j, job[j].copy, 0) ELSE Goes(j, "ack")

\* Mutant: a saved Turn is started like a new one.
MutantStartRead(j) ==
    /\ job[j].pc = "start"
    /\ IF runtime.closed THEN StartDone(j)
       ELSE job' = [job EXCEPT ![j].pc = "run", ![j].runtime = runtime]
    /\ UNCHANGED <<session, runtime, platform, client, deleter, faults>>

\* start: a Turn that was saved is not replayed; a closed runtime takes no input.
StartRead(j) ==
    /\ job[j].pc = "start"
    /\ IF runtime.closed \/ runtime.saved[job[j].turn] # "none"
         THEN StartDone(j)
         ELSE job' = [job EXCEPT ![j].pc = "run", ![j].runtime = runtime]
    /\ UNCHANGED <<session, runtime, platform, client, deleter, faults>>

\* An active Run is used if it is this Turn's or runs; otherwise a Run of its own is launched.
StartRun(j) ==
    /\ job[j].pc = "run"
    /\ LET r == job[j].runtime.run
       IN  IF r # NoRun /\ run[r] \in Active
             THEN IF r = job[j].turn THEN StartDone(j)
                  ELSE IF run[r] # "running" THEN Throws(j)
                  ELSE job' = [job EXCEPT ![j].pc = "deliver", ![j].target = r]
             ELSE Goes(j, "launch")
    /\ UNCHANGED <<session, runtime, platform, client, deleter, faults>>

Busy(r) == \E t \in Runs : native[r][t] = "in_progress"

\* SessionRuntime.start: repeated calls share one attempt; a busy root refuses.
StartNative(r, t) ==
    IF r \in started[t] THEN UNCHANGED <<native, started>>
    ELSE /\ native' = [native EXCEPT ![r][t] = "in_progress"]
         /\ started' = [started EXCEPT ![t] = @ \union {r}]

\* A start is refused with an error that is the client's, which fails its Turn; initialize only throws.
\* What it depends on may change: a start that was refused may be refused again, or accepted.
RefuseStart(j) ==
    /\ refused' = refused \union {job[j].turn}
    /\ IF job[j].turn = Bootstrap THEN Throws(j) ELSE Goes(j, "fail")
    /\ Fault \/ (job[j].turn \in refused /\ UNCHANGED faults)

\* startSessionTurn on a harness that says it is ready.  Before that, checkInputConnection refuses a
\* Turn that was not saved if its self-hosted environment did not connect in time.
Deliver(j) ==
    /\ job[j].pc = "deliver"
    /\ LET r == job[j].target
           t == job[j].turn
       IN  \/ /\ IF worker[r] # "ready" \/ (r \notin started[t] /\ Busy(r))
                   THEN Throws(j) /\ UNCHANGED <<native, started, faults>>
                   ELSE /\ StartNative(r, t)
                        /\ \/ StartDone(j) /\ UNCHANGED faults
                           \/ Throws(j) /\ Fault
              /\ UNCHANGED refused
           \/ ~Hosted /\ runtime.saved[t] = "none" /\ RefuseStart(j) /\ UNCHANGED <<native, started>>
    /\ UNCHANGED <<session, runtime, run, worker, client, deleter>>

\* A launch is refused when its environment did not connect in time (launchReference) or does not
\* allow its tools, but not once its Run exists.
CheckLaunch(j) ==
    /\ job[j].pc = "launch"
    /\ LET t == job[j].turn
       IN  \/ Goes(j, IF job[j].runtime.run = t THEN "submit" ELSE "claim") /\ UNCHANGED <<refused, faults>>
           \/ run[t] = "none" /\ RefuseStart(j)
    /\ UNCHANGED <<session, runtime, run, worker, native, started, client, deleter>>

\* SessionRuntimeStore.claim, conditional on the revision start read.
ClaimOk(j) == runtime.revision = job[j].runtime.revision

Claim(j) ==
    /\ job[j].pc = "claim"
    /\ IF ClaimOk(j)
         THEN /\ runtime' = [job[j].runtime EXCEPT !.revision = @ + 1, !.run = job[j].turn, !.closed = FALSE]
              /\ Answered(j, "submit")
         ELSE Throws(j) /\ UNCHANGED <<runtime, faults>>
    /\ UNCHANGED <<session, platform, client, deleter>>

\* RunService.submit is idempotent.  A new request may be invalid; before it, attachManaged refuses a
\* managed environment that failed or expired.  The claim stands.
Submit(j) ==
    /\ job[j].pc = "submit"
    /\ \/ /\ run' = [run EXCEPT ![job[j].turn] = IF @ = "none" THEN "queued" ELSE @]
          /\ \/ StartDone(j) /\ UNCHANGED faults
             \/ Throws(j) /\ Fault
          /\ UNCHANGED refused
       \/ (Hosted \/ run[job[j].turn] = "none") /\ RefuseStart(j) /\ UNCHANGED run
    /\ UNCHANGED <<session, runtime, worker, native, started, client, deleter>>

\* A refused start fails its Turn, whatever has become of it.
FailTurn(j) ==
    /\ job[j].pc = "fail"
    /\ IF session.phase = "deleted" THEN Throws(j) /\ UNCHANGED session
       ELSE /\ session' = [session EXCEPT !.revision = @ + 1, !.turns[job[j].turn].status = "failed"]
            /\ job' = [job EXCEPT ![j].pc = "ack", ![j].failed = TRUE, ![j].copy.turns = session'.turns]
    /\ UNCHANGED <<runtime, platform, client, deleter, faults>>

-----------------------------------------------------------------------------
(* Steering and cancelling *)

\* steer: there is a Run to steer, it has not ended, it runs.
Steer(j) ==
    /\ job[j].pc = "steer"
    /\ LET r == RunFor(job[j].turn)
       IN  IF run[r] = "none" \/ run[r] \in Ended THEN Refused(j)
           ELSE IF run[r] # "running" THEN Throws(j)
           ELSE job' = [job EXCEPT ![j].pc = "steering", ![j].target = r]
    /\ UNCHANGED <<session, runtime, platform, client, deleter, faults>>

\* The harness takes input for a Turn it is working on.  Its other answers are HTTP 409, which the
\* executor reports as AgentInteractionUnavailableError: dispatch throws.
SteerNative(j) ==
    /\ job[j].pc = "steering"
    /\ LET r == job[j].target
       IN  IF worker[r] = "ready" /\ native[r][job[j].turn] = "in_progress"
             THEN Answered(j, "ack") ELSE Throws(j) /\ UNCHANGED faults
    /\ UNCHANGED <<session, runtime, platform, client, deleter>>

\* Where cancel returns to; a revoked start ends the job.
CancelDone(j) == IF job[j].then = "idle" THEN Throws(j) ELSE Goes(j, job[j].then)

\* cancel: nothing is left to cancel, the harness is asked, or the Run is cancelled.
Cancel(j) ==
    /\ job[j].pc = "cancel"
    /\ LET r == RunFor(job[j].turn)
       IN  IF run[r] = "running"
             THEN job' = [job EXCEPT ![j].pc = "interrupt", ![j].target = r] /\ UNCHANGED run
             ELSE CancelDone(j) /\ CancelRun(r)
    /\ UNCHANGED <<session, runtime, worker, native, started, refused, client, deleter, faults>>

\* SessionRuntime.cancel waits for the Turn to end and does not know a Turn it was never given.
Interrupt(j) ==
    /\ job[j].pc = "interrupt"
    /\ LET r == job[j].target
           t == job[j].turn
       IN  IF worker[r] = "ready" /\ native[r][t] # "none"
             THEN /\ native' = [native EXCEPT ![r][t] = IF @ = "in_progress" THEN "cancelled" ELSE @]
                  /\ \/ CancelDone(j) /\ UNCHANGED faults
                     \/ Throws(j) /\ Fault
             ELSE Throws(j) /\ UNCHANGED <<native, faults>>
    /\ UNCHANGED <<session, runtime, run, worker, started, refused, client, deleter>>

ObserveCancelled(j) ==
    /\ job[j].pc = "observe" /\ Observable(job[j].turn)
    /\ job' = [job EXCEPT ![j].pc = "settle",
                          ![j].outcome = Observed(job[j].turn, job[j].copy.turns[job[j].turn].status)]
    /\ UNCHANGED <<session, runtime, platform, client, deleter, faults>>

\* cancelledStartTurn: a start that is still queued never ran.
Cancelled(status) == IF status = "queued" THEN "cancelled" ELSE status

SettleCancelled(j) ==
    /\ job[j].pc = "settle"
    /\ IF session.phase = "deleted" THEN Throws(j) /\ UNCHANGED session
       ELSE /\ session' = [session EXCEPT !.revision = @ + 1, !.turns[job[j].turn].status =
                                IF @ \in Finished THEN @ ELSE Cancelled(job[j].outcome)]
            /\ job' = [job EXCEPT ![j].pc = "ack", ![j].copy.turns = session'.turns]
    /\ UNCHANGED <<runtime, platform, client, deleter, faults>>

\* The receipt is done.  A start for a deleted Session is revoked.
Acknowledge(j) ==
    /\ job[j].pc = "ack"
    /\ LET i == job[j].at
           done == [session EXCEPT !.revision = @ + 1,
                        !.receipts[i].dispatched = TRUE,
                        !.receipts[i].failed = job[j].failed]
       IN  IF session.phase = "deleted"
             THEN /\ IF job[j].copy.receipts[i].type = "start"
                       THEN job' = [job EXCEPT ![j].pc = "cancel", ![j].then = "idle"]
                       ELSE Throws(j)
                  /\ UNCHANGED session
             ELSE IF session.phase = "closing" THEN Throws(j) /\ UNCHANGED session
             ELSE /\ session' = done
                  /\ Advance(j, [job[j].copy EXCEPT !.turns = done.turns], i)
    /\ UNCHANGED <<runtime, platform, client, deleter, faults>>

DispatchFails(j) ==
    /\ job[j].pc # "idle"
    /\ Throws(j) /\ Fault
    /\ UNCHANGED <<session, runtime, platform, client, deleter>>

\* completeTurn, from the jobs that follow a Run or the runtime record.
CompleteTurn(t) ==
    /\ t \in DOMAIN session.turns /\ session.phase # "deleted"
    /\ session.turns[t].status \notin Finished /\ Observable(t)
    /\ ObservedTurns[t] \in Finished
    /\ session' = [session EXCEPT !.revision = @ + 1, !.turns[t].status = ObservedTurns[t]]
    /\ UNCHANGED <<runtime, platform, client, deleter, job, faults>>

Dispatch(j) ==
    \/ DispatchRead(j) \/ Initialize(j) \/ StartRead(j) \/ StartRun(j) \/ Deliver(j)
    \/ CheckLaunch(j) \/ Claim(j) \/ Submit(j) \/ FailTurn(j) \/ Steer(j) \/ SteerNative(j) \/ Cancel(j)
    \/ Interrupt(j) \/ ObserveCancelled(j) \/ SettleCancelled(j) \/ Acknowledge(j)

-----------------------------------------------------------------------------
(* Runs and their harnesses *)

Becomes(r, w) == worker' = [worker EXCEPT ![r] = w]
EndRun(r, status) == run' = [run EXCEPT ![r] = IF @ = "cancelling" THEN "cancelled" ELSE status]
Authority(r) == ~runtime.closed /\ runtime.run = r
Outside == UNCHANGED <<session, refused, client, deleter, job>>

\* The dispatcher launches a worker; it says that it runs.
Launch(r) ==
    /\ run[r] = "queued" /\ worker[r] = "off"
    /\ run' = [run EXCEPT ![r] = "running"] /\ Becomes(r, "launched")
    /\ Outside /\ UNCHANGED <<runtime, native, started, faults>>

\* Mutant: a worker does not ask whether the Session is closed.
MutantCheckAuthority(r) ==
    /\ worker[r] = "launched"
    /\ IF runtime.run = r
         THEN /\ Becomes(r, "admitted") /\ UNCHANGED run
              /\ native' = [native EXCEPT ![r] = Stopped(runtime.saved)]
         ELSE Becomes(r, "gone") /\ EndRun(r, "failed") /\ UNCHANGED native
    /\ Outside /\ UNCHANGED <<runtime, started, faults>>

\* A worker the runtime record does not name fails; the others start from the saved snapshot.
CheckAuthority(r) ==
    /\ worker[r] = "launched"
    /\ IF Authority(r)
         THEN /\ Becomes(r, "admitted") /\ UNCHANGED run
              /\ native' = [native EXCEPT ![r] = Stopped(runtime.saved)]
         ELSE Becomes(r, "gone") /\ EndRun(r, "failed") /\ UNCHANGED native
    /\ Outside /\ UNCHANGED <<runtime, started, faults>>

\* SessionRuntime.initialize is done and control commands are taken.
Ready(r) ==
    /\ worker[r] = "admitted"
    /\ Becomes(r, "ready")
    /\ Outside /\ UNCHANGED <<runtime, run, native, started, faults>>

\* The driver starts the Turn the Run was launched for.
StartInitial(r) ==
    /\ worker[r] = "ready" /\ r \in Turns /\ r \notin started[r] /\ ~Busy(r)
    /\ StartNative(r, r)
    /\ Outside /\ UNCHANGED <<runtime, run, worker, faults>>

TurnEnds(r) ==
    /\ worker[r] = "ready"
    /\ \E t \in Runs, status \in {"completed", "failed"} :
         /\ native[r][t] = "in_progress"
         /\ native' = [native EXCEPT ![r][t] = status]
    /\ Outside /\ UNCHANGED <<runtime, run, worker, started, faults>>

Saves(r, turns) ==
    runtime' = IF runtime.saved = turns THEN runtime
               ELSE [runtime EXCEPT !.saved = turns, !.revision = @ + 1]

\* The journal publishes some 250 ms after a change.  Losing its authority stops the harness.
Flush(r) ==
    /\ worker[r] = "ready" /\ native[r] # runtime.saved
    /\ IF Authority(r) THEN Saves(r, native[r]) /\ UNCHANGED worker
       ELSE Becomes(r, "gone") /\ UNCHANGED runtime
    /\ Outside /\ UNCHANGED <<run, native, started, faults>>

\* The harness closes and flushes its journal; a worker without one fails.
Closes(r) ==
    /\ worker[r] \in Live
    /\ IF worker[r] = "ready" /\ Authority(r)
         THEN Saves(r, Stopped(native[r])) /\ native' = [native EXCEPT ![r] = Stopped(@)]
         ELSE UNCHANGED <<runtime, native>>
    /\ Becomes(r, IF worker[r] = "ready" THEN "closed" ELSE "gone")
    /\ Outside /\ UNCHANGED <<run, started>>

\* Its time is up, or its Run is being cancelled.
Close(r) == (~HostManaged \/ run[r] = "cancelling") /\ Closes(r) /\ UNCHANGED faults

\* The agent process exits, or a call on it fails in a way that must not be repeated.
NativeExits(r) == Closes(r) /\ Fault

\* finishExecution of a closed harness.
Finish(r) ==
    /\ worker[r] = "closed" /\ run[r] \in Active
    /\ \E status \in {"succeeded", "failed"} : EndRun(r, status)
    /\ Outside /\ UNCHANGED <<runtime, worker, native, started, faults>>

\* The reconciler ends a Run whose host is gone, or one cancelled before a launch.
RunLost(r) ==
    /\ \/ worker[r] = "gone" /\ run[r] \in Active
       \/ worker[r] = "off" /\ run[r] = "cancelling"
    /\ EndRun(r, "failed")
    /\ Outside /\ UNCHANGED <<runtime, worker, native, started, faults>>

\* A host dies and takes what was not published with it; a cancelled Run's host is stopped.
HostDies(r) ==
    /\ worker[r] \in Live
    /\ \/ Fault
       \/ run[r] = "cancelling" /\ UNCHANGED faults
    /\ Becomes(r, "gone")
    /\ Outside /\ UNCHANGED <<runtime, run, native, started>>

LaunchFails(r) ==
    /\ run[r] = "queued" /\ worker[r] = "off" /\ Fault
    /\ EndRun(r, "failed")
    /\ Outside /\ UNCHANGED <<runtime, worker, native, started>>

Harness(r) ==
    \/ Launch(r) \/ CheckAuthority(r) \/ Ready(r) \/ StartInitial(r) \/ TurnEnds(r) \/ Flush(r)
    \/ Close(r) \/ Finish(r) \/ RunLost(r)

-----------------------------------------------------------------------------

Done ==
    /\ \A k \in Keys : client[k].pc = "done"
    /\ \A j \in Jobs : job[j].pc = "idle"
    /\ UNCHANGED vars

Next ==
    \/ \E k \in Keys : EventsRead(k) \/ EventsCommit(k)
    \/ DeleteClose \/ DeleteStop \/ DeleteRemove \/ DeleteFails
    \/ \E j \in Jobs : Dispatch(j) \/ DispatchFails(j)
    \/ \E t \in Turns : CompleteTurn(t)
    \/ \E r \in Runs : Harness(r) \/ NativeExits(r) \/ HostDies(r) \/ LaunchFails(r)
    \/ Done

Spec == Init /\ [][Next]_vars

\* Jobs are delivered again until they succeed; workers go on; a Turn that runs ends.
Fairness ==
    /\ \A j \in Jobs : WF_vars(Dispatch(j))
    /\ \A t \in Turns : WF_vars(CompleteTurn(t))
    /\ \A r \in Runs : /\ WF_vars(Launch(r) \/ CheckAuthority(r) \/ Ready(r) \/ StartInitial(r))
                       /\ WF_vars(TurnEnds(r)) /\ WF_vars(Flush(r))
                       /\ WF_vars(Close(r)) /\ WF_vars(Finish(r) \/ RunLost(r))

FairSpec == Spec /\ Fairness

-----------------------------------------------------------------------------
(* Properties *)

\* One idempotency key is accepted once, whatever answers are lost and however often the
\* client or the revision check makes events plan again (session-service.ts events).
OneReceiptPerKey ==
    \A i, k \in DOMAIN session.receipts :
        session.receipts[i].key = session.receipts[k].key => i = k

\* A message starts at most one Turn that is neither finished nor being cancelled: later
\* messages steer it, so two live Turns never wait for the one root agent.
OneOpenTurn ==
    \A t, u \in DOMAIN session.turns :
        /\ \A v \in {t, u} : session.turns[v].status \notin Finished /\ ~session.turns[v].cancelRequested
        => t = u

\* At most one harness of the Session is admitted to run Turns at any time, so that two agents
\* never write the same workspace: start reads, claims and submits without a lock, and the
\* worker's check of the runtime record comes later still.
OneHarness ==
    \A r, s \in Runs : worker[r] \in {"admitted", "ready"} /\ worker[s] \in {"admitted", "ready"} => r = s

\* "A receipt retry must not replay a saved Turn after its harness has stopped": no harness starts
\* a Turn that the snapshot holds (run-session-execution.ts start).
StartsAreNotSaved == \A t \in Runs : started'[t] # started[t] => runtime.saved[t] = "none"
SavedTurnNotReplayed == [][StartsAreNotSaved]_vars

\* A Turn that was reported finished keeps its outcome: completion, cancellation, refusals and
\* new input all rewrite the list of Turns from what they read earlier.
OutcomesStay ==
    \A t \in DOMAIN session.turns :
        session.turns[t].status \in Finished => session'.turns[t].status = session.turns[t].status
OutcomeIsFinal == [][OutcomesStay]_vars

\* It does not hold once a start is refused (README.md, section 7), and then alone: an outcome that
\* is rewritten belonged to a Turn whose start was refused, and says that it failed.
OnlyRefusalsOverwrite ==
    \A t \in DOMAIN session.turns :
        session.turns[t].status \in Finished =>
            \/ session'.turns[t].status = session.turns[t].status
            \/ t \in refused /\ session'.turns[t].status = "failed"

\* A Turn that was reported finished is not started, unless a start of it was refused: a retried job
\* may hold a start command for a Turn that was failed or cancelled in the meantime.  It does not
\* hold when two jobs dispatch the Session: README.md, section 7.
StartsAreUnfinished ==
    \A t \in DOMAIN session.turns :
        started'[t] # started[t] => session.turns[t].status \notin Finished \/ t \in refused
FinishedTurnNotStarted == [][StartsAreUnfinished]_vars

\* Deleting a Session stops it: a harness that still runs after the record is gone belongs to a Run
\* that is being cancelled, also when a dispatch was under way between claim and submit.
DeletedMeansStopped ==
    session.phase = "deleted" =>
        \A r \in Runs : worker[r] \in {"admitted", "ready"} => run[r] = "cancelling"

\* One idempotency key has one receipt, at most one root Turn is open, at most one harness has
\* the authority of a Session, and deleting a Session stops its harnesses.
SessionIsOne == OneReceiptPerKey /\ OneOpenTurn /\ OneHarness /\ DeletedMeansStopped

Open == session.phase = "open"
Waiting(i) == Open /\ i \in DOMAIN session.receipts /\ ~session.receipts[i].dispatched
Unfinished(t) == Open /\ t \in DOMAIN session.turns /\ session.turns[t].status \notin Finished

\* Every accepted event of a Session that stays is dispatched: no error, crash or lost answer leaves
\* a receipt behind.  agents-outbox-planning.ts: "Expected admission delays and rejected writes must
\* not block the FIFO for minutes."
InputIsDispatched == \A i \in 1 .. Cardinality(Keys) : Waiting(i) ~> ~Waiting(i)

\* docs/agents-api.md: "For work already admitted to the harness, inspect the Turn until its
\* outcome is terminal": a Turn that a harness was given reaches an outcome.
\* It does not hold: README.md, section 7.
StartedTurnsEnd == \A t \in Turns : (started[t] # {} /\ Unfinished(t)) ~> ~Unfinished(t)

\* session-planning.ts: "A cancelled queued start never ran"; docs/agents-api.md: "Canceling a Turn
\* preserves the Session": a Turn whose cancellation was accepted reaches an outcome.
CancelledTurnsEnd ==
    \A t \in Turns :
        (Unfinished(t) /\ session.turns[t].cancelRequested) ~> ~Unfinished(t)
=============================================================================
