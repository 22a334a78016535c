------------------------------ MODULE Schedules ------------------------------
(***************************************************************************)
(* ScheduleService: a schedule's row, the EventBridge schedule that        *)
(* follows it through the table's stream, the invocations that one makes   *)
(* at least once per occurrence, and the Session an accepted occurrence    *)
(* becomes.  Every write of the row is conditional on its revision;        *)
(* `fresh' are the invocations whose read of it is still the stored one.   *)
(***************************************************************************)
EXTENDS Naturals

CONSTANTS
    Invokers,  \* invocations at work at a time
    LastSlot,  \* bound: scheduled instants
    LastGen,   \* bound: generations, one per change of the schedule
    Profiles   \* bound: which invocations are at work, how often the schedule changes,
               \* and how many invocations end early or lose an answer

Assumptions ==
    /\ LastSlot \in Nat \ {0} /\ LastGen \in Nat \ {0}
    /\ \A profile \in Profiles :
          profile.who \subseteq Invokers /\ profile.changes \in 0..LastGen - 1 /\ profile.faults \in Nat

Slots == 1..LastSlot
Gens == 1..LastGen

VARIABLES
    schedule,   \* the definition; a configuration is known by the generation that set it
    occurrence, \* what was decided of each instant: nothing, Skipped, or a configuration
    latest,     \* activeSessionId: the occurrence accepted last
    job,        \* the stream's job, in the Session's FIFO group: to do, or the row it read
    trigger,    \* the EventBridge schedule
    calls,      \* invocations it made; each may be made again
    invoker,
    fresh,
    session,    \* per occurrence: the integration's record, then the Session
    overlapped, \* how the Session before was when an occurrence was accepted under "skip" although
                \* that Session was being made or in its first turn
    blocked,    \* skipped although the Session before was found deleted
    changes, faults \* how many are left

vars == <<schedule, occurrence, latest, job, trigger, calls, invoker, fresh, session, overlapped, blocked,
          changes, faults>>

Schedule == [status : {"active", "paused", "deleted"}, gen : Gens, conf : Gens, skip : BOOLEAN]
None == 0
Skipped == LastGen + 1

TypeOK ==
    /\ schedule \in Schedule
    /\ occurrence \in [Slots -> {None, Skipped} \cup Gens]
    /\ latest \in {None} \cup Slots
    /\ job \in [todo : BOOLEAN, read : SUBSET Schedule]
    /\ trigger \in SUBSET [gen : Gens, on : BOOLEAN]
    /\ calls \subseteq [slot : Slots, gen : Gens]
    /\ invoker \in [Invokers -> [pc : {"off", "idle", "read", "session", "integration", "commit", "submit"},
                                 slot : Slots, gen : Gens, over : BOOLEAN, saw : {"", "reserved", "born", "deleted"}]]
    /\ fresh \subseteq Invokers
    /\ session \in [Slots -> [at : {"none", "awaiting", "running", "idle", "resumed", "deleted"},
                              conf : {None} \cup Gens, turn : BOOLEAN]]
    /\ overlapped \subseteq {"none", "awaiting", "running"} /\ blocked \subseteq Slots
    /\ changes \in 0..LastGen - 1 /\ faults \in Nat

Idle == [pc |-> "idle", slot |-> 1, gen |-> 1, over |-> FALSE, saw |-> ""]

\* create(): the put is the first write the stream tells of.
Init ==
    /\ schedule \in {s \in Schedule : s.status = "active" /\ s.gen = 1 /\ s.conf = 1}
    /\ occurrence = [s \in Slots |-> None] /\ latest = None
    /\ job = [todo |-> TRUE, read |-> {}] /\ trigger = {} /\ calls = {}
    /\ fresh = {}
    /\ \E profile \in Profiles :
          /\ invoker = [i \in Invokers |-> [Idle EXCEPT !.pc = IF i \in profile.who THEN "idle" ELSE "off"]]
          /\ changes = profile.changes /\ faults = profile.faults
    /\ session = [s \in Slots |-> [at |-> "none", conf |-> None, turn |-> FALSE]]
    /\ overlapped = {} /\ blocked = {}

----------------------------------------------------------------------------
\* A write of the row: the stream has news, and no one else's read is current.
Written == job' = [job EXCEPT !.todo = TRUE] /\ fresh' = {}

\* update() and status(): a new generation of a schedule that is not deleted.
Change ==
    /\ schedule.status # "deleted" /\ changes > 0 /\ changes' = changes - 1
    /\ LET gen == schedule.gen + 1 IN
       \/ \E skip \in BOOLEAN : schedule' = [schedule EXCEPT !.gen = gen, !.conf = gen, !.skip = skip]
       \/ \E status \in {"active", "paused", "deleted"} :
             schedule' = [schedule EXCEPT !.gen = gen, !.status = status]
    /\ Written
    /\ UNCHANGED <<occurrence, latest, trigger, calls, invoker, session, overlapped, blocked, faults>>

\* synchronize() reads the row.  One job of the group runs at a time.
SynchronizeRead ==
    /\ job.todo /\ job.read = {}
    /\ job' = [todo |-> FALSE, read |-> {schedule}]
    /\ UNCHANGED <<schedule, occurrence, latest, trigger, calls, invoker, fresh, session, overlapped, blocked, faults, changes>>

Target(row) == IF row.status = "deleted" THEN {} ELSE {[gen |-> row.gen, on |-> row.status = "active"]}

\* upsert() or remove(); a call that fails leaves the job in the queue.
Synchronize ==
    /\ \E row \in job.read :
          \/ trigger' = Target(row) /\ job' = [job EXCEPT !.read = {}] /\ UNCHANGED faults
          \/ /\ faults > 0 /\ faults' = faults - 1
             /\ trigger' \in {trigger, Target(row)} /\ job' = [todo |-> TRUE, read |-> {}]
    /\ UNCHANGED <<schedule, occurrence, latest, calls, invoker, fresh, session, overlapped, blocked, changes>>

\* EventBridge fires the next instant with the generation it was given.
Fire ==
    /\ \E slot \in Slots : \E t \in trigger :
          /\ t.on /\ \A call \in calls : call.slot < slot
          /\ slot # 1 => \E call \in calls : call.slot = slot - 1
          /\ calls' = calls \cup {[slot |-> slot, gen |-> t.gen]}
    /\ UNCHANGED <<schedule, occurrence, latest, job, trigger, invoker, fresh, session, overlapped, blocked, faults, changes>>

----------------------------------------------------------------------------
\* An invocation reaches the Lambda, not always for the first time.
Take(i) ==
    /\ invoker[i].pc = "idle"
    /\ \E call \in calls :
          invoker' = [invoker EXCEPT ![i].pc = "read", ![i].slot = call.slot, ![i].gen = call.gen]
    /\ UNCHANGED <<schedule, occurrence, latest, job, trigger, calls, fresh, session, overlapped, blocked, faults, changes>>

Current(i) == schedule.status = "active" /\ schedule.gen = invoker[i].gen

\* invoke(): an occurrence that was decided stays so; a stale invocation is refused.
Read(i) ==
    LET of == occurrence[invoker[i].slot] IN
    /\ invoker[i].pc = "read"
    /\ CASE of \in Gens -> invoker' = [invoker EXCEPT ![i].pc = "submit"] /\ UNCHANGED fresh
         [] of = Skipped \/ (of = None /\ ~Current(i)) -> invoker' = [invoker EXCEPT ![i] = Idle] /\ UNCHANGED fresh
         [] OTHER ->
              /\ invoker' = [invoker EXCEPT ![i].pc = IF schedule.skip /\ latest # None THEN "session" ELSE "commit",
                                            ![i].over = FALSE, ![i].saw = ""]
              /\ fresh' = fresh \cup {i}
    /\ UNCHANGED <<schedule, occurrence, latest, job, trigger, calls, session, overlapped, blocked, faults, changes>>

\* Mutant: a Session that is not found is not in progress.
MutantAbsent(s) == FALSE
InProgress(s) == session[s].at \in {"running", "resumed"}
Absent(s) == session[s].at \in {"none", "awaiting", "deleted"}

\* active() of the Session that was the latest when the row was read.
AskSession(i) ==
    /\ invoker[i].pc = "session"
    /\ IF i \in fresh
       THEN invoker' = [invoker EXCEPT ![i].pc = IF Absent(latest) THEN "integration" ELSE "commit",
                                       ![i].over = InProgress(latest)]
       ELSE invoker' = [invoker EXCEPT ![i].pc = "read"]
    /\ UNCHANGED <<schedule, occurrence, latest, job, trigger, calls, fresh, session, overlapped, blocked, faults, changes>>

\* A Session that is not found is reserved, being made, or deleted.
AskIntegration(i) ==
    /\ invoker[i].pc = "integration"
    /\ IF i \in fresh
       THEN invoker' = [invoker EXCEPT ![i].pc = "commit", ![i].over = ~session[latest].turn,
                                       ![i].saw = CASE ~Absent(latest) -> "born"
                                                      [] session[latest].at = "deleted" -> "deleted"
                                                      [] OTHER -> "reserved"]
       ELSE invoker' = [invoker EXCEPT ![i].pc = "read"]
    /\ UNCHANGED <<schedule, occurrence, latest, job, trigger, calls, fresh, session, overlapped, blocked, faults, changes>>

Unchanged(i) == i \in fresh

Waiting(s) == session[s].at \in {"none", "awaiting"}
Busy(s) == Waiting(s) \/ session[s].at = "running"

\* The decision and, when accepted, the configuration: in one conditional put.
Decides(i) ==
    LET me == invoker[i] IN
    /\ occurrence' = [occurrence EXCEPT ![me.slot] = IF me.over THEN Skipped ELSE schedule.conf]
    /\ latest' = IF me.over THEN latest ELSE me.slot
    /\ overlapped' = IF ~me.over /\ schedule.skip /\ latest # None /\ Busy(latest)
                     THEN overlapped \cup {session[latest].at} ELSE overlapped
    /\ blocked' = blocked \cup {s \in {me.slot} : me.over /\ me.saw = "deleted"}
    /\ Written

Commit(i) ==
    /\ invoker[i].pc = "commit"
    /\ IF Unchanged(i)
       THEN /\ Decides(i)
            /\ invoker' = [invoker EXCEPT ![i] = IF @.over THEN Idle ELSE [@ EXCEPT !.pc = "submit"]]
       ELSE /\ invoker' = [invoker EXCEPT ![i].pc = "read"]
            /\ UNCHANGED <<occurrence, latest, overlapped, blocked, job, fresh>>
    /\ UNCHANGED <<schedule, trigger, calls, session, faults, changes>>

\* submit(): the integration accepts an occurrence once.
Submit(i) ==
    LET s == invoker[i].slot IN
    /\ invoker[i].pc = "submit"
    /\ session' = IF session[s].at = "none"
                  THEN [session EXCEPT ![s] = [at |-> "awaiting", conf |-> occurrence[s], turn |-> FALSE]]
                  ELSE session
    /\ invoker' = [invoker EXCEPT ![i] = Idle]
    /\ UNCHANGED <<schedule, occurrence, latest, job, trigger, calls, fresh, overlapped, blocked, faults, changes>>

\* The invocation ends before its answer; EventBridge makes it again.
Crash(i) ==
    /\ invoker[i].pc \notin {"off", "idle"} /\ faults > 0 /\ faults' = faults - 1
    /\ \/ UNCHANGED <<occurrence, latest, overlapped, blocked, job, fresh>>
       \/ invoker[i].pc = "commit" /\ Unchanged(i) /\ Decides(i)
    /\ invoker' = [invoker EXCEPT ![i] = Idle]
    /\ UNCHANGED <<schedule, trigger, calls, session, changes>>

----------------------------------------------------------------------------
Becomes(s, froms, to) ==
    /\ session[s].at \in froms
    /\ session' = [session EXCEPT ![s].at = to]
    /\ UNCHANGED <<schedule, occurrence, latest, job, trigger, calls, invoker, fresh, overlapped, blocked, faults, changes>>

\* submitPending() makes the Session with its first turn, and then notes the turn.
Born(s) == Becomes(s, {"awaiting"}, "running")

SaveTurn(s) ==
    /\ ~session[s].turn /\ ~Absent(s)
    /\ session' = [session EXCEPT ![s].turn = TRUE]
    /\ UNCHANGED <<schedule, occurrence, latest, job, trigger, calls, invoker, fresh, overlapped, blocked, faults, changes>>

\* The turn asks for something or ends; the user goes on, or deletes the Session.
Ends(s) == Becomes(s, {"running", "resumed"}, "idle")
Resume(s) == Becomes(s, {"idle"}, "resumed")
Delete(s) == Becomes(s, {"running", "idle", "resumed"}, "deleted")

Next ==
    \/ Change \/ SynchronizeRead \/ Synchronize \/ Fire
    \/ \E i \in Invokers : \/ Take(i) \/ Read(i) \/ AskSession(i) \/ AskIntegration(i) \/ Commit(i)
                           \/ Submit(i) \/ Crash(i)
    \/ \E s \in Slots : Born(s) \/ SaveTurn(s) \/ Ends(s) \/ Resume(s) \/ Delete(s)

Spec == Init /\ [][Next]_vars

----------------------------------------------------------------------------
\* An occurrence becomes one Session, with the configuration it was accepted with, however
\* often it is invoked and whatever becomes of the schedule meanwhile.
OneSessionEach ==
    \A s \in Slots : session[s].at # "none" => session[s].conf = occurrence[s] /\ occurrence[s] \in Gens

\* EventBridge has what the row says whenever the stream has nothing left to tell.
TriggerFollows == ~job.todo /\ job.read = {} => trigger = Target(schedule)

\* Under "skip" nothing is accepted while the Session before is yet to be made: active() reads
\* the Session and the integration apart, and the integration is put together in between.
SkipIsKept == overlapped \subseteq {"running"}

OccurrencesAreTrue == OneSessionEach /\ TriggerFollows /\ SkipIsKept

\* "suppresses an occurrence while the previous Session is in_progress or awaiting creation":
\* not when that Session is made, with its turn, between the two reads of active().
\* It does not hold: README.md, section 7.
SkipSuppresses == overlapped = {}

\* The same sentence read the other way: only then, and not once that Session is deleted.
\* It does not hold: README.md, section 7.
SkipsForAReason == blocked = {}
=============================================================================
