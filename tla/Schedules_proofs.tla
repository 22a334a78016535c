-------------------------- MODULE Schedules_proofs --------------------------
(***************************************************************************)
(* Proofs about Schedules: however often and in whatever order occurrences *)
(* are invoked while the schedule changes, each becomes one Session with   *)
(* the configuration it was accepted with, EventBridge follows the row,    *)
(* and nothing is accepted under "skip" before the Session of the instant  *)
(* before is made, for any number of invocations, instants and changes.    *)
(***************************************************************************)
EXTENDS Schedules, TLAPS

\* A change takes one of the generations that are left.
GensLeft == schedule.gen + changes <= LastGen

\* What the stream's job read is the row that is stored, unless there is news for it.
JobIsTrue ==
    ~job.todo => \/ job.read = {} /\ trigger = Target(schedule)
                 \/ job.read = {schedule}

\* An invocation submits what was decided; one whose read is current found nothing decided.
DecidesOnce ==
    \A i \in Invokers :
        /\ invoker[i].pc = "submit" => occurrence[invoker[i].slot] \in Gens
        /\ i \in fresh /\ invoker[i].pc \in {"session", "integration", "commit"}
             => occurrence[invoker[i].slot] = None
        /\ i \in fresh /\ invoker[i].pc \in {"session", "integration"} => latest # None

\* The Session before was made when a current invocation found it not in progress.
JudgedIsTrue ==
    \A i \in Invokers :
        (/\ i \in fresh /\ invoker[i].pc = "commit"
         /\ ~invoker[i].over
         /\ schedule.skip /\ latest # None) => ~Waiting(latest)

\* A turn is noted of a Session that was made.
TurnsFollow == \A s \in Slots : session[s].at \in {"none", "awaiting"} => ~session[s].turn

\* The inductive invariant.
ScheduleInv ==
    /\ Assumptions /\ TypeOK /\ GensLeft /\ JobIsTrue /\ DecidesOnce /\ JudgedIsTrue /\ TurnsFollow
    /\ OneSessionEach /\ SkipIsKept

-----------------------------------------------------------------------------
(* Types *)

\* The row keeps its type, and generations suffice.
LEMMA ChangeKeepsRow ==
    ASSUME Assumptions, TypeOK, GensLeft, Change
    PROVE  schedule' \in Schedule /\ changes' \in 0 .. LastGen - 1 /\ GensLeft'
  <1> DEFINE gen == schedule.gen + 1
  <1>1. /\ LastGen \in Nat /\ schedule \in Schedule /\ schedule.gen \in 1 .. LastGen
        /\ changes \in 0 .. LastGen - 1 /\ schedule.gen + changes <= LastGen
    BY DEF Assumptions, TypeOK, GensLeft, Schedule, Gens
  <1>2. changes > 0 /\ changes' = changes - 1
    BY DEF Change
  <1>3. gen \in Gens /\ changes' \in 0 .. LastGen - 1 /\ gen + changes' <= LastGen
    BY <1>1, <1>2 DEF Gens
  <1> HIDE DEF gen
  <1>4. schedule' \in Schedule /\ schedule'.gen = gen
    <2>1. CASE \E skip \in BOOLEAN : schedule' = [schedule EXCEPT !.gen = gen, !.conf = gen, !.skip = skip]
      BY <1>1, <1>3, <2>1 DEF Schedule
    <2>2. CASE \E status \in {"active", "paused", "deleted"} :
                 schedule' = [schedule EXCEPT !.gen = gen, !.status = status]
      BY <1>1, <1>3, <2>2 DEF Schedule
    <2> QED
      BY <2>1, <2>2 DEF Change, gen
  <1> QED
    BY <1>3, <1>4 DEF GensLeft

\* A step of the schedule, its stream or EventBridge keeps the types.
LEMMA ScheduleKeepsType ==
    ASSUME Assumptions, TypeOK, GensLeft, Change \/ SynchronizeRead \/ Synchronize \/ Fire
    PROVE  TypeOK' /\ GensLeft'
  <1>1. CASE Change
    <2>1. job' \in [todo : BOOLEAN, read : SUBSET Schedule] /\ fresh' = {}
      BY <1>1 DEF Change, Written, TypeOK
    <2> QED
      BY <1>1, <2>1, ChangeKeepsRow DEF Change, TypeOK
  <1>2. CASE SynchronizeRead
    BY <1>2 DEF SynchronizeRead, TypeOK, GensLeft
  <1>3. CASE Synchronize
    <2>1. \A row \in Schedule : Target(row) \in SUBSET [gen : Gens, on : BOOLEAN]
      BY DEF Target, Schedule
    <2>2. PICK row \in job.read :
             /\ trigger' \in {trigger, Target(row)}
             /\ \/ job' = [job EXCEPT !.read = {}] /\ faults' = faults
                \/ job' = [todo |-> TRUE, read |-> {}] /\ faults > 0 /\ faults' = faults - 1
      BY <1>3 DEF Synchronize
    <2>3. row \in Schedule
      BY <2>2 DEF TypeOK
    <2>4. trigger' \in SUBSET [gen : Gens, on : BOOLEAN]
      BY <2>1, <2>2, <2>3 DEF TypeOK
    <2>5. job' \in [todo : BOOLEAN, read : SUBSET Schedule]
      <3>1. job \in [todo : BOOLEAN, read : SUBSET Schedule]
        BY DEF TypeOK
      <3>2. CASE job' = [job EXCEPT !.read = {}]
        BY <3>1, <3>2
      <3>3. CASE job' = [todo |-> TRUE, read |-> {}]
        BY <3>3
      <3> QED
        BY <2>2, <3>2, <3>3
    <2>6. faults' \in Nat
      <3>1. faults \in Nat /\ (faults' = faults \/ (faults > 0 /\ faults' = faults - 1))
        BY <2>2 DEF TypeOK
      <3> QED
        BY <3>1
    <2> QED
      BY <1>3, <2>4, <2>5, <2>6 DEF Synchronize, TypeOK, GensLeft
  <1>4. CASE Fire
    <2>1. PICK slot \in Slots, t \in trigger : calls' = calls \cup {[slot |-> slot, gen |-> t.gen]}
      BY <1>4 DEF Fire
    <2>2. t.gen \in Gens /\ calls \subseteq [slot : Slots, gen : Gens]
      <3>1. t \in [gen : Gens, on : BOOLEAN]
        BY DEF TypeOK
      <3> QED
        BY <3>1 DEF TypeOK
    <2>3. [slot |-> slot, gen |-> t.gen] \in [slot : Slots, gen : Gens]
      BY <2>2
    <2>4. calls' \subseteq [slot : Slots, gen : Gens]
      BY <2>1, <2>2, <2>3
    <2> QED
      BY <1>4, <2>4 DEF Fire, TypeOK, GensLeft
  <1> QED
    BY <1>1, <1>2, <1>3, <1>4

\* What an invocation is doing.
Invocation == [pc : {"off", "idle", "read", "session", "integration", "commit", "submit"},
               slot : Slots, gen : Gens, over : BOOLEAN, saw : {"", "reserved", "born", "deleted"}]

LEMMA IdleType ==
    ASSUME Assumptions
    PROVE  Idle \in Invocation /\ Idle.pc = "idle"
  <1>1. 1 \in Slots /\ 1 \in Gens
    BY DEF Assumptions, Slots, Gens
  <1> QED
    BY <1>1 DEF Idle, Invocation

\* The decision and its configuration, or that there is none.
LEMMA DecisionType ==
    ASSUME Assumptions, TypeOK, NEW i \in Invokers, Decides(i)
    PROVE  /\ invoker[i].slot \in Slots
           /\ occurrence' \in [Slots -> {None, Skipped} \cup Gens]
           /\ latest' \in {None} \cup Slots
           /\ overlapped' \subseteq {"none", "awaiting", "running"} /\ blocked' \subseteq Slots
           /\ job' \in [todo : BOOLEAN, read : SUBSET Schedule] /\ fresh' = {}
           /\ ~invoker[i].over => /\ occurrence' = [occurrence EXCEPT ![invoker[i].slot] = schedule.conf]
                                  /\ schedule.conf \in Gens
           /\ invoker[i].over => occurrence' = [occurrence EXCEPT ![invoker[i].slot] = Skipped]
  <1>1. invoker[i] \in Invocation /\ invoker[i].slot \in Slots
    BY DEF TypeOK, Invocation
  <1>2. schedule.conf \in Gens
    BY DEF TypeOK, Schedule
  <1>3. /\ occurrence' = [occurrence EXCEPT
              ![invoker[i].slot] = IF invoker[i].over THEN Skipped ELSE schedule.conf]
        /\ latest' = IF invoker[i].over THEN latest ELSE invoker[i].slot
    BY DEF Decides
  <1>4. occurrence' \in [Slots -> {None, Skipped} \cup Gens]
    BY <1>1, <1>2, <1>3 DEF TypeOK
  <1>5. latest' \in {None} \cup Slots
    BY <1>1, <1>3 DEF TypeOK
  <1>6. blocked' \subseteq Slots
    BY <1>1 DEF TypeOK, Decides
  <1>8. overlapped' \subseteq {"none", "awaiting", "running"}
    <2>1. Busy(latest) => session[latest].at \in {"none", "awaiting", "running"}
      BY DEF Busy, Waiting
    <2> QED
      BY <2>1 DEF TypeOK, Decides
  <1>7. job' \in [todo : BOOLEAN, read : SUBSET Schedule] /\ fresh' = {}
    BY DEF TypeOK, Decides, Written
  <1> QED
    BY <1>1, <1>2, <1>3, <1>4, <1>5, <1>6, <1>7, <1>8

\* The others stay where they are.
OnlyMoves(i) ==
    /\ invoker' \in [Invokers -> Invocation]
    /\ \A j \in Invokers : j # i => invoker'[j] = invoker[j]

\* An invocation's next place, and what it found there.
LEMMA Places ==
    ASSUME TypeOK, NEW i \in Invokers, NEW me \in Invocation, invoker' = [invoker EXCEPT ![i] = me]
    PROVE  OnlyMoves(i) /\ invoker'[i] = me
  <1>1. invoker \in [Invokers -> Invocation]
    BY DEF TypeOK, Invocation
  <1> QED
    BY <1>1 DEF OnlyMoves

\* Where an invocation is.
Steps == {"off", "idle", "read", "session", "integration", "commit", "submit"}

LEMMA Goes ==
    ASSUME TypeOK, NEW i \in Invokers, NEW p \in Steps, invoker' = [invoker EXCEPT ![i].pc = p]
    PROVE  OnlyMoves(i) /\ invoker'[i].pc = p /\ invoker'[i].slot = invoker[i].slot
  <1> DEFINE me == [invoker[i] EXCEPT !.pc = p]
  <1>1. invoker \in [Invokers -> Invocation] /\ invoker[i] \in Invocation
    BY DEF TypeOK, Invocation
  <1>2. me \in Invocation /\ me.pc = p /\ me.slot = invoker[i].slot
    BY <1>1 DEF Invocation, Steps
  <1>3. invoker' = [invoker EXCEPT ![i] = me]
    BY <1>1
  <1> HIDE DEF me
  <1> QED
    BY <1>2, <1>3, Places

LEMMA GoesWith ==
    ASSUME TypeOK, NEW i \in Invokers, NEW p \in Steps, NEW b \in BOOLEAN,
           invoker' = [invoker EXCEPT ![i].pc = p, ![i].over = b]
    PROVE  OnlyMoves(i) /\ invoker'[i].pc = p /\ invoker'[i].over = b /\ invoker'[i].slot = invoker[i].slot
  <1> DEFINE me == [invoker[i] EXCEPT !.pc = p, !.over = b]
  <1>1. invoker \in [Invokers -> Invocation] /\ invoker[i] \in Invocation
    BY DEF TypeOK, Invocation
  <1>2. me \in Invocation /\ me.pc = p /\ me.over = b /\ me.slot = invoker[i].slot
    BY <1>1 DEF Invocation, Steps
  <1>3. invoker' = [invoker EXCEPT ![i] = me]
    BY <1>1
  <1> HIDE DEF me
  <1> QED
    BY <1>2, <1>3, Places

LEMMA GoesSeeing ==
    ASSUME TypeOK, NEW i \in Invokers, NEW p \in Steps, NEW b \in BOOLEAN,
           NEW w \in {"", "reserved", "born", "deleted"},
           invoker' = [invoker EXCEPT ![i].pc = p, ![i].over = b, ![i].saw = w]
    PROVE  /\ OnlyMoves(i) /\ invoker'[i].pc = p /\ invoker'[i].over = b /\ invoker'[i].saw = w
           /\ invoker'[i].slot = invoker[i].slot
  <1> DEFINE me == [invoker[i] EXCEPT !.pc = p, !.over = b, !.saw = w]
  <1>1. invoker \in [Invokers -> Invocation] /\ invoker[i] \in Invocation
    BY DEF TypeOK, Invocation
  <1>2. me \in Invocation /\ me.pc = p /\ me.over = b /\ me.saw = w /\ me.slot = invoker[i].slot
    BY <1>1 DEF Invocation, Steps
  <1>3. invoker' = [invoker EXCEPT ![i] = me]
    BY <1>1
  <1> HIDE DEF me
  <1> QED
    BY <1>2, <1>3, Places

\* One that takes an invocation or gives it up moves alone.
LEMMA TakeMoves ==
    ASSUME TypeOK, NEW i \in Invokers, Take(i)
    PROVE  OnlyMoves(i) /\ invoker'[i].pc = "read"
  <1>1. invoker \in [Invokers -> Invocation] /\ invoker[i] \in Invocation
    BY DEF TypeOK, Invocation
  <1>2. PICK call \in calls : invoker' = [invoker EXCEPT ![i].pc = "read", ![i].slot = call.slot, ![i].gen = call.gen]
    BY DEF Take
  <1>3. call.slot \in Slots /\ call.gen \in Gens
    <2>1. call \in [slot : Slots, gen : Gens]
      BY DEF TypeOK
    <2> QED
      BY <2>1
  <1> DEFINE me == [invoker[i] EXCEPT !.pc = "read", !.slot = call.slot, !.gen = call.gen]
  <1>4. me \in Invocation /\ me.pc = "read"
    BY <1>1, <1>3 DEF Invocation
  <1>5. invoker' = [invoker EXCEPT ![i] = me]
    BY <1>1, <1>2
  <1> HIDE DEF me
  <1> QED
    BY <1>1, <1>4, <1>5 DEF OnlyMoves

LEMMA IdleMoves ==
    ASSUME Assumptions, TypeOK, NEW i \in Invokers, invoker' = [invoker EXCEPT ![i] = Idle]
    PROVE  OnlyMoves(i) /\ invoker'[i].pc = "idle"
  <1>1. invoker \in [Invokers -> Invocation]
    BY DEF TypeOK, Invocation
  <1> QED
    BY <1>1, IdleType DEF OnlyMoves

\* A read that finds a decision, nothing to do, or an occurrence to decide.
LEMMA ReadMoves ==
    ASSUME Assumptions, TypeOK, NEW i \in Invokers, Read(i)
    PROVE  /\ OnlyMoves(i)
           /\ \/ /\ invoker'[i].pc = "submit" /\ invoker'[i].slot = invoker[i].slot /\ fresh' = fresh
                 /\ occurrence[invoker[i].slot] \in Gens
              \/ invoker'[i].pc = "idle" /\ fresh' = fresh
              \/ /\ invoker'[i].pc = "session" /\ schedule.skip /\ latest # None /\ fresh' = fresh \cup {i}
                 /\ invoker'[i].slot = invoker[i].slot /\ occurrence[invoker[i].slot] = None
              \/ /\ invoker'[i].pc = "commit" /\ ~(schedule.skip /\ latest # None) /\ fresh' = fresh \cup {i}
                 /\ invoker'[i].slot = invoker[i].slot /\ occurrence[invoker[i].slot] = None
  <1> DEFINE of == occurrence[invoker[i].slot]
  <1>1. invoker \in [Invokers -> Invocation] /\ invoker[i] \in Invocation /\ invoker[i].slot \in Slots
        /\ of \in {None, Skipped} \cup Gens
    BY DEF TypeOK, Invocation
  <1>2. CASE of \in Gens
    <2>1. invoker' = [invoker EXCEPT ![i].pc = "submit"] /\ fresh' = fresh
      <3>1. of # Skipped /\ of # None
        BY <1>2 DEF Assumptions, Skipped, None, Gens
      <3> QED
        BY <1>2, <3>1 DEF Read
    <2>2. OnlyMoves(i) /\ invoker'[i].pc = "submit" /\ invoker'[i].slot = invoker[i].slot
      BY <2>1, Goes DEF Steps
    <2> QED
      BY <1>2, <2>1, <2>2
  <1>3. CASE of \notin Gens /\ (of = Skipped \/ (of = None /\ ~Current(i)))
    <2>1. invoker' = [invoker EXCEPT ![i] = Idle] /\ fresh' = fresh
      BY <1>3 DEF Read
    <2> QED
      BY <2>1, IdleMoves
  <1>4. CASE of \notin Gens /\ ~(of = Skipped \/ (of = None /\ ~Current(i)))
    <2> DEFINE p == IF schedule.skip /\ latest # None THEN "session" ELSE "commit"
    <2>1. invoker' = [invoker EXCEPT ![i].pc = p, ![i].over = FALSE, ![i].saw = ""] /\ fresh' = fresh \cup {i}
      BY <1>4 DEF Read
    <2>2. /\ p \in {"session", "commit"}
          /\ p = "session" => schedule.skip /\ latest # None
          /\ p = "commit" => ~(schedule.skip /\ latest # None)
      OBVIOUS
    <2> HIDE DEF p
    <2>3. OnlyMoves(i) /\ invoker'[i].pc = p /\ invoker'[i].slot = invoker[i].slot
      BY <2>1, <2>2, GoesSeeing DEF Steps
    <2>4. of = None
      BY <1>1, <1>4
    <2> QED
      BY <2>1, <2>2, <2>3, <2>4
  <1> QED
    BY <1>2, <1>3, <1>4

\* What the two reads of active() find.
LEMMA AskSessionMoves ==
    ASSUME TypeOK, NEW i \in Invokers, AskSession(i)
    PROVE  /\ OnlyMoves(i)
           /\ \/ invoker'[i].pc = "read"
              \/ i \in fresh /\ invoker'[i].pc = "integration" /\ invoker'[i].slot = invoker[i].slot
              \/ /\ i \in fresh /\ invoker'[i].pc = "commit" /\ invoker'[i].slot = invoker[i].slot
                 /\ ~invoker'[i].over => ~Absent(latest) /\ ~InProgress(latest)
  <1>1. invoker \in [Invokers -> Invocation] /\ invoker[i] \in Invocation
        /\ invoker[i].over \in BOOLEAN /\ invoker[i].saw \in {"", "reserved", "born", "deleted"}
    BY DEF TypeOK, Invocation
  <1>2. CASE i \notin fresh
    <2>1. invoker' = [invoker EXCEPT ![i].pc = "read"]
      BY <1>2 DEF AskSession
    <2> QED
      BY <2>1, Goes DEF Steps
  <1>3. CASE i \in fresh
    <2> DEFINE p == IF Absent(latest) THEN "integration" ELSE "commit"
               b == InProgress(latest)
    <2>1. invoker' = [invoker EXCEPT ![i].pc = p, ![i].over = b]
      BY <1>3 DEF AskSession
    <2>2. /\ p \in {"integration", "commit"} /\ b \in BOOLEAN
          /\ p = "commit" => ~Absent(latest)
          /\ b = InProgress(latest)
      BY DEF InProgress
    <2> HIDE DEF p, b
    <2>3. OnlyMoves(i) /\ invoker'[i].pc = p /\ invoker'[i].over = b /\ invoker'[i].slot = invoker[i].slot
      BY <2>1, <2>2, GoesWith DEF Steps
    <2> QED
      BY <1>3, <2>2, <2>3
  <1> QED
    BY <1>2, <1>3

LEMMA AskIntegrationMoves ==
    ASSUME TypeOK, NEW i \in Invokers, AskIntegration(i)
    PROVE  /\ OnlyMoves(i)
           /\ \/ invoker'[i].pc = "read"
              \/ /\ i \in fresh /\ invoker'[i].pc = "commit" /\ invoker'[i].slot = invoker[i].slot
                 /\ ~invoker'[i].over => session[latest].turn
  <1>1. invoker \in [Invokers -> Invocation] /\ invoker[i] \in Invocation
        /\ invoker[i].over \in BOOLEAN /\ invoker[i].saw \in {"", "reserved", "born", "deleted"}
    BY DEF TypeOK, Invocation
  <1>2. CASE i \notin fresh
    <2>1. invoker' = [invoker EXCEPT ![i].pc = "read"]
      BY <1>2 DEF AskIntegration
    <2> QED
      BY <2>1, Goes DEF Steps
  <1>3. CASE i \in fresh
    <2> DEFINE b == ~session[latest].turn
               w == CASE ~Absent(latest) -> "born" [] session[latest].at = "deleted" -> "deleted" [] OTHER -> "reserved"
    <2>1. invoker' = [invoker EXCEPT ![i].pc = "commit", ![i].over = b, ![i].saw = w]
      BY <1>3 DEF AskIntegration
    <2>2. b \in BOOLEAN /\ (~b => session[latest].turn)
      OBVIOUS
    <2>3. w \in {"", "reserved", "born", "deleted"}
      <3>1. CASE ~Absent(latest)
        BY <3>1 DEF Absent
      <3>2. CASE Absent(latest)
        BY <3>2 DEF Absent
      <3> QED
        BY <3>1, <3>2
    <2> HIDE DEF b, w
    <2>4. OnlyMoves(i) /\ invoker'[i].pc = "commit" /\ invoker'[i].over = b /\ invoker'[i].saw = w
          /\ invoker'[i].slot = invoker[i].slot
      BY <2>1, <2>2, <2>3, GoesSeeing, ZenonT(60) DEF Steps
    <2> QED
      BY <1>3, <2>2, <2>3, <2>4
  <1> QED
    BY <1>2, <1>3

\* A put that finds the row changed reads it again.
LEMMA CommitMoves ==
    ASSUME Assumptions, TypeOK, NEW i \in Invokers, Commit(i)
    PROVE  /\ OnlyMoves(i)
           /\ \/ /\ i \notin fresh /\ invoker'[i].pc = "read"
                 /\ UNCHANGED <<occurrence, latest, overlapped, blocked, job, fresh>>
              \/ i \in fresh /\ Decides(i) /\ invoker[i].over /\ invoker'[i].pc = "idle"
              \/ /\ i \in fresh /\ Decides(i) /\ ~invoker[i].over /\ invoker'[i].pc = "submit"
                 /\ invoker'[i].slot = invoker[i].slot
  <1>1. invoker \in [Invokers -> Invocation] /\ invoker[i] \in Invocation
        /\ invoker[i].over \in BOOLEAN /\ invoker[i].saw \in {"", "reserved", "born", "deleted"}
    BY DEF TypeOK, Invocation
  <1>2. CASE i \notin fresh
    <2>1. /\ invoker' = [invoker EXCEPT ![i].pc = "read"]
          /\ UNCHANGED <<occurrence, latest, overlapped, blocked, job, fresh>>
      BY <1>2 DEF Commit, Unchanged
    <2> QED
      BY <1>2, <2>1, Goes DEF Steps
  <1>3. CASE i \in fresh
    <2>1. Decides(i) /\ invoker' = [invoker EXCEPT ![i] = IF @.over THEN Idle ELSE [@ EXCEPT !.pc = "submit"]]
      BY <1>3 DEF Commit, Unchanged
    <2>2. CASE invoker[i].over
      <3>1. invoker' = [invoker EXCEPT ![i] = Idle]
        BY <1>1, <2>1, <2>2
      <3> QED
        BY <1>3, <2>1, <2>2, <3>1, IdleMoves
    <2>3. CASE ~invoker[i].over
      <3>1. invoker' = [invoker EXCEPT ![i] = [invoker[i] EXCEPT !.pc = "submit"]]
        BY <1>1, <2>1, <2>3
      <3>2. invoker' = [invoker EXCEPT ![i].pc = "submit"]
        BY <1>1, <3>1
      <3>3. OnlyMoves(i) /\ invoker'[i].pc = "submit" /\ invoker'[i].slot = invoker[i].slot
        BY <3>2, Goes DEF Steps
      <3> QED
        BY <1>3, <2>1, <2>3, <3>3
    <2> QED
      BY <2>2, <2>3
  <1> QED
    BY <1>2, <1>3

\* What an invocation does.
InvokerStep(i) ==
    Take(i) \/ Read(i) \/ AskSession(i) \/ AskIntegration(i) \/ Commit(i) \/ Submit(i) \/ Crash(i)

\* A step of an invocation keeps the types.
LEMMA InvocationKeepsType ==
    ASSUME Assumptions, TypeOK, GensLeft, NEW i \in Invokers,
           DecidesOnce, InvokerStep(i)
    PROVE  TypeOK' /\ GensLeft'
  <1>1. CASE Take(i)
    BY <1>1, TakeMoves DEF OnlyMoves, Take, TypeOK, GensLeft, Invocation
  <1>2. CASE Read(i)
    <2>1. OnlyMoves(i) /\ fresh' \subseteq Invokers
      <3>1. OnlyMoves(i) /\ (fresh' = fresh \/ fresh' = fresh \cup {i})
        BY <1>2, ReadMoves
      <3> QED
        BY <3>1 DEF TypeOK
    <2> QED
      BY <1>2, <2>1 DEF OnlyMoves, Read, TypeOK, GensLeft, Invocation
  <1>3. CASE AskSession(i)
    BY <1>3, AskSessionMoves DEF OnlyMoves, AskSession, TypeOK, GensLeft, Invocation
  <1>4. CASE AskIntegration(i)
    BY <1>4, AskIntegrationMoves DEF OnlyMoves, AskIntegration, TypeOK, GensLeft, Invocation
  <1>5. CASE Commit(i)
    <2>1. /\ OnlyMoves(i)
          /\ \/ UNCHANGED <<occurrence, latest, overlapped, blocked, job, fresh>>
             \/ Decides(i)
          /\ UNCHANGED <<schedule, trigger, calls, session, faults, changes>>
      BY <1>5, CommitMoves DEF Commit
    <2>2. CASE UNCHANGED <<occurrence, latest, overlapped, blocked, job, fresh>>
      BY <2>1, <2>2 DEF OnlyMoves, TypeOK, GensLeft, Invocation
    <2>3. CASE Decides(i)
      BY <2>1, <2>3, DecisionType DEF OnlyMoves, TypeOK, GensLeft, Invocation
    <2> QED
      BY <2>1, <2>2, <2>3
  <1>6. CASE Submit(i)
    <2>1. OnlyMoves(i) /\ invoker[i].slot \in Slots
      BY <1>6, IdleMoves DEF Submit, TypeOK
    <2> DEFINE s == invoker[i].slot
    <2>2. session' \in [Slots -> [at : {"none", "awaiting", "running", "idle", "resumed", "deleted"},
                                  conf : {None} \cup Gens, turn : BOOLEAN]]
      <3>1. CASE session[s].at = "none"
        <4>1. occurrence[s] \in {None} \cup Gens
          BY <1>6, <2>1 DEF Submit, DecidesOnce
        <4> QED
          BY <1>6, <2>1, <3>1, <4>1 DEF Submit, TypeOK
      <3>2. CASE session[s].at # "none"
        BY <1>6, <3>2 DEF Submit, TypeOK
      <3> QED
        BY <3>1, <3>2
    <2> QED
      BY <1>6, <2>1, <2>2 DEF OnlyMoves, Submit, TypeOK, GensLeft, Invocation
  <1>7. CASE Crash(i)
    <2>1. /\ OnlyMoves(i)
          /\ \/ UNCHANGED <<occurrence, latest, overlapped, blocked, job, fresh>>
             \/ Decides(i)
          /\ UNCHANGED <<schedule, trigger, calls, session, changes>>
      BY <1>7, IdleMoves DEF Crash
    <2>2. faults' \in Nat
      <3>1. faults \in Nat /\ faults > 0 /\ faults' = faults - 1
        BY <1>7 DEF Crash, TypeOK
      <3> QED
        BY <3>1
    <2>3. CASE UNCHANGED <<occurrence, latest, overlapped, blocked, job, fresh>>
      BY <2>1, <2>2, <2>3 DEF OnlyMoves, TypeOK, GensLeft, Invocation
    <2>4. CASE Decides(i)
      BY <2>1, <2>2, <2>4, DecisionType DEF OnlyMoves, TypeOK, GensLeft, Invocation
    <2> QED
      BY <2>1, <2>3, <2>4
  <1> QED
    BY <1>1, <1>2, <1>3, <1>4, <1>5, <1>6, <1>7 DEF InvokerStep

\* A Session's step is of one Session and of nothing else.
SessionStep(s) == Born(s) \/ SaveTurn(s) \/ Ends(s) \/ Resume(s) \/ Delete(s)

\* A Session past its first turn stays so, a Session that was made stays made, and its
\* configuration stays what it was.
LEMMA SessionMoves ==
    ASSUME TypeOK, TurnsFollow, NEW s \in Slots, SessionStep(s)
    PROVE  /\ session' \in [Slots -> [at : {"none", "awaiting", "running", "idle", "resumed", "deleted"},
                                      conf : {None} \cup Gens, turn : BOOLEAN]]
           /\ \A q \in Slots : /\ Waiting(q)' => Waiting(q)
                               /\ session'[q].conf = session[q].conf
                               /\ session'[q].at # "none" => session[q].at # "none"
           /\ TurnsFollow'
           /\ UNCHANGED <<schedule, occurrence, latest, job, trigger, calls, invoker, fresh, overlapped, blocked,
                          faults, changes>>
  <1> DEFINE me == session'[s]
  <1>1. session \in [Slots -> [at : {"none", "awaiting", "running", "idle", "resumed", "deleted"},
                               conf : {None} \cup Gens, turn : BOOLEAN]]
    BY DEF TypeOK
  <1>2. \/ /\ session' = [session EXCEPT ![s].turn = TRUE] /\ session[s].at \notin {"none", "awaiting"}
        \/ \E to \in {"running", "idle", "resumed", "deleted"} :
              /\ session' = [session EXCEPT ![s].at = to]
              /\ session[s].at # "none" /\ (to = "running" => session[s].at = "awaiting")
    BY <1>1 DEF SessionStep, Born, SaveTurn, Ends, Resume, Delete, Becomes, Absent
  <1>3. /\ session' \in [Slots -> [at : {"none", "awaiting", "running", "idle", "resumed", "deleted"},
                                   conf : {None} \cup Gens, turn : BOOLEAN]]
        /\ \A q \in Slots : q # s => session'[q] = session[q]
        /\ me.conf = session[s].conf /\ session[s].at # "none"
        /\ \/ me.at = session[s].at /\ session[s].at \notin {"none", "awaiting"}
           \/ me.at = "running" /\ session[s].at = "awaiting" /\ me.turn = session[s].turn
           \/ me.at \in {"idle", "resumed", "deleted"}
    <2>1. CASE session' = [session EXCEPT ![s].turn = TRUE] /\ session[s].at \notin {"none", "awaiting"}
      BY <1>1, <2>1
    <2>2. ASSUME NEW to \in {"running", "idle", "resumed", "deleted"}, session' = [session EXCEPT ![s].at = to],
                 session[s].at # "none", to = "running" => session[s].at = "awaiting"
          PROVE  /\ session' \in [Slots -> [at : {"none", "awaiting", "running", "idle", "resumed", "deleted"},
                                            conf : {None} \cup Gens, turn : BOOLEAN]]
                 /\ \A q \in Slots : q # s => session'[q] = session[q]
                 /\ me.conf = session[s].conf /\ (me.at = to)  /\ me.turn = session[s].turn
      BY <1>1, <2>2
    <2> QED
      BY <1>2, <2>1, <2>2
  <1>4. \A q \in Slots : Waiting(q)' => Waiting(q)
    BY <1>3 DEF Waiting
  <1>5. TurnsFollow'
    BY <1>3 DEF TurnsFollow
  <1>6. UNCHANGED <<schedule, occurrence, latest, job, trigger, calls, invoker, fresh, overlapped, blocked,
                    faults, changes>>
    BY DEF SessionStep, Born, SaveTurn, Ends, Resume, Delete, Becomes
  <1> QED
    BY <1>3, <1>4, <1>5, <1>6

-----------------------------------------------------------------------------
(* The invariant *)

LEMMA InitIsTrue ==
    ASSUME Assumptions, Init
    PROVE  ScheduleInv
  <1>1. /\ schedule \in Schedule /\ schedule.gen = 1 /\ job = [todo |-> TRUE, read |-> {}] /\ trigger = {}
        /\ calls = {} /\ fresh = {} /\ latest = None /\ overlapped = {} /\ blocked = {}
        /\ occurrence = [s \in Slots |-> None]
        /\ session = [s \in Slots |-> [at |-> "none", conf |-> None, turn |-> FALSE]]
    BY DEF Init
  <1>2. changes \in 0 .. LastGen - 1 /\ faults \in Nat /\ schedule.gen + changes <= LastGen
    BY <1>1 DEF Init, Assumptions
  <1>3. invoker \in [Invokers -> Invocation] /\ \A i \in Invokers : invoker[i].pc \in {"idle", "off"}
    <2>1. PICK profile \in Profiles :
             invoker = [i \in Invokers |-> [Idle EXCEPT !.pc = IF i \in profile.who THEN "idle" ELSE "off"]]
      BY DEF Init
    <2>2. \A p \in {"idle", "off"} : [Idle EXCEPT !.pc = p] \in Invocation /\ [Idle EXCEPT !.pc = p].pc = p
      BY IdleType DEF Invocation
    <2>3. \A i \in Invokers : \E p \in {"idle", "off"} : invoker[i] = [Idle EXCEPT !.pc = p]
      BY <2>1
    <2>4. \A i \in Invokers : invoker[i] \in Invocation /\ invoker[i].pc \in {"idle", "off"}
      BY <2>2, <2>3
    <2> QED
      BY <2>1, <2>4
  <1>4. TypeOK
    <2>1. session \in [Slots -> [at : {"none", "awaiting", "running", "idle", "resumed", "deleted"},
                                 conf : {None} \cup Gens, turn : BOOLEAN]]
      BY <1>1
    <2>2. occurrence \in [Slots -> {None, Skipped} \cup Gens]
      BY <1>1
    <2>3. job \in [todo : BOOLEAN, read : SUBSET Schedule]
      BY <1>1
    <2> QED
      BY <1>1, <1>2, <1>3, <2>1, <2>2, <2>3 DEF TypeOK, Invocation
  <1>5. DecidesOnce /\ JudgedIsTrue
    BY <1>1, <1>3 DEF DecidesOnce, JudgedIsTrue
  <1>6. OneSessionEach /\ TurnsFollow /\ SkipIsKept /\ JobIsTrue /\ GensLeft
    BY <1>1, <1>2 DEF OneSessionEach, TurnsFollow, SkipIsKept, JobIsTrue, GensLeft
  <1> QED
    BY <1>4, <1>5, <1>6 DEF ScheduleInv

\* The schedule, its stream and EventBridge: whoever changes the row leaves no read current.
LEMMA ScheduleKeepsInv ==
    ASSUME ScheduleInv, Change \/ SynchronizeRead \/ Synchronize \/ Fire
    PROVE  ScheduleInv'
  <1>1. TypeOK' /\ GensLeft' /\ Assumptions'
    BY ScheduleKeepsType DEF ScheduleInv, Assumptions
  <1>2. /\ UNCHANGED <<occurrence, latest, invoker, session, overlapped>>
        /\ fresh' = {} \/ (fresh' = fresh /\ schedule' = schedule)
    BY DEF Change, SynchronizeRead, Synchronize, Fire, Written
  <1>3. JobIsTrue'
    <2>1. CASE Change
      <3>1. job'.todo
        BY <2>1 DEF Change, Written, ScheduleInv, TypeOK
      <3> QED
        BY <3>1 DEF JobIsTrue
    <2>2. CASE SynchronizeRead
      BY <2>2 DEF SynchronizeRead, JobIsTrue
    <2>3. CASE Synchronize
      <3>1. PICK row \in job.read :
               \/ trigger' = Target(row) /\ job' = [job EXCEPT !.read = {}]
               \/ job' = [todo |-> TRUE, read |-> {}]
        BY <2>3 DEF Synchronize
      <3>2. schedule' = schedule /\ job \in [todo : BOOLEAN, read : SUBSET Schedule]
        BY <2>3 DEF Synchronize, ScheduleInv, TypeOK
      <3>3. ~job.todo => row = schedule
        BY <3>1 DEF ScheduleInv, JobIsTrue
      <3>4. CASE trigger' = Target(row) /\ job' = [job EXCEPT !.read = {}]
        <4>1. job'.todo = job.todo /\ job'.read = {}
          BY <3>2, <3>4
        <4> QED
          BY <3>2, <3>3, <3>4, <4>1 DEF JobIsTrue, Target
      <3>5. CASE job' = [todo |-> TRUE, read |-> {}]
        BY <3>5 DEF JobIsTrue
      <3> QED
        BY <3>1, <3>4, <3>5
    <2>4. CASE Fire
      BY <2>4 DEF Fire, ScheduleInv, JobIsTrue, Target
    <2> QED
      BY <2>1, <2>2, <2>3, <2>4
  <1>4. DecidesOnce'
    BY <1>2 DEF ScheduleInv, DecidesOnce
  <1>5. JudgedIsTrue'
    BY <1>2 DEF ScheduleInv, JudgedIsTrue, Waiting
  <1>6. OneSessionEach' /\ TurnsFollow' /\ SkipIsKept'
    BY <1>2 DEF ScheduleInv, OneSessionEach, TurnsFollow, SkipIsKept
  <1> QED
    BY <1>1, <1>3, <1>4, <1>5, <1>6 DEF ScheduleInv

\* A Session that moves is not busy again.
LEMMA SessionsKeepInv ==
    ASSUME ScheduleInv, NEW s \in Slots, SessionStep(s)
    PROVE  ScheduleInv'
  <1>1. TypeOK /\ TurnsFollow
    BY DEF ScheduleInv
  <1>2. /\ session' \in [Slots -> [at : {"none", "awaiting", "running", "idle", "resumed", "deleted"},
                                   conf : {None} \cup Gens, turn : BOOLEAN]]
        /\ \A q \in Slots : /\ Waiting(q)' => Waiting(q)
                            /\ session'[q].conf = session[q].conf
                            /\ session'[q].at # "none" => session[q].at # "none"
        /\ TurnsFollow'
    BY <1>1, SessionMoves
  <1>3. UNCHANGED <<schedule, occurrence, latest, job, trigger, calls, invoker, fresh, overlapped, blocked,
                    faults, changes>>
    BY <1>1, SessionMoves
  <1>4. TypeOK' /\ Assumptions' /\ GensLeft'
    BY <1>1, <1>2, <1>3 DEF TypeOK, ScheduleInv, GensLeft, Assumptions
  <1>5. JudgedIsTrue'
    <2>1. latest # None => (Waiting(latest)' => Waiting(latest))
      BY <1>1, <1>2, <1>3 DEF TypeOK
    <2> QED
      BY <1>3, <2>1 DEF ScheduleInv, JudgedIsTrue
  <1>6. OneSessionEach'
    BY <1>2, <1>3 DEF ScheduleInv, OneSessionEach
  <1>7. JobIsTrue' /\ DecidesOnce' /\ SkipIsKept'
    BY <1>3 DEF ScheduleInv, JobIsTrue, Target, DecidesOnce, SkipIsKept
  <1> QED
    BY <1>2, <1>4, <1>5, <1>6, <1>7 DEF ScheduleInv

\* An invocation that decides found nothing decided: no other one can submit that occurrence
\* yet, no Session is there, and the Session before is past its first turn.
LEMMA DecisionKeepsInv ==
    ASSUME ScheduleInv, NEW i \in Invokers, OnlyMoves(i), Decides(i), TypeOK',
           invoker[i].pc = "commit", i \in fresh, UNCHANGED <<schedule, trigger, session, changes>>,
           \/ invoker'[i].pc = "idle"
           \/ ~invoker[i].over /\ invoker'[i].pc = "submit" /\ invoker'[i].slot = invoker[i].slot
    PROVE  ScheduleInv'
  <1> DEFINE s == invoker[i].slot
  <1>1. Assumptions /\ TypeOK /\ occurrence[s] = None
    BY DEF ScheduleInv, DecidesOnce
  <1>2. /\ s \in Slots /\ fresh' = {} /\ job'.todo
        /\ ~invoker[i].over => /\ occurrence' = [occurrence EXCEPT ![s] = schedule.conf]
                             /\ schedule.conf \in Gens
        /\ invoker[i].over => occurrence' = [occurrence EXCEPT ![s] = Skipped]
    BY <1>1, DecisionType DEF Decides, Written, TypeOK
  <1>3. None \notin Gens
    BY <1>1 DEF Assumptions, None, Gens
  <1>4. \A q \in Slots : q # s => occurrence'[q] = occurrence[q]
    BY <1>1, <1>2 DEF TypeOK
  <1>5. DecidesOnce'
    <2>1. ASSUME NEW j \in Invokers, invoker'[j].pc = "submit"
          PROVE  occurrence'[invoker'[j].slot] \in Gens
      <3>1. CASE j = i
        BY <1>1, <1>2, <2>1, <3>1, ZenonT(60) DEF TypeOK
      <3>2. CASE j # i
        <4>1. invoker'[j] = invoker[j]
          BY <3>2 DEF OnlyMoves
        <4>2. occurrence[invoker[j].slot] \in Gens /\ invoker[j].slot \in Slots
          BY <2>1, <4>1 DEF ScheduleInv, DecidesOnce, TypeOK
        <4> QED
          BY <1>1, <1>3, <1>4, <4>1, <4>2
      <3> QED
        BY <3>1, <3>2
    <2> QED
      BY <1>2, <2>1 DEF DecidesOnce
  <1>6. OneSessionEach'
    BY <1>1, <1>3, <1>4 DEF ScheduleInv, OneSessionEach
  <1>7. SkipIsKept'
    <2>1. ~(~invoker[i].over /\ schedule.skip /\ latest # None /\ Waiting(latest))
      BY DEF ScheduleInv, JudgedIsTrue
    <2>2. ~invoker[i].over /\ schedule.skip /\ latest # None /\ Busy(latest)
             => session[latest].at = "running"
      BY <2>1 DEF Busy
    <2> QED
      BY <2>2 DEF Decides, ScheduleInv, SkipIsKept
  <1>8. JobIsTrue' /\ JudgedIsTrue' /\ TurnsFollow' /\ GensLeft' /\ Assumptions'
    BY <1>1, <1>2 DEF ScheduleInv, JobIsTrue, JudgedIsTrue, TurnsFollow, GensLeft, Assumptions
  <1> QED
    BY <1>5, <1>6, <1>7, <1>8 DEF ScheduleInv

\* An invocation that decides nothing changes no more than its place, whether its read is
\* current, and one Session that was not there.
LEMMA PlaceKeepsInv ==
    ASSUME ScheduleInv, NEW i \in Invokers, OnlyMoves(i), TypeOK',
           UNCHANGED <<schedule, occurrence, latest, job, trigger, session, overlapped, changes>>,
           fresh' \in {fresh, fresh \cup {i}},
           invoker'[i].pc = "submit" => occurrence[invoker'[i].slot] \in Gens,
           i \in fresh' /\ invoker'[i].pc \in {"session", "integration", "commit"}
              => occurrence[invoker'[i].slot] = None,
           i \in fresh' /\ invoker'[i].pc \in {"session", "integration"} => latest # None,
           (/\ i \in fresh' /\ invoker'[i].pc = "commit" /\ ~invoker'[i].over
            /\ schedule.skip /\ latest # None) => ~Waiting(latest)
    PROVE  ScheduleInv'
  <1>1. \A j \in Invokers : j # i => invoker'[j] = invoker[j] /\ (j \in fresh' <=> j \in fresh)
    BY DEF OnlyMoves
  <1>2. DecidesOnce'
    BY <1>1 DEF ScheduleInv, DecidesOnce
  <1>3. Waiting(latest)' <=> Waiting(latest)
    BY DEF Waiting
  <1>4. JudgedIsTrue'
    BY <1>1, <1>3 DEF ScheduleInv, JudgedIsTrue
  <1>5. /\ JobIsTrue' /\ TurnsFollow' /\ GensLeft' /\ Assumptions' /\ OneSessionEach' /\ SkipIsKept'
    BY DEF ScheduleInv, JobIsTrue, Target, TurnsFollow, GensLeft, Assumptions, OneSessionEach, SkipIsKept
  <1> QED
    BY <1>2, <1>4, <1>5 DEF ScheduleInv

\* What is submitted has its configuration, and a Session is made of it once.
LEMMA SubmitKeepsInv ==
    ASSUME ScheduleInv, NEW i \in Invokers, Submit(i), TypeOK'
    PROVE  ScheduleInv'
  <1> DEFINE s == invoker[i].slot
  <1>1. Assumptions /\ TypeOK /\ OnlyMoves(i) /\ invoker'[i].pc = "idle"
    BY IdleMoves DEF ScheduleInv, Submit
  <1>2. s \in Slots /\ occurrence[s] \in Gens
    BY <1>1 DEF Submit, ScheduleInv, DecidesOnce, TypeOK
  <1>3. UNCHANGED <<schedule, occurrence, latest, job, trigger, fresh, overlapped, changes>>
    BY DEF Submit
  <1>4. \A q \in Slots :
           \/ session'[q] = session[q]
           \/ /\ q = s /\ session[q].at = "none"
              /\ session'[q].at = "awaiting" /\ session'[q].conf = occurrence[q] /\ ~session'[q].turn
    <2>1. CASE session[s].at = "none"
      <3>1. session' = [session EXCEPT ![s] = [at |-> "awaiting", conf |-> occurrence[s], turn |-> FALSE]]
        BY <2>1 DEF Submit
      <3> QED
        BY <1>1, <1>2, <2>1, <3>1 DEF TypeOK
    <2>2. CASE session[s].at # "none"
      BY <2>2 DEF Submit
    <2> QED
      BY <2>1, <2>2
  <1>5. \A q \in Slots : Waiting(q)' => Waiting(q)
    BY <1>4 DEF Waiting
  <1>6. \A j \in Invokers : j # i => invoker'[j] = invoker[j]
    BY <1>1 DEF OnlyMoves
  <1>7. DecidesOnce'
    BY <1>1, <1>3, <1>6 DEF ScheduleInv, DecidesOnce
  <1>8. JudgedIsTrue'
    <2>1. latest # None => (Waiting(latest)' => Waiting(latest))
      BY <1>1, <1>3, <1>5 DEF TypeOK
    <2> QED
      BY <1>1, <1>3, <1>6, <2>1 DEF ScheduleInv, JudgedIsTrue
  <1>9. OneSessionEach' /\ TurnsFollow'
    BY <1>2, <1>3, <1>4 DEF ScheduleInv, OneSessionEach, TurnsFollow
  <1>10. JobIsTrue' /\ GensLeft' /\ Assumptions' /\ SkipIsKept'
    BY <1>3 DEF ScheduleInv, JobIsTrue, Target, GensLeft, Assumptions, SkipIsKept
  <1> QED
    BY <1>7, <1>8, <1>9, <1>10 DEF ScheduleInv

LEMMA InvokersKeepInv ==
    ASSUME ScheduleInv, NEW i \in Invokers, InvokerStep(i)
    PROVE  ScheduleInv'
  <1>1. Assumptions /\ TypeOK /\ GensLeft /\ DecidesOnce /\ TypeOK'
    BY InvocationKeepsType DEF ScheduleInv
  <1>2. CASE Take(i)
    <2>1. OnlyMoves(i) /\ invoker'[i].pc = "read"
      BY <1>1, <1>2, TakeMoves
    <2> QED
      BY <1>1, <1>2, <2>1, PlaceKeepsInv DEF Take
  <1>3. CASE Read(i)
    <2>1. UNCHANGED <<schedule, occurrence, latest, job, trigger, session, overlapped, changes>>
      BY <1>3 DEF Read
    <2> QED
      BY <1>1, <1>3, <2>1, ReadMoves, PlaceKeepsInv
  <1>4. CASE AskSession(i)
    <2>1. UNCHANGED <<schedule, occurrence, latest, job, trigger, session, overlapped, changes, fresh>>
          /\ invoker[i].pc = "session"
      BY <1>4 DEF AskSession
    <2>2. i \in fresh => occurrence[invoker[i].slot] = None /\ latest # None
      BY <1>1, <2>1 DEF DecidesOnce
    <2>3. ~Absent(latest) /\ ~InProgress(latest) => ~Waiting(latest)
      BY DEF Absent, InProgress, Waiting
    <2> QED
      BY <1>1, <1>4, <2>1, <2>2, <2>3, AskSessionMoves, PlaceKeepsInv
  <1>5. CASE AskIntegration(i)
    <2>1. UNCHANGED <<schedule, occurrence, latest, job, trigger, session, overlapped, changes, fresh>>
          /\ invoker[i].pc = "integration"
      BY <1>5 DEF AskIntegration
    <2>2. i \in fresh => occurrence[invoker[i].slot] = None /\ latest # None
      BY <1>1, <2>1 DEF DecidesOnce
    <2>3. latest # None /\ session[latest].turn => ~Waiting(latest)
      BY <1>1 DEF ScheduleInv, TurnsFollow, TypeOK, Waiting
    <2> QED
      BY <1>1, <1>5, <2>1, <2>2, <2>3, AskIntegrationMoves, PlaceKeepsInv
  <1>6. CASE Commit(i)
    <2>1. UNCHANGED <<schedule, trigger, session, changes>> /\ invoker[i].pc = "commit"
      BY <1>6 DEF Commit
    <2>2. OnlyMoves(i)
      BY <1>1, <1>6, CommitMoves
    <2>3. CASE i \in fresh
      BY <1>1, <1>6, <2>1, <2>2, <2>3, CommitMoves, DecisionKeepsInv
    <2>4. CASE i \notin fresh
      <3>1. invoker'[i].pc = "read" /\ UNCHANGED <<occurrence, latest, overlapped, job, fresh>>
        BY <1>1, <1>6, <2>4, CommitMoves
      <3> QED
        BY <1>1, <2>1, <2>2, <3>1, PlaceKeepsInv
    <2> QED
      BY <2>3, <2>4
  <1>7. CASE Submit(i)
    BY <1>1, <1>7, SubmitKeepsInv
  <1>8. CASE Crash(i)
    <2>1. UNCHANGED <<schedule, trigger, session, changes>> /\ OnlyMoves(i) /\ invoker'[i].pc = "idle"
      BY <1>1, <1>8, IdleMoves DEF Crash
    <2>2. CASE UNCHANGED <<occurrence, latest, overlapped, blocked, job, fresh>>
      BY <1>1, <2>1, <2>2, PlaceKeepsInv
    <2>3. CASE invoker[i].pc = "commit" /\ Unchanged(i) /\ Decides(i)
      BY <1>1, <2>1, <2>3, DecisionKeepsInv DEF Unchanged
    <2> QED
      BY <1>8, <2>2, <2>3 DEF Crash
  <1> QED
    BY <1>2, <1>3, <1>4, <1>5, <1>6, <1>7, <1>8 DEF InvokerStep

LEMMA StepKeepsInv ==
    ASSUME ScheduleInv, [Next]_vars
    PROVE  ScheduleInv'
  <1>1. CASE Change \/ SynchronizeRead \/ Synchronize \/ Fire
    BY <1>1, ScheduleKeepsInv
  <1>2. CASE \E i \in Invokers : InvokerStep(i)
    BY <1>2, InvokersKeepInv
  <1>3. CASE \E s \in Slots : SessionStep(s)
    BY <1>3, SessionsKeepInv
  <1>4. CASE UNCHANGED vars
    BY <1>4 DEF vars, ScheduleInv, Assumptions, TypeOK, GensLeft, JobIsTrue, Target, DecidesOnce, JudgedIsTrue,
                Waiting, TurnsFollow, OneSessionEach, SkipIsKept
  <1> QED
    BY <1>1, <1>2, <1>3, <1>4 DEF Next, InvokerStep, SessionStep

\* What the stream's job promises follows from what it read.
LEMMA InvIsEnough ==
    ScheduleInv => OccurrencesAreTrue
  BY DEF ScheduleInv, JobIsTrue, TriggerFollows, OccurrencesAreTrue

\* ScheduleService's row, its trigger, the invocations and the Sessions keep their types:
\* for any number of invocations, instants and changes, generations suffice.
THEOREM ScheduleTypes == Assumptions /\ Spec => []TypeOK
  <1>1. Assumptions /\ Init => ScheduleInv
    BY InitIsTrue
  <1>2. ScheduleInv /\ [Next]_vars => ScheduleInv'
    BY StepKeepsInv
  <1>3. ScheduleInv => TypeOK
    BY DEF ScheduleInv
  <1> QED
    BY <1>1, <1>2, <1>3, PTL DEF Spec

\* However often and in whatever order occurrences are invoked, and whatever becomes of the
\* schedule meanwhile, each becomes one Session with the configuration it was accepted with;
\* EventBridge has what the row says once the stream has nothing left to tell; and under
\* "skip" nothing is accepted while the Session before is yet to be made (one that is made
\* between the two reads of active() may be in its first turn: SkipSuppresses does not hold).
THEOREM TrueOccurrences == Assumptions /\ Spec => []OccurrencesAreTrue
  <1>1. Assumptions /\ Init => ScheduleInv
    BY InitIsTrue
  <1>2. ScheduleInv /\ [Next]_vars => ScheduleInv'
    BY StepKeepsInv
  <1> QED
    BY <1>1, <1>2, InvIsEnough, PTL DEF Spec
=============================================================================
