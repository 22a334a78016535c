----------------------- MODULE WorkspaceHandoff_proofs -----------------------
(***************************************************************************)
(* Proofs about WorkspaceHandoff: however Runs are admitted, recovered,    *)
(* retired and copied while hosts crash and answers are lost, one worker   *)
(* at a time writes to the durable root and a committed checkpoint is      *)
(* complete; for any number of Runs, forks and faults.                     *)
(***************************************************************************)
EXTENDS WorkspaceHandoff, TLAPS

\* The worker has been past binding or adopting: it never takes a generation again.
Past(r) == worker[r] \notin {"none", "boot", "adopt", "bind"}
Owns(r) == row.run = r /\ row.generation = r

\* A generation is that of the bound Run, whose worker took it; only without one is there no handoff.
GenerationIsOfRun ==
    /\ row.generation # 0 => row.generation = row.run /\ Past(row.run)
    /\ row.phase # "none" => row.generation # 0

\* A worker that has the root: all that may write and what leads to the commit.
Live(r) == worker[r] \in {"prepare", "work", "sealed", "begin", "shutdown", "sync", "commit", "abort"}

\* What a worker is doing with the root says where the handoff is; effects are admitted by a
\* worker that works, and awaited before it goes on.
WorkerOwns(r) ==
    /\ Live(r) => Owns(r)
    /\ worker[r] \in {"prepare", "work", "sealed", "begin"} => row.phase \in {"none", "consumed"}
    /\ worker[r] \in {"shutdown", "sync", "commit"} => row.phase = "quiescing" /\ row.source = r
    /\ worker[r] = "abort" =>
         /\ row.phase \in {"none", "consumed", "quiescing"}
         /\ row.phase = "quiescing" => row.source = r
    /\ worker[r] = "commit" => r \notin unsynced
    /\ r \in effect => worker[r] \in {"work", "sealed"}

\* The source of a committed checkpoint has stopped writing.
CommittedIsQuiet ==
    row.phase = "committed" =>
        row.source = row.run /\ worker[row.run] \in {"undo", "stopped"} /\ row.run \notin unsynced

\* A copy is made of a committed checkpoint, under the lease.
CopiesAreLeased ==
    \A f \in Forks : copier[f] = "copy" =>
        row.phase = "committed" /\ row.lease = f /\ row.leaseState # "expired"

\* The generation g is taken, and no Run can be bound in its place as if it had stopped.
Spent(g) == Past(g) /\ ~(row.generation = g /\ row.phase = "none")

\* What an admission goes by: a bound predecessor has stopped, or its generation is spent.
AdmissionIsTrue(r) ==
    /\ attach[r].pc = "check" /\ attach[r].seen.generation # 0 =>
         /\ attach[r].seen.run = attach[r].seen.generation /\ Past(attach[r].seen.run)
         /\ attach[r].seen.phase = "committed" => Spent(attach[r].seen.run)
    /\ attach[r].pc = "write" /\ attach[r].generation # 0 /\ attach[r].run # r =>
         /\ attach[r].run = attach[r].generation
         /\ SourceStopped(attach[r].run) \/ Spent(attach[r].run)

\* A recovery whose read is current recovers from a Run whose host is gone.
RecoveriesAreTrue ==
    \A r \in current :
        attach[r].pc = "reset" /\ SourceStopped(row.run) /\ row.phase \notin {"none", "committed"}

\* The inductive invariant.
HandoffInv ==
    /\ Assumptions /\ TypeOK /\ GenerationIsOfRun /\ CommittedIsQuiet /\ CopiesAreLeased
    /\ \A r \in Runs : WorkerOwns(r) /\ AdmissionIsTrue(r)
    /\ RecoveriesAreTrue

-----------------------------------------------------------------------------
(* What a step leaves to those that do not move *)

\* What never goes back.
Forward ==
    \A g \in Runs :
        /\ Past(g) => Past(g)'
        /\ SourceStopped(g) => SourceStopped(g)'
        /\ Spent(g) => Spent(g)'

LEMMA AdmissionStays ==
    ASSUME HandoffInv, NEW r \in Runs, attach'[r] = attach[r], Forward
    PROVE  AdmissionIsTrue(r)'
  <1>1. AdmissionIsTrue(r)
    BY DEF HandoffInv
  <1>2. /\ attach[r].seen.generation \in Runs \cup {0} /\ attach[r].generation \in Runs \cup {0}
    BY DEF HandoffInv, TypeOK, Row
  <1>3. attach[r].seen.generation # 0 /\ attach[r].seen.run = attach[r].seen.generation =>
          /\ Past(attach[r].seen.run) => Past(attach[r].seen.run)'
          /\ Spent(attach[r].seen.run) => Spent(attach[r].seen.run)'
    <2> DEFINE g == attach[r].seen.run
    <2> SUFFICES ASSUME attach[r].seen.generation # 0, attach[r].seen.run = attach[r].seen.generation
                 PROVE  (Past(g) => Past(g)') /\ (Spent(g) => Spent(g)')
      OBVIOUS
    <2>1. PICK h \in Runs : h = attach[r].seen.run
      BY <1>2
    <2>2. (Past(h) => Past(h)') /\ (Spent(h) => Spent(h)')
      BY DEF Forward
    <2> QED
      BY <2>1, <2>2 DEF Past, Spent
  <1>4. attach[r].generation # 0 /\ attach[r].run = attach[r].generation =>
          /\ SourceStopped(attach[r].run) => SourceStopped(attach[r].run)'
          /\ Spent(attach[r].run) => Spent(attach[r].run)'
    <2> DEFINE g == attach[r].run
    <2> SUFFICES ASSUME attach[r].generation # 0, attach[r].run = attach[r].generation
                 PROVE  (SourceStopped(g) => SourceStopped(g)') /\ (Spent(g) => Spent(g)')
      OBVIOUS
    <2>1. PICK h \in Runs : h = attach[r].run
      BY <1>2
    <2>2. (SourceStopped(h) => SourceStopped(h)') /\ (Spent(h) => Spent(h)')
      BY DEF Forward
    <2> QED
      BY <2>1, <2>2 DEF Past, Spent, SourceStopped
  <1> QED
    BY <1>1, <1>3, <1>4 DEF AdmissionIsTrue

\* Without a change of the row's run, generation or phase, workers that only go forward do.
LEMMA GoesForward ==
    ASSUME \A g \in Runs : (Past(g) => Past(g)') /\ (SourceStopped(g) => SourceStopped(g)'),
           \A g \in Runs : Past(g) /\ row'.generation = g /\ row'.phase = "none"
                             => row.generation = g /\ row.phase = "none"
    PROVE  Forward
  BY DEF Forward, Spent

\* A worker moves and the record does not.
LEMMA WorkerSteps ==
    ASSUME HandoffInv, NEW r \in Runs, NEW pc \in WorkerPc, worker[r] # "stopped",
           worker' = [worker EXCEPT ![r] = pc],
           Past(r) => pc \notin {"none", "boot", "adopt", "bind"},
           UNCHANGED <<row, current, attach, copier>>, faults' \in 0 .. MaxFaults,
           effect' \in SUBSET Runs, unsynced' \in SUBSET Runs,
           \A s \in Runs \ {r} : (s \in effect' => s \in effect) /\ (s \in unsynced' => s \in unsynced),
           WorkerOwns(r)',
           worker[r] = "undo" => pc \in {"undo", "stopped"} /\ (r \in unsynced' => r \in unsynced)
    PROVE  HandoffInv'
  <1>1. worker \in [Runs -> WorkerPc] /\ row \in Row
    BY DEF HandoffInv, TypeOK
  <1>2. worker'[r] = pc /\ \A s \in Runs \ {r} : worker'[s] = worker[s]
    BY <1>1
  <1>3. TypeOK'
    BY <1>1 DEF HandoffInv, TypeOK
  <1>4. \A g \in Runs : (Past(g) => Past(g)') /\ (SourceStopped(g) => SourceStopped(g)')
    BY <1>2 DEF Past, SourceStopped
  <1>5. Forward
    BY <1>4, GoesForward
  <1>6. \A s \in Runs : AdmissionIsTrue(s)'
    BY <1>5, AdmissionStays
  <1>7. \A s \in Runs : WorkerOwns(s)'
    <2> SUFFICES ASSUME NEW s \in Runs, s # r PROVE WorkerOwns(s)'
      OBVIOUS
    <2>1. WorkerOwns(s)
      BY DEF HandoffInv
    <2> QED
      BY <1>2, <2>1 DEF WorkerOwns, Live, Owns
  <1>8. row.phase # "none" \/ row.generation # 0 => row.run \in Runs
    BY <1>1 DEF HandoffInv, GenerationIsOfRun, Row
  <1>9. GenerationIsOfRun'
    BY <1>4, <1>8 DEF HandoffInv, GenerationIsOfRun, Past
  <1>10. CommittedIsQuiet'
    BY <1>2, <1>8 DEF HandoffInv, CommittedIsQuiet
  <1>11. CopiesAreLeased'
    BY DEF HandoffInv, CopiesAreLeased
  <1>12. RecoveriesAreTrue'
    <2> SUFFICES ASSUME NEW s \in current
                 PROVE  attach[s].pc = "reset" /\ worker'[row.run] = "stopped" /\ row.phase \notin {"none", "committed"}
      BY DEF RecoveriesAreTrue, SourceStopped
    <2>1. attach[s].pc = "reset" /\ worker[row.run] = "stopped" /\ row.phase \notin {"none", "committed"}
      BY DEF HandoffInv, RecoveriesAreTrue, SourceStopped
    <2> QED
      BY <1>2, <1>8, <2>1
  <1> QED
    BY <1>3, <1>6, <1>7, <1>9, <1>10, <1>11, <1>12 DEF HandoffInv, Assumptions

\* A worker writes the record.
LEMMA WorkerPuts ==
    ASSUME HandoffInv, NEW r \in Runs, NEW pc \in WorkerPc, worker[r] # "stopped",
           worker' = [worker EXCEPT ![r] = pc], pc \notin {"none", "boot", "adopt", "bind"},
           row' \in Row, row'.run = r, row'.generation = r, current' = {},
           UNCHANGED <<attach, copier, effect, unsynced>>, faults' \in 0 .. MaxFaults,
           \A s \in Runs \ {r} : ~Live(s),
           WorkerOwns(r)',
           row'.phase = "committed" =>
              row'.source = r /\ pc \in {"undo", "stopped"} /\ r \notin unsynced,
           \A f \in Forks : copier[f] # "copy",
           row'.phase = "none" => row.phase = "none" /\ (Past(r) => row.generation = r)
    PROVE  HandoffInv'
  <1>1. worker \in [Runs -> WorkerPc]
    BY DEF HandoffInv, TypeOK
  <1>2. worker'[r] = pc /\ \A s \in Runs \ {r} : worker'[s] = worker[s]
    BY <1>1
  <1>3. TypeOK'
    BY <1>1 DEF HandoffInv, TypeOK
  <1>4. \A g \in Runs : (Past(g) => Past(g)') /\ (SourceStopped(g) => SourceStopped(g)')
    BY <1>2 DEF Past, SourceStopped
  <1>5. Forward
    BY <1>4, GoesForward
  <1>6. \A s \in Runs : AdmissionIsTrue(s)'
    BY <1>5, AdmissionStays
  <1>7. \A s \in Runs : WorkerOwns(s)'
    <2> SUFFICES ASSUME NEW s \in Runs, s # r PROVE WorkerOwns(s)'
      OBVIOUS
    <2>1. worker'[s] = worker[s] /\ ~Live(s) /\ WorkerOwns(s)
      BY <1>2 DEF HandoffInv
    <2> QED
      BY <2>1 DEF WorkerOwns, Live
  <1>8. GenerationIsOfRun'
    BY <1>2 DEF GenerationIsOfRun, Past, Runs
  <1>9. CommittedIsQuiet'
    BY <1>2 DEF CommittedIsQuiet
  <1>10. CopiesAreLeased' /\ RecoveriesAreTrue'
    BY DEF CopiesAreLeased, RecoveriesAreTrue
  <1> QED
    BY <1>3, <1>6, <1>7, <1>8, <1>9, <1>10 DEF HandoffInv, Assumptions

\* While the bound Run is r, no other worker has the root.
LEMMA Alone ==
    ASSUME HandoffInv, NEW r \in Runs, row.run = r
    PROVE  \A s \in Runs \ {r} : ~Live(s)
  BY DEF HandoffInv, WorkerOwns, Owns

\* Without a committed checkpoint there is no copy.
LEMMA NoCopies ==
    ASSUME HandoffInv, row.phase # "committed"
    PROVE  \A f \in Forks : copier[f] # "copy"
  BY DEF HandoffInv, CopiesAreLeased

-----------------------------------------------------------------------------
(* The worker *)

LEMMA WorkerFacts ==
    ASSUME HandoffInv, NEW r \in Runs
    PROVE  /\ WorkerOwns(r) /\ worker \in [Runs -> WorkerPc] /\ row \in Row
           /\ effect \in SUBSET Runs /\ unsynced \in SUBSET Runs /\ faults \in 0 .. MaxFaults
  BY DEF HandoffInv, TypeOK

LEMMA FaultType ==
    ASSUME HandoffInv, Fault \/ UNCHANGED faults
    PROVE  faults' \in 0 .. MaxFaults
  BY DEF HandoffInv, Assumptions, TypeOK, Fault

\* A worker that does not have the root any more stops.
LEMMA Stops ==
    ASSUME HandoffInv, NEW r \in Runs, worker[r] # "stopped", Works(r, "stopped"),
           UNCHANGED <<row, current, attach, copier>>, Fault \/ UNCHANGED faults,
           effect' = effect \ {r} \/ (effect' = effect /\ r \notin effect),
           unsynced' = unsynced \/ unsynced' = unsynced \ {r}
    PROVE  HandoffInv'
  <1>1. /\ worker' = [worker EXCEPT ![r] = "stopped"] /\ "stopped" \in WorkerPc
        /\ worker'[r] = "stopped"
    BY WorkerFacts DEF Works, WorkerPc
  <1>2. /\ effect' \in SUBSET Runs /\ unsynced' \in SUBSET Runs /\ r \notin effect'
        /\ \A t \in Runs : (t \in effect' => t \in effect) /\ (t \in unsynced' => t \in unsynced)
    BY WorkerFacts
  <1>3. WorkerOwns(r)'
    BY <1>1, <1>2 DEF WorkerOwns, Live
  <1>4. faults' \in 0 .. MaxFaults
    BY FaultType
  <1> QED
    BY <1>1, <1>2, <1>3, <1>4, WorkerSteps

\* A worker goes on without writing anything.
LEMMA GoesOn ==
    ASSUME HandoffInv, NEW r \in Runs, NEW pc \in WorkerPc, worker[r] \notin {"stopped", "undo"},
           Works(r, pc), Past(r) => pc \notin {"none", "boot", "adopt", "bind"},
           UNCHANGED <<row, current, attach, effect, copier>>, Fault \/ UNCHANGED faults,
           unsynced' \in SUBSET Runs, \A s \in Runs \ {r} : s \in unsynced' => s \in unsynced,
           WorkerOwns(r)'
    PROVE  HandoffInv'
  <1>1. worker' = [worker EXCEPT ![r] = pc] /\ effect' \in SUBSET Runs
    BY WorkerFacts DEF Works
  <1>2. faults' \in 0 .. MaxFaults
    BY FaultType
  <1> QED
    BY <1>1, <1>2, WorkerSteps

LEMMA LaunchKeeps ==
    ASSUME HandoffInv, NEW r \in Runs, Launch(r)
    PROVE  HandoffInv'
  <1>1. worker'[r] = "boot" /\ Works(r, "boot") /\ worker[r] = "none"
    BY WorkerFacts DEF Launch, Works
  <1>2. WorkerOwns(r)'
    BY <1>1, WorkerFacts DEF Launch, WorkerOwns, Live
  <1> QED
    BY <1>1, <1>2, WorkerFacts, GoesOn DEF Launch, WorkerPc, Past

LEMMA PrepareWorkerKeeps ==
    ASSUME HandoffInv, NEW r \in Runs, PrepareWorker(r)
    PROVE  HandoffInv'
  <1>1. worker[r] = "boot" /\ r \notin effect /\ UNCHANGED <<row, current, attach, effect, unsynced, copier, faults>>
    BY WorkerFacts DEF PrepareWorker, WorkerOwns
  <1>2. CASE Works(r, "adopt") \/ Works(r, "bind")
    <2>1. PICK pc \in {"adopt", "bind"} : Works(r, pc)
      BY <1>2
    <2>2. worker'[r] = pc
      BY <2>1, WorkerFacts DEF Works
    <2>3. WorkerOwns(r)'
      BY <1>1, <2>2 DEF WorkerOwns, Live
    <2> QED
      BY <1>1, <2>1, <2>3, WorkerFacts, GoesOn DEF WorkerPc, Past
  <1>3. CASE Works(r, "stopped")
    BY <1>1, <1>3, Stops
  <1> QED
    BY <1>2, <1>3 DEF PrepareWorker

LEMMA AdoptKeeps ==
    ASSUME HandoffInv, NEW r \in Runs, Adopt(r)
    PROVE  HandoffInv'
  <1> DEFINE taken == [row EXCEPT !.run = r, !.generation = r, !.pending = 0, !.phase = "consumed",
                                  !.lease = NoFork]
  <1>1. worker[r] = "adopt" /\ r \notin effect /\ UNCHANGED <<attach, effect, unsynced, copier, faults>>
    BY WorkerFacts DEF Adopt, WorkerOwns
  <1>2. CASE /\ row.phase = "committed" /\ ~Leased(row)
             /\ Put(taken) /\ Works(r, "prepare")
    <2>1. /\ taken \in Row /\ taken.run = r /\ taken.generation = r /\ taken.phase = "consumed"
      BY WorkerFacts DEF Row, Phases
    <2>2. /\ worker' = [worker EXCEPT ![r] = "prepare"] /\ worker'[r] = "prepare"
          /\ row' = taken /\ current' = {}
      BY <1>2, WorkerFacts DEF Works, Put
    <2> HIDE DEF taken
    <2>3. \A s \in Runs : ~Live(s)
      <3> SUFFICES ASSUME NEW s \in Runs, Live(s) PROVE FALSE
        OBVIOUS
      <3>1. row.run = s /\ WorkerOwns(s)
        BY WorkerFacts DEF WorkerOwns, Owns
      <3>2. worker[s] \in {"undo", "stopped"}
        BY <1>2, <3>1 DEF HandoffInv, CommittedIsQuiet
      <3> QED
        BY <3>2 DEF Live
    <2>4. \A f \in Forks : copier[f] # "copy"
      BY <1>2 DEF HandoffInv, Assumptions, CopiesAreLeased, Leased
    <2>5. WorkerOwns(r)'
      BY <1>1, <2>1, <2>2 DEF WorkerOwns, Live, Owns
    <2> QED
      BY <1>1, <2>1, <2>2, <2>3, <2>4, <2>5, WorkerFacts, WorkerPuts DEF WorkerPc
  <1>3. CASE Works(r, "stopped") /\ UNCHANGED <<row, current>>
    BY <1>1, <1>3, Stops
  <1> QED
    BY <1>2, <1>3 DEF Adopt

LEMMA BindKeeps ==
    ASSUME HandoffInv, NEW r \in Runs, Bind(r)
    PROVE  HandoffInv'
  <1> DEFINE taken == [row EXCEPT !.generation = r]
  <1>1. worker[r] = "bind" /\ r \notin effect /\ UNCHANGED <<attach, effect, unsynced, copier, faults>>
    BY WorkerFacts DEF Bind, WorkerOwns
  <1>2. CASE row.run = r /\ row.phase = "none" /\ Put(taken) /\ Works(r, "prepare")
    <2>1. taken \in Row /\ taken.run = r /\ taken.generation = r /\ taken.phase = "none"
      BY <1>2, WorkerFacts DEF Row
    <2>2. /\ worker' = [worker EXCEPT ![r] = "prepare"] /\ worker'[r] = "prepare"
          /\ row' = taken /\ current' = {}
      BY <1>2, WorkerFacts DEF Works, Put
    <2> HIDE DEF taken
    <2>3. \A s \in Runs \ {r} : ~Live(s)
      BY <1>2, Alone
    <2>4. \A f \in Forks : copier[f] # "copy"
      BY <1>2, NoCopies
    <2>5. WorkerOwns(r)'
      BY <1>1, <2>1, <2>2 DEF WorkerOwns, Live, Owns
    <2> QED
      BY <1>1, <1>2, <2>1, <2>2, <2>3, <2>4, <2>5, WorkerFacts, WorkerPuts DEF WorkerPc, Past
  <1>3. CASE Works(r, "stopped") /\ UNCHANGED <<row, current>>
    BY <1>1, <1>3, Stops
  <1> QED
    BY <1>2, <1>3 DEF Bind

\* A worker with the root writes what leaves Run and generation alone.
LEMMA OwnerPuts ==
    ASSUME HandoffInv, NEW r \in Runs, NEW pc \in WorkerPc, worker[r] \notin {"none", "boot", "adopt", "bind", "stopped"},
           row.run = r, row.generation = r, row.phase # "committed",
           NEW next \in Row, next.run = r, next.generation = r,
           next.phase = "none" => row.phase = "none",
           Put(next), Works(r, pc), pc \notin {"none", "boot", "adopt", "bind"},
           UNCHANGED <<attach, effect, unsynced, copier>>, Fault \/ UNCHANGED faults,
           WorkerOwns(r)',
           next.phase = "committed" => next.source = r /\ pc \in {"undo", "stopped"} /\ r \notin unsynced
    PROVE  HandoffInv'
  <1>1. worker' = [worker EXCEPT ![r] = pc] /\ row' = next /\ current' = {}
    BY DEF Works, Put
  <1>2. faults' \in 0 .. MaxFaults
    BY FaultType
  <1> QED
    BY <1>1, <1>2, Alone, NoCopies, WorkerPuts

LEMMA ReadyKeeps ==
    ASSUME HandoffInv, NEW r \in Runs, Ready(r)
    PROVE  HandoffInv'
  <1>1. /\ worker[r] = "prepare" /\ r \notin effect /\ UNCHANGED <<attach, effect, unsynced, copier>>
        /\ row.run = r /\ row.generation = r /\ row.phase \in {"none", "consumed"}
    BY WorkerFacts DEF Ready, WorkerOwns, Live, Owns
  <1>2. CASE Put([row EXCEPT !.sandbox = TRUE, !.failed = FALSE]) /\ Works(r, "work") /\ UNCHANGED faults
    <2> DEFINE next == [row EXCEPT !.sandbox = TRUE, !.failed = FALSE]
    <2>1. next \in Row /\ next.run = r /\ next.generation = r /\ next.phase = row.phase
      BY <1>1, WorkerFacts DEF Row
    <2>2. worker'[r] = "work" /\ row' = next
      BY <1>2, WorkerFacts DEF Works, Put
    <2> HIDE DEF next
    <2>3. WorkerOwns(r)'
      BY <1>1, <2>1, <2>2 DEF WorkerOwns, Live, Owns
    <2> QED
      BY <1>1, <1>2, <2>1, <2>3, OwnerPuts DEF WorkerPc, next
  <1>3. CASE Put([row EXCEPT !.failed = TRUE]) /\ Works(r, "stopped") /\ Fault
    <2> DEFINE next == [row EXCEPT !.failed = TRUE]
    <2>1. next \in Row /\ next.run = r /\ next.generation = r /\ next.phase = row.phase
      BY <1>1, WorkerFacts DEF Row
    <2>2. worker'[r] = "stopped" /\ row' = next
      BY <1>3, WorkerFacts DEF Works, Put
    <2> HIDE DEF next
    <2>3. WorkerOwns(r)'
      BY <1>1, <2>1, <2>2 DEF WorkerOwns, Live
    <2> QED
      BY <1>1, <1>3, <2>1, <2>3, OwnerPuts DEF WorkerPc, next
  <1>4. CASE UNCHANGED <<row, current>> /\ Works(r, "stopped") /\ (Fault \/ UNCHANGED faults)
    BY <1>1, <1>4, Stops
  <1> QED
    BY <1>2, <1>3, <1>4 DEF Ready

LEMMA WriteKeeps ==
    ASSUME HandoffInv, NEW r \in Runs, Write(r)
    PROVE  HandoffInv'
  <1>1. worker[r] \in {"prepare", "work", "sealed", "begin", "shutdown", "abort"}
    BY WorkerFacts DEF Write, Writing, WorkerOwns
  <1>2. Works(r, worker[r]) /\ worker' = worker /\ worker[r] \in WorkerPc
    BY WorkerFacts DEF Write, Works
  <1>3. /\ unsynced' \in SUBSET Runs /\ \A s \in Runs \ {r} : s \in unsynced' => s \in unsynced
    BY WorkerFacts DEF Write
  <1>4. WorkerOwns(r)'
    BY <1>1, <1>2, WorkerFacts DEF Write, WorkerOwns, Live, Owns
  <1> QED
    BY <1>1, <1>2, <1>3, <1>4, GoesOn DEF Write, Past

\* Effects start and end in a worker that works.
LEMMA EffectKeeps ==
    ASSUME HandoffInv, NEW r \in Runs, EffectStarts(r) \/ EffectEnds(r)
    PROVE  HandoffInv'
  <1> PICK pc \in WorkerPc : pc = worker[r]
    BY WorkerFacts
  <1>1. /\ pc \in {"work", "sealed"} /\ worker' = [worker EXCEPT ![r] = pc] /\ worker' = worker
        /\ UNCHANGED <<row, current, attach, unsynced, copier, faults>>
    BY WorkerFacts DEF EffectStarts, EffectEnds, WorkerOwns
  <1>2. effect' \in SUBSET Runs /\ \A s \in Runs \ {r} : s \in effect' => s \in effect
    BY WorkerFacts DEF EffectStarts, EffectEnds
  <1>3. WorkerOwns(r)'
    BY <1>1, WorkerFacts DEF WorkerOwns, Live, Owns
  <1>4. worker[r] \notin {"stopped", "undo", "none", "boot", "adopt", "bind"}
    BY <1>1
  <1>5. faults' \in 0 .. MaxFaults /\ unsynced' \in SUBSET Runs /\ \A s \in Runs \ {r} : s \in unsynced' => s \in unsynced
    BY <1>1, WorkerFacts
  <1>6. pc \notin {"none", "boot", "adopt", "bind"}
    BY <1>1
  <1> QED
    BY <1>1, <1>2, <1>3, <1>4, <1>5, <1>6, WorkerSteps

LEMMA KeepAliveKeeps ==
    ASSUME HandoffInv, NEW r \in Runs, KeepAlive(r)
    PROVE  HandoffInv'
  BY Stops DEF KeepAlive

LEMMA SealKeeps ==
    ASSUME HandoffInv, NEW r \in Runs, Seal(r)
    PROVE  HandoffInv'
  <1>1. worker'[r] = "sealed" /\ worker[r] = "work"
    BY WorkerFacts DEF Seal, Works
  <1>2. WorkerOwns(r)'
    BY <1>1, WorkerFacts DEF Seal, WorkerOwns, Live, Owns
  <1> QED
    BY <1>1, <1>2, WorkerFacts, GoesOn DEF Seal, WorkerPc

LEMMA InspectIdleKeeps ==
    ASSUME HandoffInv, NEW r \in Runs, InspectIdle(r)
    PROVE  HandoffInv'
  <1>1. PICK pc \in {"begin", "work"} : Works(r, pc)
    BY DEF InspectIdle
  <1>2. worker'[r] = pc /\ worker[r] = "sealed" /\ r \notin effect
    BY <1>1, WorkerFacts DEF InspectIdle, Works
  <1>3. WorkerOwns(r)'
    BY <1>2, WorkerFacts DEF InspectIdle, WorkerOwns, Live, Owns
  <1> QED
    BY <1>1, <1>2, <1>3, WorkerFacts, GoesOn DEF InspectIdle, WorkerPc

LEMMA BeginKeeps ==
    ASSUME HandoffInv, NEW r \in Runs, Begin(r)
    PROVE  HandoffInv'
  <1>1. /\ worker[r] = "begin" /\ r \notin effect /\ UNCHANGED <<attach, effect, unsynced, copier>>
        /\ row.run = r /\ row.generation = r /\ row.phase \in {"none", "consumed"}
        /\ (Fault \/ UNCHANGED faults)
    BY WorkerFacts DEF Begin, WorkerOwns, Live, Owns
  <1>2. CASE /\ Put([row EXCEPT !.phase = "quiescing", !.source = r, !.expired = FALSE, !.lease = NoFork])
             /\ Works(r, "shutdown") \/ Works(r, "abort")
    <2> DEFINE next == [row EXCEPT !.phase = "quiescing", !.source = r, !.expired = FALSE, !.lease = NoFork]
    <2>1. /\ next \in Row /\ next.run = r /\ next.generation = r /\ next.phase = "quiescing"
          /\ next.source = r
      BY <1>1, WorkerFacts DEF Row, Phases
    <2>2. PICK pc \in {"shutdown", "abort"} : Works(r, pc)
      BY <1>2
    <2>3. worker'[r] = pc /\ row' = next
      BY <1>2, <2>2, WorkerFacts DEF Works, Put
    <2>4. Put(next)
      BY <1>2
    <2> HIDE DEF next
    <2>5. WorkerOwns(r)'
      BY <1>1, <2>1, <2>2, <2>3 DEF WorkerOwns, Live, Owns
    <2> QED
      BY <1>1, <2>1, <2>2, <2>4, <2>5, OwnerPuts DEF WorkerPc
  <1>3. CASE Works(r, "abort") /\ UNCHANGED <<row, current, faults>>
    <2>1. worker'[r] = "abort"
      BY <1>3, WorkerFacts DEF Works
    <2>2. WorkerOwns(r)'
      BY <1>1, <1>3, <2>1 DEF WorkerOwns, Live, Owns
    <2> QED
      BY <1>1, <1>3, <2>2, WorkerFacts, GoesOn DEF WorkerPc
  <1> QED
    BY <1>2, <1>3 DEF Begin

LEMMA ShutdownNativeKeeps ==
    ASSUME HandoffInv, NEW r \in Runs, ShutdownNative(r)
    PROVE  HandoffInv'
  <1>1. /\ worker[r] = "shutdown" /\ UNCHANGED <<row, current, attach, effect, copier>>
        /\ (Fault \/ UNCHANGED faults) /\ unsynced' \in SUBSET Runs
        /\ \A s \in Runs \ {r} : s \in unsynced' => s \in unsynced
    BY WorkerFacts DEF ShutdownNative
  <1>2. PICK pc \in {"sync", "abort"} : Works(r, pc)
    BY DEF ShutdownNative
  <1>3. worker'[r] = pc
    BY <1>2, WorkerFacts DEF Works
  <1>4. WorkerOwns(r)'
    BY <1>1, <1>2, <1>3, WorkerFacts DEF WorkerOwns, Live, Owns
  <1> QED
    BY <1>1, <1>2, <1>4, GoesOn DEF WorkerPc

LEMMA SyncStorageKeeps ==
    ASSUME HandoffInv, NEW r \in Runs, SyncStorage(r)
    PROVE  HandoffInv'
  <1>1. /\ worker[r] = "sync" /\ UNCHANGED <<row, current, attach, effect, copier>>
        /\ (Fault \/ UNCHANGED faults) /\ unsynced' \in SUBSET Runs
        /\ \A s \in Runs \ {r} : s \in unsynced' => s \in unsynced
    BY WorkerFacts DEF SyncStorage
  <1>2. PICK pc \in {"commit", "undo"} : Works(r, pc) /\ (pc = "commit" => r \notin unsynced')
    BY DEF SyncStorage
  <1>3. worker'[r] = pc
    BY <1>2, WorkerFacts DEF Works
  <1>4. WorkerOwns(r)'
    BY <1>1, <1>2, <1>3, WorkerFacts DEF WorkerOwns, Live, Owns
  <1> QED
    BY <1>1, <1>2, <1>4, GoesOn DEF WorkerPc

LEMMA CommitKeeps ==
    ASSUME HandoffInv, NEW r \in Runs, Commit(r)
    PROVE  HandoffInv'
  <1>1. /\ worker[r] = "commit" /\ r \notin effect /\ r \notin unsynced
        /\ UNCHANGED <<attach, effect, unsynced, copier>>
        /\ row.run = r /\ row.generation = r /\ row.phase = "quiescing" /\ row.source = r
        /\ (Fault \/ UNCHANGED faults)
    BY WorkerFacts DEF Commit, WorkerOwns, Live, Owns
  <1>2. CASE Put([row EXCEPT !.phase = "committed"]) /\ \E pc \in {"stopped", "undo"} : Works(r, pc)
    <2> DEFINE next == [row EXCEPT !.phase = "committed"]
    <2>1. /\ next \in Row /\ next.run = r /\ next.generation = r /\ next.phase = "committed"
          /\ next.source = r
      BY <1>1, WorkerFacts DEF Row, Phases
    <2>2. PICK pc \in {"stopped", "undo"} : Works(r, pc)
      BY <1>2
    <2>3. worker'[r] = pc /\ row' = next
      BY <1>2, <2>2, WorkerFacts DEF Works, Put
    <2>4. Put(next)
      BY <1>2
    <2> HIDE DEF next
    <2>5. WorkerOwns(r)'
      BY <1>1, <2>1, <2>2, <2>3 DEF WorkerOwns, Live, Owns
    <2> QED
      BY <1>1, <2>1, <2>2, <2>4, <2>5, OwnerPuts DEF WorkerPc
  <1>3. CASE Works(r, "undo") /\ UNCHANGED <<row, current, faults>>
    <2>1. worker'[r] = "undo"
      BY <1>3, WorkerFacts DEF Works
    <2>2. WorkerOwns(r)'
      BY <1>1, <1>3, <2>1 DEF WorkerOwns, Live, Owns
    <2> QED
      BY <1>1, <1>3, <2>2, WorkerFacts, GoesOn DEF WorkerPc
  <1> QED
    BY <1>2, <1>3 DEF Commit

LEMMA AbortKeeps ==
    ASSUME HandoffInv, NEW r \in Runs, Abort(r)
    PROVE  HandoffInv'
  <1>1. /\ worker[r] \in {"abort", "undo"} /\ r \notin effect
        /\ UNCHANGED <<attach, effect, unsynced, copier>> /\ Works(r, "stopped")
        /\ (Fault \/ UNCHANGED faults)
    BY WorkerFacts DEF Abort, WorkerOwns
  <1>2. CASE /\ row.run = r /\ row.generation = r /\ row.phase = "quiescing"
             /\ Put([row EXCEPT !.phase = "aborted"])
    <2> DEFINE next == [row EXCEPT !.phase = "aborted"]
    <2>1. next \in Row /\ next.run = r /\ next.generation = r /\ next.phase = "aborted"
      BY <1>2, WorkerFacts DEF Row, Phases
    <2>2. worker'[r] = "stopped" /\ row' = next
      BY <1>1, <1>2, WorkerFacts DEF Works, Put
    <2>3. Put(next)
      BY <1>2
    <2> HIDE DEF next
    <2>4. WorkerOwns(r)'
      BY <1>1, <2>1, <2>2 DEF WorkerOwns, Live
    <2> QED
      BY <1>1, <1>2, <2>1, <2>3, <2>4, OwnerPuts DEF WorkerPc
  <1>3. CASE UNCHANGED <<row, current>>
    BY <1>1, <1>3, Stops
  <1> QED
    BY <1>2, <1>3 DEF Abort, Authority

LEMMA CrashKeeps ==
    ASSUME HandoffInv, NEW r \in Runs, Crash(r)
    PROVE  HandoffInv'
  BY Stops DEF Crash

-----------------------------------------------------------------------------
(* Forks, time and the owner *)

\* A step that leaves the Run, the generation and the handoff where they are.
LEMMA RowStays ==
    ASSUME HandoffInv, row' \in Row, current' \in SUBSET current,
           row'.run = row.run, row'.generation = row.generation, row'.phase = row.phase,
           row'.source = row.source, UNCHANGED <<attach, worker, effect, unsynced>>,
           faults' \in 0 .. MaxFaults,
           copier' \in [Forks -> {"idle", "copy", "publish", "published", "failed"}],
           CopiesAreLeased'
    PROVE  HandoffInv'
  <1>1. TypeOK'
    BY DEF HandoffInv, TypeOK
  <1>2. Forward
    BY DEF Forward, Past, SourceStopped, Spent
  <1>3. \A s \in Runs : AdmissionIsTrue(s)'
    BY <1>2, AdmissionStays
  <1>4. \A s \in Runs : WorkerOwns(s)'
    BY DEF HandoffInv, WorkerOwns, Live, Owns
  <1>5. GenerationIsOfRun' /\ CommittedIsQuiet'
    BY DEF HandoffInv, GenerationIsOfRun, CommittedIsQuiet, Past
  <1>6. RecoveriesAreTrue'
    BY DEF HandoffInv, RecoveriesAreTrue, SourceStopped
  <1> QED
    BY <1>1, <1>3, <1>4, <1>5, <1>6 DEF HandoffInv, Assumptions

\* What a copier becomes.
LEMMA CopierMoves ==
    ASSUME HandoffInv, NEW f \in Forks, NEW pc \in {"copy", "publish", "published", "failed"}, Copies(f, pc)
    PROVE  /\ copier' \in [Forks -> {"idle", "copy", "publish", "published", "failed"}]
           /\ copier'[f] = pc /\ \A g \in Forks \ {f} : copier'[g] = copier[g]
  BY DEF HandoffInv, TypeOK, Copies

LEMMA LeaseSnapshotKeeps ==
    ASSUME HandoffInv, NEW f \in Forks, LeaseSnapshot(f)
    PROVE  HandoffInv'
  <1> DEFINE next == [row EXCEPT !.lease = f, !.leaseState = "running"]
  <1>1. row \in Row /\ faults \in 0 .. MaxFaults
    BY DEF HandoffInv, TypeOK
  <1>2. /\ next \in Row /\ next.run = row.run /\ next.generation = row.generation
        /\ next.phase = row.phase /\ next.source = row.source
        /\ next.lease = f /\ next.leaseState = "running"
    BY <1>1 DEF Row
  <1>3. row' = next /\ current' = {} /\ row.phase = "committed" /\ ~Leased(row)
    BY DEF LeaseSnapshot, Put
  <1>4. /\ copier' \in [Forks -> {"idle", "copy", "publish", "published", "failed"}]
        /\ \A g \in Forks \ {f} : copier'[g] = copier[g]
    BY CopierMoves DEF LeaseSnapshot
  <1> HIDE DEF next
  <1>5. \A g \in Forks : copier[g] # "copy"
    BY <1>3 DEF HandoffInv, Assumptions, CopiesAreLeased, Leased
  <1>6. CopiesAreLeased'
    BY <1>2, <1>3, <1>4, <1>5 DEF CopiesAreLeased
  <1> QED
    BY <1>1, <1>2, <1>3, <1>4, <1>6, RowStays DEF LeaseSnapshot

LEMMA CopyTreeKeeps ==
    ASSUME HandoffInv, NEW f \in Forks, CopyTree(f)
    PROVE  HandoffInv'
  <1>1. row \in Row /\ faults \in 0 .. MaxFaults
    BY DEF HandoffInv, TypeOK
  <1>2. PICK pc \in {"publish", "failed"} : Copies(f, pc)
    BY DEF CopyTree
  <1>3. /\ copier' \in [Forks -> {"idle", "copy", "publish", "published", "failed"}]
        /\ copier'[f] = pc /\ \A g \in Forks \ {f} : copier'[g] = copier[g]
    BY <1>2, CopierMoves
  <1>4. CopiesAreLeased'
    BY <1>2, <1>3 DEF HandoffInv, CopiesAreLeased, CopyTree
  <1> QED
    BY <1>1, <1>3, <1>4, RowStays DEF CopyTree

\* A copier ends, and gives its lease back if it has it.
LEMMA CopierEnds ==
    ASSUME HandoffInv, NEW f \in Forks, NEW pc \in {"published", "failed"}, Copies(f, pc),
           \/ Holds(f) /\ Put([row EXCEPT !.lease = NoFork])
           \/ UNCHANGED <<row, current>>,
           UNCHANGED <<attach, worker, effect, unsynced>>, Fault \/ UNCHANGED faults
    PROVE  HandoffInv'
  <1> DEFINE next == [row EXCEPT !.lease = NoFork]
  <1>1. row \in Row /\ faults' \in 0 .. MaxFaults
    BY FaultType DEF HandoffInv, TypeOK
  <1>2. /\ next \in Row /\ next.run = row.run /\ next.generation = row.generation
        /\ next.phase = row.phase /\ next.source = row.source
    BY <1>1 DEF Row
  <1>3. /\ copier' \in [Forks -> {"idle", "copy", "publish", "published", "failed"}]
        /\ copier'[f] = pc /\ \A g \in Forks \ {f} : copier'[g] = copier[g]
    BY CopierMoves
  <1>4. CASE Holds(f) /\ Put(next)
    <2>1. row' = next /\ current' = {} /\ row.lease = f
      BY <1>4 DEF Put, Holds
    <2> HIDE DEF next
    <2>2. CopiesAreLeased'
      <3>1. \A g \in Forks : copier'[g] # "copy"
        BY <1>3, <2>1 DEF HandoffInv, CopiesAreLeased
      <3> QED
        BY <3>1 DEF CopiesAreLeased
    <2> QED
      BY <1>1, <1>2, <1>3, <2>1, <2>2, RowStays
  <1>5. CASE UNCHANGED <<row, current>>
    <2>1. CopiesAreLeased'
      BY <1>3, <1>5 DEF HandoffInv, CopiesAreLeased
    <2> QED
      BY <1>1, <1>3, <1>5, <2>1, RowStays
  <1> QED
    BY <1>4, <1>5

LEMMA ForkKeeps ==
    ASSUME HandoffInv, NEW f \in Forks, PublishSnapshot(f) \/ ReleaseFork(f)
    PROVE  HandoffInv'
  <1>1. CASE PublishSnapshot(f)
    BY <1>1, CopierEnds DEF PublishSnapshot
  <1>2. CASE ReleaseFork(f)
    BY <1>2, CopierEnds DEF ReleaseFork
  <1> QED
    BY <1>1, <1>2

LEMMA TimeKeeps ==
    ASSUME HandoffInv, HandoffExpires \/ LeaseTime \/ Retire
    PROVE  HandoffInv'
  <1>1. /\ row \in Row /\ faults \in 0 .. MaxFaults
        /\ copier \in [Forks -> {"idle", "copy", "publish", "published", "failed"}]
    BY DEF HandoffInv, TypeOK
  <1>2. /\ row' \in Row /\ row'.run = row.run /\ row'.generation = row.generation
        /\ row'.phase = row.phase /\ row'.source = row.source /\ row'.lease = row.lease
        /\ current' \in SUBSET current
    <2>1. CASE HandoffExpires
      BY <1>1, <2>1 DEF HandoffExpires, Row
    <2>2. CASE LeaseTime
      BY <1>1, <2>2 DEF LeaseTime, Row
    <2>3. CASE Retire
      BY <1>1, <2>3 DEF Retire, Put, Row
    <2> QED
      BY <2>1, <2>2, <2>3
  <1>3. row'.leaseState = row.leaseState \/ row'.leaseState = "late" \/ copier[row.lease] # "copy"
    BY <1>1 DEF HandoffExpires, LeaseTime, Retire, Put, Row
  <1>4. CopiesAreLeased'
    BY <1>2, <1>3 DEF HandoffInv, CopiesAreLeased, HandoffExpires, LeaseTime, Retire
  <1> QED
    BY <1>1, <1>2, <1>4, RowStays DEF HandoffExpires, LeaseTime, Retire

-----------------------------------------------------------------------------
(* Admission *)

Admission == [pc : {"idle", "check", "recover", "reset", "write", "done"},
              seen : Row, run : Runs \union {0}, generation : Runs \union {0}]

\* Run r goes on in its admission.
LEMMA AdmissionMoves ==
    ASSUME HandoffInv, NEW r \in Runs, attach' \in [Runs -> Admission],
           \A s \in Runs \ {r} : attach'[s] = attach[s], AdmissionIsTrue(r)', Forward,
           row' \in Row, current' \in SUBSET Runs, RecoveriesAreTrue',
           UNCHANGED <<worker, effect, unsynced, copier, faults>>,
           GenerationIsOfRun', CommittedIsQuiet', CopiesAreLeased', \A s \in Runs : WorkerOwns(s)'
    PROVE  HandoffInv'
  <1>1. TypeOK'
    BY DEF HandoffInv, TypeOK, Admission
  <1>2. \A s \in Runs : AdmissionIsTrue(s)'
    BY AdmissionStays
  <1> QED
    BY <1>1, <1>2 DEF HandoffInv, Assumptions

\* It leaves what workers, copiers and other recoveries go by.
LEMMA AdmissionSteps ==
    ASSUME HandoffInv, NEW r \in Runs, attach' \in [Runs -> Admission],
           \A s \in Runs \ {r} : attach'[s] = attach[s], AdmissionIsTrue(r)',
           row' \in Row, row'.run = row.run, row'.generation = row.generation, row'.phase = row.phase,
           row'.source = row.source, row'.lease = row.lease, row'.leaseState = row.leaseState,
           current' \in SUBSET current \/ current' = current \union {r},
           UNCHANGED <<worker, effect, unsynced, copier, faults>>,
           r \in current' =>
              attach'[r].pc = "reset" /\ SourceStopped(row.run) /\ row.phase \notin {"none", "committed"}
    PROVE  HandoffInv'
  <1>1. Forward
    BY DEF Forward, Past, SourceStopped, Spent
  <1>2. \A s \in Runs : WorkerOwns(s)'
    BY DEF HandoffInv, WorkerOwns, Live, Owns
  <1>3. GenerationIsOfRun' /\ CommittedIsQuiet' /\ CopiesAreLeased'
    BY DEF HandoffInv, GenerationIsOfRun, CommittedIsQuiet, CopiesAreLeased, Past
  <1>4. current' \in SUBSET Runs
    BY DEF HandoffInv, TypeOK
  <1>5. RecoveriesAreTrue'
    <2> SUFFICES ASSUME NEW s \in current'
                 PROVE  attach'[s].pc = "reset" /\ SourceStopped(row.run) /\ row.phase \notin {"none", "committed"}
      BY DEF RecoveriesAreTrue, SourceStopped
    <2>1. CASE s = r
      BY <2>1
    <2>2. CASE s # r
      BY <1>4, <2>2 DEF HandoffInv, RecoveriesAreTrue
    <2> QED
      BY <2>1, <2>2
  <1> QED
    BY <1>1, <1>2, <1>3, <1>4, <1>5, AdmissionMoves

\* The record is without a generation again, when no worker has the root.
LEMMA RootIsFree ==
    ASSUME HandoffInv, NEW r \in Runs, attach' \in [Runs -> Admission],
           \A s \in Runs \ {r} : attach'[s] = attach[s], AdmissionIsTrue(r)',
           row' \in Row, row'.generation = 0, row'.phase = "none", current' = {},
           UNCHANGED <<worker, effect, unsynced, copier, faults>>,
           row.phase # "committed", \A s \in Runs : ~Live(s)
    PROVE  HandoffInv'
  <1>1. Forward
    BY DEF Forward, Past, SourceStopped, Spent, Runs
  <1>2. \A s \in Runs : WorkerOwns(s)'
    BY DEF HandoffInv, WorkerOwns, Live, Owns
  <1>3. GenerationIsOfRun' /\ CommittedIsQuiet' /\ RecoveriesAreTrue'
    BY DEF GenerationIsOfRun, CommittedIsQuiet, RecoveriesAreTrue
  <1>4. CopiesAreLeased'
    BY NoCopies DEF CopiesAreLeased
  <1> QED
    BY <1>1, <1>2, <1>3, <1>4, AdmissionMoves

\* What an admission knows, and the types it keeps.
LEMMA AdmissionFacts ==
    ASSUME HandoffInv, NEW r \in Runs
    PROVE  /\ attach \in [Runs -> Admission] /\ attach[r] \in Admission /\ AdmissionIsTrue(r)
           /\ attach[r].seen \in Row /\ row \in Row /\ Idle \in Admission
           /\ r \in current => attach[r].pc = "reset"
           /\ current \in SUBSET Runs
  BY DEF HandoffInv, TypeOK, Admission, RecoveriesAreTrue, Idle, NewEnvironment, Row, Phases

\* It may write, with the Run and the generation it saw.
LEMMA Admitting ==
    ASSUME HandoffInv, NEW r \in Runs, NEW run \in Runs \union {0}, NEW generation \in Runs \union {0},
           Admits(r, run, generation)
    PROVE  /\ attach' \in [Runs -> Admission] /\ \A s \in Runs \ {r} : attach'[s] = attach[s]
           /\ attach'[r].pc = "write" /\ attach'[r].run = run /\ attach'[r].generation = generation
  BY AdmissionFacts DEF Admits, Admission

\* It gives up.
LEMMA AdmissionFails ==
    ASSUME HandoffInv, NEW r \in Runs, AttachFails(r), r \notin current,
           UNCHANGED <<row, current, worker, effect, unsynced, copier, faults>>
    PROVE  HandoffInv'
  <1>1. /\ attach' \in [Runs -> Admission] /\ \A s \in Runs \ {r} : attach'[s] = attach[s]
        /\ attach'[r] = Idle
    BY AdmissionFacts DEF AttachFails
  <1>2. AdmissionIsTrue(r)'
    BY <1>1 DEF AdmissionIsTrue, Idle
  <1> QED
    BY <1>1, <1>2, AdmissionFacts, AdmissionSteps

LEMMA AttachReadKeeps ==
    ASSUME HandoffInv, NEW r \in Runs, AttachRead(r)
    PROVE  HandoffInv'
  <1> DEFINE read == [Idle EXCEPT !.pc = "check", !.seen = row]
  <1>1. read \in Admission /\ read.pc = "check" /\ read.seen = row
    BY AdmissionFacts DEF Admission, Idle
  <1>2. attach' = [attach EXCEPT ![r] = read]
    BY DEF AttachRead
  <1> HIDE DEF read
  <1>3. /\ attach' \in [Runs -> Admission] /\ \A s \in Runs \ {r} : attach'[s] = attach[s]
        /\ attach'[r] = read
    BY <1>1, <1>2, AdmissionFacts
  <1>4. row.generation # 0 => row.generation = row.run /\ Past(row.run)
    BY DEF HandoffInv, GenerationIsOfRun
  <1>5. AdmissionIsTrue(r)'
    BY <1>1, <1>3, <1>4 DEF AdmissionIsTrue, AttachRead, Spent, Past
  <1>6. r \notin current
    BY AdmissionFacts DEF AttachRead
  <1> QED
    BY <1>3, <1>5, <1>6, AdmissionFacts, AdmissionSteps DEF AttachRead

LEMMA AttachCheckKeeps ==
    ASSUME HandoffInv, NEW r \in Runs, AttachCheck(r)
    PROVE  HandoffInv'
  <1> PICK seen \in Row : seen = attach[r].seen
    BY AdmissionFacts
  <1>1. /\ attach[r].pc = "check" /\ r \notin current
        /\ UNCHANGED <<worker, effect, unsynced, copier, faults>>
    BY AdmissionFacts DEF AttachCheck
  <1>2. seen.run \in Runs \union {0} /\ seen.generation \in Runs \union {0}
    BY DEF Row
  <1>3. seen.generation # 0 =>
          /\ seen.run = seen.generation /\ Past(seen.run)
          /\ seen.phase = "committed" => Spent(seen.run)
    BY <1>1, AdmissionFacts DEF AdmissionIsTrue
  <1>4. CASE AttachFails(r) /\ UNCHANGED <<row, current>>
    BY <1>1, <1>4, AdmissionFails
  <1>5. CASE /\ seen.phase = "committed" /\ row.phase = "committed"
             /\ Put([row EXCEPT !.pending = 0]) /\ Admits(r, seen.run, seen.generation)
    <2> DEFINE next == [row EXCEPT !.pending = 0]
    <2>1. /\ next \in Row /\ next.run = row.run /\ next.generation = row.generation
          /\ next.phase = row.phase /\ next.source = row.source
          /\ next.lease = row.lease /\ next.leaseState = row.leaseState
      BY AdmissionFacts DEF Row
    <2>2. row' = next /\ current' = {}
      BY <1>5 DEF Put
    <2> HIDE DEF next
    <2>3. /\ attach' \in [Runs -> Admission] /\ \A s \in Runs \ {r} : attach'[s] = attach[s]
          /\ attach'[r].pc = "write" /\ attach'[r].run = seen.run
          /\ attach'[r].generation = seen.generation
      BY <1>2, <1>5, Admitting
    <2>4. AdmissionIsTrue(r)'
      BY <1>1, <1>3, <1>5, <2>1, <2>2, <2>3 DEF AdmissionIsTrue, Spent, Past
    <2> QED
      BY <1>1, <2>1, <2>2, <2>3, <2>4, AdmissionSteps
  <1>6. CASE /\ Admits(r, seen.run, seen.generation) /\ UNCHANGED <<row, current>>
             /\ \/ seen.phase = "none" /\ (seen.run \notin {0, r} /\ seen.generation # 0
                                             => SourceStopped(seen.run))
                \/ seen.phase = "committed"
                \/ seen.run = r
    <2>1. /\ attach' \in [Runs -> Admission] /\ \A s \in Runs \ {r} : attach'[s] = attach[s]
          /\ attach'[r].pc = "write" /\ attach'[r].run = seen.run
          /\ attach'[r].generation = seen.generation
      BY <1>2, <1>6, Admitting
    <2>2. AdmissionIsTrue(r)'
      BY <1>1, <1>3, <1>6, <2>1 DEF AdmissionIsTrue, Spent, Past, SourceStopped
    <2> QED
      BY <1>1, <1>6, <2>1, <2>2, AdmissionFacts, AdmissionSteps
  <1>7. CASE attach' = [attach EXCEPT ![r].pc = "recover"] /\ UNCHANGED <<row, current>>
    <2>1. /\ attach' \in [Runs -> Admission] /\ \A s \in Runs \ {r} : attach'[s] = attach[s]
          /\ attach'[r].pc = "recover"
      BY <1>7, AdmissionFacts DEF Admission
    <2>2. AdmissionIsTrue(r)'
      BY <2>1 DEF AdmissionIsTrue
    <2> QED
      BY <1>1, <1>7, <2>1, <2>2, AdmissionFacts, AdmissionSteps
  <1> QED
    BY <1>4, <1>5, <1>6, <1>7 DEF AttachCheck

LEMMA RecoverReadKeeps ==
    ASSUME HandoffInv, NEW r \in Runs, RecoverRead(r)
    PROVE  HandoffInv'
  <1>1. /\ attach[r].pc = "recover" /\ r \notin current
        /\ UNCHANGED <<row, worker, effect, unsynced, copier, faults>>
    BY AdmissionFacts DEF RecoverRead
  <1>2. CASE AttachFails(r) /\ UNCHANGED current
    BY <1>1, <1>2, AdmissionFails
  <1>3. CASE /\ row.phase \notin {"none", "committed"} /\ SourceStopped(row.run)
             /\ attach' = [attach EXCEPT ![r].pc = "reset"] /\ current' = current \union {r}
    <2>1. /\ attach' \in [Runs -> Admission] /\ \A s \in Runs \ {r} : attach'[s] = attach[s]
          /\ attach'[r].pc = "reset"
      BY <1>3, AdmissionFacts DEF Admission
    <2>2. AdmissionIsTrue(r)'
      BY <2>1 DEF AdmissionIsTrue
    <2> QED
      BY <1>1, <1>3, <2>1, <2>2, AdmissionFacts, AdmissionSteps
  <1> QED
    BY <1>2, <1>3 DEF RecoverRead

LEMMA ResetKeeps ==
    ASSUME HandoffInv, NEW r \in Runs, Reset(r)
    PROVE  HandoffInv'
  <1>1. UNCHANGED <<worker, effect, unsynced, copier, faults>>
    BY DEF Reset
  <1>2. CASE r \notin current
    BY <1>1, <1>2, AdmissionFails DEF Reset
  <1>3. CASE r \in current
    <2> DEFINE next == [row EXCEPT !.phase = "none", !.source = 0, !.generation = 0, !.lease = NoFork]
    <2>1. next \in Row /\ next.generation = 0 /\ next.phase = "none"
      BY AdmissionFacts DEF Row, Phases
    <2>2. row' = next /\ current' = {} /\ Admits(r, attach[r].seen.run, 0)
      BY <1>3 DEF Reset, Put
    <2> HIDE DEF next
    <2>3. SourceStopped(row.run) /\ row.phase # "committed"
      BY <1>3 DEF HandoffInv, RecoveriesAreTrue
    <2>4. \A s \in Runs : ~Live(s)
      BY <2>3, WorkerFacts DEF WorkerOwns, Live, Owns, SourceStopped
    <2>5. attach[r].seen.run \in Runs \union {0}
      BY AdmissionFacts DEF Row
    <2>6. /\ attach' \in [Runs -> Admission] /\ \A s \in Runs \ {r} : attach'[s] = attach[s]
          /\ attach'[r].pc = "write" /\ attach'[r].generation = 0
      BY <2>2, <2>5, Admitting
    <2>7. AdmissionIsTrue(r)'
      BY <2>6 DEF AdmissionIsTrue
    <2> QED
      BY <1>1, <2>1, <2>2, <2>3, <2>4, <2>6, <2>7, RootIsFree
  <1> QED
    BY <1>2, <1>3

LEMMA AttachWriteKeeps ==
    ASSUME HandoffInv, NEW r \in Runs, AttachWrite(r)
    PROVE  HandoffInv'
  <1>1. /\ attach[r].pc = "write" /\ r \notin current
        /\ UNCHANGED <<worker, effect, unsynced, copier, faults>>
    BY AdmissionFacts DEF AttachWrite
  <1>2. CASE AttachFails(r) /\ UNCHANGED <<row, current>>
    BY <1>1, <1>2, AdmissionFails
  <1>3. CASE attach' = [attach EXCEPT ![r] = [Idle EXCEPT !.pc = "done"]]
    <2> DEFINE done == [Idle EXCEPT !.pc = "done"]
    <2>1. done \in Admission /\ done.pc = "done"
      BY AdmissionFacts DEF Admission, Idle
    <2> HIDE DEF done
    <2>2. /\ attach' \in [Runs -> Admission] /\ \A s \in Runs \ {r} : attach'[s] = attach[s]
          /\ attach'[r].pc = "done"
      BY <1>3, <2>1, AdmissionFacts DEF done
    <2>3. AdmissionIsTrue(r)'
      BY <2>2 DEF AdmissionIsTrue
    <2>4. CASE UNCHANGED <<row, current>>
      BY <1>1, <2>2, <2>3, <2>4, AdmissionFacts, AdmissionSteps
    <2>5. CASE Put([row EXCEPT !.pending = r])
      <3> DEFINE next == [row EXCEPT !.pending = r]
      <3>1. /\ next \in Row /\ next.run = row.run /\ next.generation = row.generation
            /\ next.phase = row.phase /\ next.source = row.source
            /\ next.lease = row.lease /\ next.leaseState = row.leaseState
        BY AdmissionFacts DEF Row
      <3>2. row' = next /\ current' = {}
        BY <2>5 DEF Put
      <3> HIDE DEF next
      <3> QED
        BY <1>1, <2>2, <2>3, <3>1, <3>2, AdmissionSteps
    <2>6. CASE /\ Put([row EXCEPT !.run = r, !.generation = 0])
               /\ row.run # r /\ row.phase = "none"
               /\ row.run = attach[r].run /\ row.generation = attach[r].generation
      <3> DEFINE next == [row EXCEPT !.run = r, !.generation = 0]
      <3>1. next \in Row /\ next.generation = 0 /\ next.phase = "none"
        BY <2>6, AdmissionFacts DEF Row
      <3>2. row' = next /\ current' = {}
        BY <2>6 DEF Put
      <3> HIDE DEF next
      <3>3. \A s \in Runs : ~Live(s)
        <4> SUFFICES ASSUME NEW s \in Runs, Live(s) PROVE FALSE
          OBVIOUS
        <4>1. row.run = s /\ row.generation = s /\ s # 0
          BY WorkerFacts DEF WorkerOwns, Owns, Runs
        <4>2. SourceStopped(s) \/ Spent(s)
          BY <1>1, <2>6, <4>1, AdmissionFacts DEF AdmissionIsTrue
        <4> QED
          BY <2>6, <4>1, <4>2 DEF SourceStopped, Spent, Live
      <3> QED
        BY <1>1, <2>2, <2>3, <2>6, <3>1, <3>2, <3>3, RootIsFree
    <2> QED
      BY <1>1, <1>3, <2>4, <2>5, <2>6 DEF AttachWrite, AttachFails
  <1> QED
    BY <1>2, <1>3 DEF AttachWrite

-----------------------------------------------------------------------------
(* The invariant and the theorems *)

LEMMA HandoffInitially == Assumptions /\ Init => HandoffInv
  <1> SUFFICES ASSUME Assumptions, Init PROVE HandoffInv
    OBVIOUS
  <1>1. NewEnvironment \in Row
    BY DEF NewEnvironment, Row, Phases
  <1>2. /\ row = NewEnvironment /\ row.generation = 0 /\ row.phase = "none" /\ current = {}
        /\ effect = {}
    BY DEF Init, NewEnvironment
  <1>3. \A r \in Runs : attach[r] = Idle /\ Idle.pc = "idle" /\ worker[r] = "none"
    BY DEF Init, Idle
  <1>4. TypeOK
    BY <1>1 DEF Init, TypeOK, Idle, WorkerPc, Assumptions
  <1>5. GenerationIsOfRun /\ CommittedIsQuiet /\ RecoveriesAreTrue
    BY <1>2 DEF GenerationIsOfRun, CommittedIsQuiet, RecoveriesAreTrue
  <1>6. CopiesAreLeased
    BY DEF Init, CopiesAreLeased
  <1>7. \A r \in Runs : WorkerOwns(r) /\ AdmissionIsTrue(r)
    BY <1>2, <1>3 DEF WorkerOwns, Live, AdmissionIsTrue
  <1> QED
    BY <1>4, <1>5, <1>6, <1>7 DEF HandoffInv

LEMMA HandoffStep == HandoffInv /\ [Next]_vars => HandoffInv'
  <1> SUFFICES ASSUME HandoffInv, [Next]_vars PROVE HandoffInv'
    OBVIOUS
  <1>1. CASE UNCHANGED vars
    BY <1>1, RowStays DEF vars, HandoffInv, TypeOK, CopiesAreLeased
  <1>2. ASSUME NEW r \in Runs,
               AttachRead(r) \/ AttachCheck(r) \/ RecoverRead(r) \/ Reset(r) \/ AttachWrite(r)
        PROVE  HandoffInv'
    BY <1>2, AttachReadKeeps, AttachCheckKeeps, RecoverReadKeeps, ResetKeeps, AttachWriteKeeps
  <1>3. ASSUME NEW r \in Runs,
               \/ Launch(r) \/ PrepareWorker(r) \/ Adopt(r) \/ Bind(r) \/ Ready(r) \/ Write(r)
               \/ EffectStarts(r) \/ EffectEnds(r) \/ KeepAlive(r)
        PROVE  HandoffInv'
    BY <1>3, LaunchKeeps, PrepareWorkerKeeps, AdoptKeeps, BindKeeps, ReadyKeeps, WriteKeeps,
       EffectKeeps, KeepAliveKeeps
  <1>4. ASSUME NEW r \in Runs,
               \/ Seal(r) \/ InspectIdle(r) \/ Begin(r) \/ ShutdownNative(r) \/ SyncStorage(r)
               \/ Commit(r) \/ Abort(r) \/ Crash(r)
        PROVE  HandoffInv'
    BY <1>4, SealKeeps, InspectIdleKeeps, BeginKeeps, ShutdownNativeKeeps, SyncStorageKeeps,
       CommitKeeps, AbortKeeps, CrashKeeps
  <1>5. ASSUME NEW f \in Forks,
               LeaseSnapshot(f) \/ CopyTree(f) \/ PublishSnapshot(f) \/ ReleaseFork(f)
        PROVE  HandoffInv'
    BY <1>5, LeaseSnapshotKeeps, CopyTreeKeeps, ForkKeeps
  <1>6. CASE HandoffExpires \/ LeaseTime \/ Retire
    BY <1>6, TimeKeeps
  <1> QED
    BY <1>1, <1>2, <1>3, <1>4, <1>5, <1>6 DEF Next

LEMMA HandoffInvariant == Assumptions /\ Spec => []HandoffInv
  <1> QED
    BY HandoffInitially, HandoffStep, PTL DEF Spec

\* The environment record, its admissions, workers and copiers stay in their types.
THEOREM HandoffTypes == Assumptions /\ Spec => []TypeOK
  <1>1. HandoffInv => TypeOK
    BY DEF HandoffInv
  <1> QED
    BY <1>1, HandoffInvariant, PTL

\* For any number of Runs, forks, crashes and lost answers: two workers never write to one durable
\* root, none writes while a fork copies it, and a committed checkpoint is complete and quiet.
THEOREM KeptWorkspace == Assumptions /\ Spec => []WorkspaceIsKept
  <1>1. HandoffInv => RootHasOneUser
    <2> SUFFICES ASSUME HandoffInv, NEW r \in Runs, Writing(r)
                 PROVE  /\ \A s \in Runs : Writing(s) => r = s
                        /\ \A f \in Forks : copier[f] # "copy"
      BY DEF RootHasOneUser
    <2>1. \A s \in Runs : Writing(s) => Live(s) /\ Owns(s)
      BY WorkerFacts DEF Writing, WorkerOwns, Live
    <2>2. row.phase # "committed"
      BY WorkerFacts DEF Writing, WorkerOwns
    <2> QED
      BY <2>1, <2>2, NoCopies DEF Owns
  <1>2. HandoffInv => CheckpointIsComplete
    <2> SUFFICES ASSUME HandoffInv, row.phase = "committed"
                 PROVE  row.source \notin unsynced /\ ~Writing(row.source)
      BY DEF CheckpointIsComplete
    <2>1. /\ row.source = row.run /\ worker[row.run] \in {"undo", "stopped"}
          /\ row.run \notin unsynced
      BY DEF HandoffInv, CommittedIsQuiet
    <2>2. row.run \notin effect
      BY <2>1 DEF HandoffInv, TypeOK, WorkerOwns
    <2> QED
      BY <2>1, <2>2 DEF Writing
  <1>3. HandoffInv => WorkspaceIsKept
    BY <1>1, <1>2 DEF WorkspaceIsKept
  <1> QED
    BY <1>3, HandoffInvariant, PTL
=============================================================================
