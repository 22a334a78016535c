---------------------------- MODULE LocalTransfer ----------------------------
(***************************************************************************)
(* The local workspace of one computer and a Session copied from it to a   *)
(* deployment.  Processes of the command line and the desktop look for a   *)
(* local service or become it (local-workspace, local-server,              *)
(* local-composition, the lease of sqlite-agents-store); the service that  *)
(* holds the lease takes a snapshot of an idle Session (SessionService     *)
(* .snapshotForTransfer) and copies it in parts (local-transfer); the      *)
(* archive and the program that restores it are pure (workspace-transfer). *)
(*                                                                         *)
(* SQLite and the service's own steps between two awaits of the network    *)
(* run without interleaving: a read, a test and a write of the local store *)
(* are one step.                                                           *)
(***************************************************************************)
EXTENDS Naturals, Sequences, FiniteSets, SequencesExt

CONSTANTS
    LastProcess,  \* bound on the processes of the computer; one that ended is not used again
    Attempts,     \* how often a process whose start failed looks again; ten in the code
    Bytes, Chunk, \* the length of the archive and of a part, in units of a MiB
    LastTurn,     \* bound on the turns of the Session
    LastWrite,    \* bound on what its agents write
    LastTick,     \* bound on the clock; a lock lasts one tick
    Trees,        \* workspaces, each a set of entries
    MaxFaults     \* bound on crashes, refused calls, lost answers and failed writes

Assumptions ==
    /\ LastProcess \in Nat \ {0} /\ Attempts \in Nat /\ Bytes \in Nat \ {0} /\ Chunk \in Nat \ {0}
    /\ LastTurn \in Nat /\ LastWrite \in Nat /\ LastTick \in Nat /\ MaxFaults \in Nat

Processes == 1 .. LastProcess

VARIABLES
    proc,      \* where each process is
    left,      \* the attempts it has left
    lease,     \* the process of the row server_lease, 0 when there is none
    link,      \* the process whose address and token connection.json holds, 0 when there is no file
    source,    \* the Session: its turns, its agent, its files and the lock of a snapshot
    clock,
    hosted,    \* the Session has a managed environment, hence files
    plan,      \* the stored transfer
    task,      \* the work on it in each process
    cloud,     \* the files and the Session of the destination
    faults

vars == <<proc, left, lease, link, source, clock, hosted, plan, task, cloud, faults>>

NoTask == [pc |-> "none", history |-> 0, first |-> [by |-> 0, n |-> 0], second |-> [by |-> 0, n |-> 0], file |-> 0]
NoPlan == [status |-> "none", reviewed |-> {}, ids |-> <<>>, posted |-> {}, answered |-> FALSE]

\* Types of the processes, the Session, the transfer and the destination.
TypeOK ==
    /\ proc \in [Processes -> {"new", "start", "retry", "user", "listen", "owner", "stopping", "draining", "gone", "dead"}]
    /\ left \in [Processes -> 0 .. Attempts]
    /\ lease \in 0 .. LastProcess /\ link \in 0 .. LastProcess
    /\ source.history \in 0 .. LastTurn /\ source.running \in BOOLEAN /\ source.agent \in BOOLEAN
    /\ source.files.by \in 0 .. LastTurn /\ source.files.n \in 0 .. LastWrite
    /\ source.lock \in 0 .. LastProcess /\ source.expires \in 0 .. LastTick + 1
    /\ clock \in 0 .. LastTick /\ hosted \in BOOLEAN
    /\ plan.status \in {"none", "preparing", "ready", "uploading", "importing", "complete", "failed"}
    /\ Cardinality(plan.reviewed) <= 1 /\ Cardinality(plan.posted) <= 1
    /\ \A p \in Processes : task[p].pc \in
           {"none", "plan", "lock", "close", "read", "rest", "check", "copy", "upload", "note", "post", "finish"}
    /\ Cardinality(cloud.session) <= 1
    /\ faults \in 0 .. MaxFaults

Init ==
    /\ proc = [p \in Processes |-> "new"] /\ left = [p \in Processes |-> Attempts]
    /\ lease = 0 /\ link = 0 /\ clock = 0 /\ hosted \in BOOLEAN
    /\ source = [history |-> 0, running |-> FALSE, agent |-> FALSE, files |-> [by |-> 0, n |-> 0], lock |-> 0, expires |-> 0]
    /\ plan = NoPlan /\ task = [p \in Processes |-> NoTask]
    /\ cloud = [files |-> <<>>, session |-> {}]
    /\ faults = 0

Fault == faults < MaxFaults /\ faults' = faults + 1
processes == <<proc, left, lease, link>>
work == <<source, plan, task, cloud>>
Become(p, state) == proc' = [proc EXCEPT ![p] = state]

-----------------------------------------------------------------------------
(* The service of this computer.                                           *)

\* reachable: the file names a service that answers; one that stops answers 503.
Reachable == link # 0 /\ proc[link] = "owner"

\* connectLocalWorkspace: an existing service is used, else this process starts one.
Connect(p) ==
    /\ proc[p] = "new" /\ Become(p, IF Reachable THEN "user" ELSE "start")
    /\ UNCHANGED <<left, lease, link, work, clock, hosted, faults>>

\* acquireServerLease: a row of a process that is alive refuses.
Free == lease = 0 \/ proc[lease] \in {"gone", "dead"}
Acquire(p) ==
    /\ proc[p] = "start"
    /\ IF Free THEN lease' = p /\ Become(p, "listen") ELSE Become(p, "retry") /\ UNCHANGED lease
    /\ UNCHANGED <<left, link, work, clock, hosted, faults>>

\* startLocalServer: the address is published by a rename; a failure closes the services again.
Listen(p) ==
    /\ proc[p] = "listen"
    /\ \/ link' = p /\ Become(p, "owner") /\ UNCHANGED <<lease, faults>>
       \/ Fault /\ lease' = 0 /\ Become(p, "retry") /\ UNCHANGED link
    /\ UNCHANGED <<left, work, clock, hosted>>

\* A start that failed may have lost to another process, whose service then answers.
Retry(p) ==
    /\ proc[p] = "retry"
    /\ IF Reachable THEN Become(p, "user") /\ UNCHANGED left
       ELSE IF left[p] > 0 THEN left' = [left EXCEPT ![p] = @ - 1] /\ UNCHANGED proc
       ELSE Become(p, "gone") /\ UNCHANGED left
    /\ UNCHANGED <<lease, link, work, clock, hosted, faults>>

\* close: requests are refused and settle, then the file goes.
Stop(p) ==
    /\ proc[p] = "owner" /\ Become(p, "stopping")
    /\ UNCHANGED <<left, lease, link, work, clock, hosted, faults>>
Unlink(p) ==
    /\ proc[p] = "stopping" /\ link' = 0 /\ Become(p, "draining")
    /\ UNCHANGED <<left, lease, work, clock, hosted, faults>>

\* Mutant: the lease is released while a transfer still runs
MutantRelease(p) ==
    /\ proc[p] = "draining" /\ lease' = 0 /\ Become(p, "gone")
    /\ source' = [source EXCEPT !.agent = FALSE]
    /\ UNCHANGED <<left, link, plan, task, cloud, clock, hosted, faults>>

\* createLocalServices.close: transfers and agents end before the lease is released.
Release(p) ==
    /\ proc[p] = "draining" /\ task[p].pc = "none"
    /\ lease' = 0 /\ Become(p, "gone")
    /\ source' = [source EXCEPT !.agent = FALSE]
    /\ UNCHANGED <<left, link, plan, task, cloud, clock, hosted, faults>>

\* A process dies and its work with it; the row, the file and an agent's machine stay.
Crash(p) ==
    /\ Fault /\ proc[p] \in {"listen", "owner", "stopping", "draining"} /\ Become(p, "dead")
    /\ task' = [task EXCEPT ![p] = NoTask]
    /\ UNCHANGED <<left, lease, link, source, plan, cloud, clock, hosted>>

-----------------------------------------------------------------------------
(* The Session, its agent and the clock.                                   *)

Tick == clock < LastTick /\ clock' = clock + 1 /\ UNCHANGED <<processes, work, hosted, faults>>

\* requireSessionMutable and the lock that expires.
Locked == source.lock # 0 /\ source.expires > clock
Serving == \E p \in Processes : proc[p] = "owner"

StartTurn ==
    /\ Serving /\ ~Locked /\ ~source.running /\ source.history < LastTurn
    /\ source' = [source EXCEPT !.running = TRUE, !.agent = hosted]
    /\ UNCHANGED <<processes, plan, task, cloud, clock, hosted, faults>>

\* What an agent leaves running goes on writing when its turn has ended.
AgentWrites ==
    /\ source.agent /\ source.files.n < LastWrite
    /\ source' = [source EXCEPT !.files = [by |-> source.history + IF source.running THEN 1 ELSE 0, n |-> @.n + 1]]
    /\ UNCHANGED <<processes, plan, task, cloud, clock, hosted, faults>>

EndTurn ==
    /\ source.running
    /\ source' = [source EXCEPT !.running = FALSE, !.history = @ + 1]
    /\ UNCHANGED <<processes, plan, task, cloud, clock, hosted, faults>>

-----------------------------------------------------------------------------
(* The transfer.                                                           *)

At(p, pc) == task[p].pc = pc /\ proc[p] \in {"owner", "stopping", "draining"}
Goto(p, pc) == task' = [task EXCEPT ![p].pc = pc]

\* create: the plan is stored and prepared.
Create(p) ==
    /\ proc[p] = "owner" /\ plan.status = "none"
    /\ plan' = [plan EXCEPT !.status = "preparing"] /\ Goto(p, "plan")
    /\ UNCHANGED <<processes, source, cloud, clock, hosted, faults>>

\* execute: what is complete or under way is left alone, the rest resumes where its record says.
Execute(p) ==
    /\ proc[p] = "owner" /\ task[p].pc = "none" /\ plan.status \notin {"none", "complete"}
    /\ plan' = [plan EXCEPT !.status = IF plan.posted # {} THEN "importing"
                                       ELSE IF plan.reviewed # {} THEN "uploading" ELSE "preparing"]
    /\ Goto(p, IF plan.reviewed # {} THEN "copy" ELSE "plan")
    /\ UNCHANGED <<processes, source, cloud, clock, hosted, faults>>

\* schedule: a failure is written down, unless the store fails too.
Failed(p) == task' = [task EXCEPT ![p] = NoTask] /\ plan' \in {[plan EXCEPT !.status = "failed"], plan}

\* finally: a snapshot that ends takes its own lock away.
Unlocked(p) == [source EXCEPT !.lock = IF @ = p THEN 0 ELSE @]

\* readModels: a catalogue that is late, too long or not one, as the deployment that does not answer.
Unavailable == Fault

\* preflight: the destination supports imports and has the model.
Preflight(p) ==
    /\ \/ At(p, "plan") /\ Goto(p, "lock") /\ UNCHANGED <<plan, faults>>
       \/ At(p, "copy") /\ plan.posted = {} /\ Goto(p, "upload") /\ UNCHANGED <<plan, faults>>
       \/ task[p].pc \in {"plan", "copy"} /\ plan.posted = {} /\ At(p, task[p].pc) /\ Unavailable /\ Failed(p)
    /\ UNCHANGED <<processes, source, cloud, clock, hosted>>

\* snapshotForTransfer: an idle Session that nobody changes is locked, and its history taken.
Lock(p) ==
    /\ At(p, "lock")
    /\ IF ~Locked /\ ~source.running
       THEN /\ source' = [source EXCEPT !.lock = p, !.expires = clock + 1]
            /\ task' = [task EXCEPT ![p].pc = "close", ![p].history = source.history]
            /\ UNCHANGED plan
       ELSE Failed(p) /\ UNCHANGED source
    /\ UNCHANGED <<processes, cloud, clock, hosted, faults>>

\* execution.close: writers are stopped before the workspace is read.
Close(p) ==
    /\ At(p, "close") /\ Goto(p, "read")
    /\ source' = [source EXCEPT !.agent = FALSE, !.running = FALSE, !.history = IF source.running THEN @ + 1 ELSE @]
    /\ UNCHANGED <<processes, plan, cloud, clock, hosted, faults>>

\* readWorkspace takes a while.
Read(p) ==
    /\ \/ At(p, "read") /\ task' = [task EXCEPT ![p].pc = "rest", ![p].first = source.files] /\ UNCHANGED <<source, plan, faults>>
       \/ At(p, "rest") /\ task' = [task EXCEPT ![p].pc = "check", ![p].second = source.files] /\ UNCHANGED <<source, plan, faults>>
       \/ At(p, "rest") /\ Fault /\ source' = Unlocked(p) /\ Failed(p)
    /\ UNCHANGED <<processes, cloud, clock, hosted>>

\* prepare: what the user reviews and a copy sends.
Reviewed(p) ==
    [plan EXCEPT !.status = "ready",
                 !.reviewed = {[history |-> task[p].history, first |-> task[p].first, second |-> task[p].second]}]

\* The lock must still be held; prepare then stores the reviewed snapshot.
Check(p) ==
    /\ At(p, "check") /\ source' = Unlocked(p)
    /\ IF source.lock = p /\ source.expires > clock
       THEN /\ plan' = Reviewed(p)
            /\ task' = [task EXCEPT ![p] = NoTask]
       ELSE Failed(p)
    /\ UNCHANGED <<processes, cloud, clock, hosted, faults>>

\* A part of an archive, and how many there are.
Parts == IF hosted THEN (Bytes + Chunk - 1) \div Chunk ELSE 0
Part(index) ==
    LET end == index * Chunk + Chunk
    IN  [j \in 1 .. (IF end > Bytes THEN Bytes ELSE end) - index * Chunk |-> index * Chunk + j]
Uploaded == [of |-> plan.reviewed, bytes |-> Part(Len(plan.ids))]

\* copy: a part is uploaded; its answer may be lost and the part uploaded again later.
Upload(p) ==
    /\ At(p, "upload") /\ Len(plan.ids) < Parts
    /\ \/ /\ cloud' = [cloud EXCEPT !.files = Append(@, Uploaded)]
          /\ task' = [task EXCEPT ![p].pc = "note", ![p].file = Len(cloud.files) + 1]
          /\ UNCHANGED <<plan, faults>>
       \/ Fault /\ cloud' = [cloud EXCEPT !.files = Append(@, Uploaded)] /\ Failed(p)
    /\ UNCHANGED <<processes, source, clock, hosted>>

Note(p) ==
    /\ At(p, "note")
    /\ \/ plan' = [plan EXCEPT !.ids = Append(@, task[p].file)] /\ Goto(p, "upload") /\ UNCHANGED faults
       \/ Fault /\ Failed(p)
    /\ UNCHANGED <<processes, source, cloud, clock, hosted>>

\* The import is stored before it is posted; a later copy posts what is stored.
Save(p) ==
    /\ \/ At(p, "upload") /\ Len(plan.ids) = Parts
       \/ At(p, "copy") /\ plan.posted # {}
    /\ plan' = [plan EXCEPT !.status = "importing", !.posted = IF @ = {} THEN {plan.ids} ELSE @]
    /\ Goto(p, "post")
    /\ UNCHANGED <<processes, source, cloud, clock, hosted, faults>>

\* The destination makes one Session of a transfer and refuses other content for it.
Post(p) ==
    /\ At(p, "post")
    /\ \/ /\ cloud.session \subseteq plan.posted
          /\ cloud' = [cloud EXCEPT !.session = plan.posted]
          /\ \/ Goto(p, "finish") /\ UNCHANGED <<plan, faults>>
             \/ Fault /\ Failed(p)
       \/ ~(cloud.session \subseteq plan.posted) /\ Failed(p) /\ UNCHANGED <<cloud, faults>>
       \/ Fault /\ Failed(p) /\ UNCHANGED cloud
    /\ UNCHANGED <<processes, source, clock, hosted>>

Finish(p) ==
    /\ At(p, "finish")
    /\ plan' = [plan EXCEPT !.status = "complete", !.answered = TRUE]
    /\ task' = [task EXCEPT ![p] = NoTask]
    /\ UNCHANGED <<processes, source, cloud, clock, hosted, faults>>

Next ==
    \/ Tick \/ StartTurn \/ AgentWrites \/ EndTurn
    \/ \E p \in Processes :
        \/ Connect(p) \/ Acquire(p) \/ Listen(p) \/ Retry(p) \/ Stop(p) \/ Unlink(p) \/ Release(p) \/ Crash(p)
        \/ Create(p) \/ Execute(p) \/ Preflight(p) \/ Lock(p) \/ Close(p) \/ Read(p) \/ Check(p)
        \/ Upload(p) \/ Note(p) \/ Save(p) \/ Post(p) \/ Finish(p)

Spec == Init /\ [][Next]_vars

-----------------------------------------------------------------------------
(* The archive of a workspace and the program that restores it.  An entry  *)
(* has a path, a kind, a link's target and whether its mode lets others be *)
(* created in it.                                                          *)

\* A joined path without its dots.
Normal(path) ==
    FoldLeft(LAMBDA seen, x : IF x = ".." /\ seen # <<>> /\ Last(seen) # ".." THEN Front(seen) ELSE Append(seen, x), <<>>, path)
Leaves(e) ==
    e.kind = "link" /\ (Head(e.to) = "/" \/ LET t == Normal(Front(e.path) \o e.to) IN t # <<>> /\ Head(t) = "..")

\* The exporter: directories before what they hold; what cannot be copied fails it all.
Kept(tree) == {e \in tree : Head(e.path) # ".rat-transfer"}
Exports(tree) ==
    IF \E e \in Kept(tree) : Leaves(e) \/ e.kind \notin {"file", "directory", "link"} THEN {}
    ELSE {s \in SetToSeqs(Kept(tree)) :
            \A i, j \in 1 .. Len(s) : i < j => ~IsStrictPrefix(s[j].path, s[i].path)}

\* archiveWorkspace: paths are relative, plain, not reserved and different.
Archivable(s) ==
    /\ \A i \in 1 .. Len(s) : s[i].path # <<>> /\ {".", "..", "", "/"} \intersect Range(s[i].path) = {}
                              /\ Head(s[i].path) # ".rat-transfer" /\ ~Leaves(s[i])
    /\ \A i, j \in 1 .. Len(s) : s[i].path = s[j].path => i = j

Broken == [path |-> <<>>, kind |-> "failed", to |-> <<>>, open |-> FALSE]

\* One entry in the workspace of the destination; missing directories are made.
Placed(made, e) ==
    LET above == {SubSeq(e.path, 1, k) : k \in 1 .. Len(e.path) - 1}
        at(path) == {m \in made : m.path = path}
        refused == \/ \E path \in above : \E m \in at(path) : m.kind # "directory" \/ ~m.open
                   \/ \E m \in at(e.path) : m.kind = "link" \/ m.kind # e.kind
        new == {path \in above : at(path) = {}}
    IN  IF refused THEN {Broken}
        ELSE (made \ at(e.path)) \union {[e EXCEPT !.open = TRUE]}
             \union {[path |-> path, kind |-> "directory", to |-> <<>>, open |-> TRUE] : path \in new}

\* restoreWorkspaceCommand: the modes of directories come last.
Restored(s) ==
    LET made == FoldLeft(LAMBDA seen, e : IF seen = {Broken} THEN seen ELSE Placed(seen, e), {}, s)
    IN  IF made = {Broken} THEN made
        ELSE {IF \E e \in Range(s) : e.path = m.path THEN CHOOSE e \in Range(s) : e.path = m.path ELSE m : m \in made}

-----------------------------------------------------------------------------
(* Properties.                                                             *)

\* A workspace that is exported can be archived, and its archive restores it, whatever the modes of
\* its directories and the order they were read in.
RestoreInverts ==
    \A tree \in Trees : \A s \in Exports(tree) : Archivable(s) /\ Restored(s) = Kept(tree)

\* One process serves the workspace, also while one of them stops or starts after a crash; the file
\* of the address never names a live process that is not the one.
OneService ==
    /\ \A p, q \in Processes : proc[p] \in {"listen", "owner", "stopping", "draining"}
                              /\ proc[q] \in {"listen", "owner", "stopping", "draining"} => p = q
    /\ \A p, q \in Processes : task[p].pc # "none" /\ task[q].pc # "none" => p = q
    /\ link # 0 /\ proc[link] # "dead" => lease = link

\* A reviewed snapshot is of one moment: no file changed while it was read and none is of a turn
\* its history does not have, whoever wrote to the Session when the lock had expired.
SnapshotIsQuiet ==
    \A s \in plan.reviewed : s.first = s.second /\ s.first.by <= s.history

\* The destination's Session is made of the parts of the reviewed snapshot, each once and in order,
\* whatever was uploaded twice; a transfer that says complete has one.
CopyIsTheSnapshot ==
    /\ \A ids \in cloud.session :
          /\ \A i \in 1 .. Len(ids) : cloud.files[ids[i]].of = plan.reviewed
          /\ FlattenSeq([i \in 1 .. Len(ids) |-> cloud.files[ids[i]].bytes]) = IF hosted THEN [j \in 1 .. Bytes |-> j] ELSE <<>>
    /\ plan.status = "complete" => cloud.session # {}

TransferIsSafe == RestoreInverts /\ OneService /\ SnapshotIsQuiet /\ CopyIsTheSnapshot
=============================================================================
