----------------------------- MODULE SessionFork -----------------------------
(***************************************************************************)
(* SessionService.fork makes a child of an idle Session: it locks the      *)
(* source for a while, has its workspace checkpointed and the checkpoint   *)
(* leased, prepares the child, and commits it together with a write of the *)
(* source.  The child's worker copies the checkpoint under the lease and   *)
(* gives the source free.  Lock, lease and preparation expire by the       *)
(* clock; the source's other writers respect the lock, and the next worker *)
(* of the source respects the lease.                                       *)
(***************************************************************************)
EXTENDS Naturals

CONSTANTS
    Forkers,   \* calls of fork; also the child's id, and the id of its lock, lease and preparation
    LastTurn,  \* bound: turns of the source
    Life,      \* 300 s
    LastTick,  \* bound: the clock
    Profiles   \* bound: who forks, after how many turns, and how many processes end, calls fail or answers are lost

Assumptions ==
    /\ LastTurn \in Nat /\ Life \in Nat \ {0} /\ LastTick \in Nat
    /\ \A profile \in Profiles :
          profile.who \subseteq Forkers /\ profile.turn \in 0..LastTurn /\ profile.faults \in Nat

VARIABLES
    source,      \* sessions: its latest root turn, whether it runs, the lock
    env,         \* the source's environment: the latest checkpoint and who leases it
    root,        \* the latest turn that wrote to the workspace
    forker,
    fresh,       \* forkers whose read of the source is what is stored
    preparation, \* session_preparations of the children
    child,       \* sessions of the children
    clock,
    faults       \* how many are left

vars == <<source, env, root, forker, fresh, preparation, child, clock, faults>>

Held == [id : Forkers, until : Nat]
Start == [pc |-> "read", saw |-> 0, mark |-> 0, until |-> 0, leased |-> FALSE]
NoChild == [status |-> "none", turn |-> 0, mark |-> 0, until |-> 0, copy |-> "none", content |-> 0]

TypeOK ==
    /\ source \in [turn : 0..LastTurn, open : BOOLEAN, lock : SUBSET Held, closing : BOOLEAN]
    /\ env \in [phase : {"live", "committed"}, mark : Nat, turn : 0..LastTurn, lease : SUBSET Held, retired : BOOLEAN]
    /\ root \in 0..LastTurn
    /\ forker \in [Forkers -> [pc : {"read", "lock", "prepare", "checkpoint", "lease", "child", "check", "commit",
                                     "winner", "release", "unlock", "committed", "failed", "lost"},
                               saw : 0..LastTurn, mark : Nat, until : Nat, leased : BOOLEAN]]
    /\ fresh \subseteq Forkers
    /\ preparation \in [Forkers -> [status : {"none", "open", "created", "abandoned"}, deadline : Nat]]
    /\ child \in [Forkers -> [status : {"none", "live"}, turn : 0..LastTurn, mark : Nat, until : Nat,
                              copy : {"none", "copying", "published", "ready", "failed"}, content : 0..LastTurn]]
    /\ clock \in 0..LastTick /\ faults \in Nat

\* The turns there were have completed, and their worker is still there.
Init ==
    \E profile \in Profiles :
        /\ source = [turn |-> profile.turn, open |-> FALSE, lock |-> {}, closing |-> FALSE]
        /\ env = [phase |-> "live", mark |-> 0, turn |-> 0, lease |-> {}, retired |-> FALSE]
        /\ root = profile.turn
        /\ forker = [f \in Forkers |-> IF f \in profile.who THEN Start ELSE [Start EXCEPT !.pc = "failed"]]
        /\ fresh = {}
        /\ preparation = [f \in Forkers |-> [status |-> "none", deadline |-> 0]]
        /\ child = [f \in Forkers |-> NoChild]
        /\ clock = 0 /\ faults = profile.faults

Fault == faults > 0 /\ faults' = faults - 1
At(f, pc) == forker[f].pc = pc
Goes(f, next) == forker' = [forker EXCEPT ![f] = next]
To(f, pc) == Goes(f, [forker[f] EXCEPT !.pc = pc])
Current(held) == {h \in held : clock < h.until}
\* requireSessionMutable
Mutable == ~source.closing /\ Current(source.lock) = {}
SourceIs(value) == source' = value /\ fresh' = {}

(***************************************************************************)
(* The source                                                              *)
(***************************************************************************)
Admit ==
    /\ Mutable /\ ~source.open /\ source.turn < LastTurn
    /\ SourceIs([source EXCEPT !.turn = @ + 1, !.open = TRUE])
    /\ UNCHANGED <<env, root, forker, preparation, child, clock, faults>>

\* planCheckpointAdoption: the next worker takes the checkpoint when nobody copies it.
Adopt ==
    /\ source.open /\ env.phase = "committed" /\ Current(env.lease) = {} /\ ~env.retired
    /\ env' = [env EXCEPT !.phase = "live", !.lease = {}]
    /\ UNCHANGED <<source, root, forker, fresh, preparation, child, clock, faults>>
Work ==
    /\ source.open /\ env.phase = "live" /\ ~env.retired
    /\ root' = source.turn
    /\ UNCHANGED <<source, env, forker, fresh, preparation, child, clock, faults>>
\* It may also have failed before its worker was there.
Complete ==
    /\ source.open
    /\ SourceIs([source EXCEPT !.open = FALSE])
    /\ UNCHANGED <<env, root, forker, preparation, child, clock, faults>>

Committed == [env EXCEPT !.phase = "committed", !.mark = @ + 1, !.turn = root, !.lease = {}]
Hibernate ==
    /\ ~source.open /\ env.phase = "live" /\ ~env.retired
    /\ env' = Committed
    /\ UNCHANGED <<source, root, forker, fresh, preparation, child, clock, faults>>

Delete ==
    /\ Mutable /\ SourceIs([source EXCEPT !.closing = TRUE])
    /\ UNCHANGED <<env, root, forker, preparation, child, clock, faults>>
Retire ==
    /\ source.closing /\ ~env.retired
    /\ env' = [env EXCEPT !.retired = TRUE]
    /\ UNCHANGED <<source, root, forker, fresh, preparation, child, clock, faults>>

(***************************************************************************)
(* fork                                                                    *)
(***************************************************************************)
Read(f) ==
    /\ At(f, "read") /\ Mutable /\ ~source.open /\ source.turn > 0
    /\ Goes(f, [Start EXCEPT !.pc = "lock", !.saw = source.turn, !.until = clock + Life])
    /\ fresh' = fresh \cup {f}
    /\ UNCHANGED <<source, env, root, preparation, child, clock, faults>>

Lock(f) ==
    /\ At(f, "lock")
    /\ IF f \in fresh
       THEN SourceIs([source EXCEPT !.lock = {[id |-> f, until |-> forker[f].until]}]) /\ To(f, "prepare")
       ELSE To(f, "failed") /\ UNCHANGED <<source, fresh>>
    /\ UNCHANGED <<env, root, preparation, child, clock, faults>>
\* The lock is there and nobody will remove it.
LockLost(f) ==
    /\ At(f, "lock") /\ f \in fresh /\ Fault
    /\ SourceIs([source EXCEPT !.lock = {[id |-> f, until |-> forker[f].until]}])
    /\ To(f, "lost")
    /\ UNCHANGED <<env, root, preparation, child, clock>>

Prepare(f) ==
    /\ At(f, "prepare")
    /\ preparation' = [preparation EXCEPT ![f] = [status |-> "open", deadline |-> forker[f].until]]
    /\ To(f, "checkpoint")
    /\ UNCHANGED <<source, env, root, fresh, child, clock, faults>>

\* What is committed will do; otherwise the running worker is asked, and the row read again.
Checkpoint(f) ==
    /\ At(f, "checkpoint")
    /\ IF env.retired \/ (env.phase = "live" /\ source.open) THEN To(f, "release") /\ UNCHANGED env
       ELSE LET taken == IF env.phase = "committed" THEN env ELSE Committed
            IN  env' = taken /\ Goes(f, [forker[f] EXCEPT !.pc = "lease", !.mark = taken.mark])
    /\ UNCHANGED <<source, root, fresh, preparation, child, clock, faults>>

Lease(f) ==
    /\ At(f, "lease")
    /\ IF env.phase = "committed" /\ env.mark = forker[f].mark /\ ~env.retired /\ Current(env.lease) = {}
       THEN /\ env' = [env EXCEPT !.lease = {[id |-> f, until |-> clock + Life]}]
            /\ Goes(f, [forker[f] EXCEPT !.pc = "child", !.leased = TRUE])
       ELSE To(f, "release") /\ UNCHANGED env
    /\ UNCHANGED <<source, root, fresh, preparation, child, clock, faults>>

\* The child's own environment and credentials; a fork keeps its lease's expiry.
PrepareChild(f) ==
    /\ At(f, "child")
    /\ To(f, "check")
    /\ UNCHANGED <<source, env, root, fresh, preparation, child, clock, faults>>

\* fork.checkpoint.lastRootTurnId: it does not change as long as it is this checkpoint.
Matches(f) == env.mark = forker[f].mark /\ env.turn = forker[f].saw
Check(f) ==
    /\ At(f, "check")
    /\ IF /\ Matches(f)
          /\ \E lock \in Current(source.lock) : lock.id = f
          /\ preparation[f].status = "open" /\ clock < preparation[f].deadline
       THEN To(f, "commit") /\ fresh' = fresh \cup {f}
       ELSE To(f, "release") /\ UNCHANGED fresh
    /\ UNCHANGED <<source, env, root, preparation, child, clock, faults>>

\* One transaction: the child, the source and the preparation, each at the revision that was read.
Commits(f) == f \in fresh /\ preparation[f].status = "open"
Born(f) ==
    LET lease == {h \in env.lease : h.id = f}
    IN  /\ child' = [child EXCEPT ![f] =
                        [NoChild EXCEPT !.status = "live", !.turn = forker[f].saw, !.mark = forker[f].mark,
                                        !.until = IF lease = {} THEN 0 ELSE (CHOOSE h \in lease : TRUE).until]]
        /\ preparation' = [preparation EXCEPT ![f].status = "created"]
        /\ SourceIs(source)
Commit(f) ==
    /\ At(f, "commit")
    /\ IF Commits(f) THEN Born(f) /\ To(f, "committed")
       ELSE To(f, "winner") /\ UNCHANGED <<source, fresh, preparation, child>>
    /\ UNCHANGED <<env, root, clock, faults>>
CommitLost(f) ==
    /\ At(f, "commit") /\ Commits(f) /\ Fault
    /\ Born(f) /\ To(f, "winner")
    /\ UNCHANGED <<env, root, clock>>

Winner(f) ==
    /\ At(f, "winner")
    /\ To(f, IF child[f].status = "live" THEN "committed" ELSE "release")
    /\ UNCHANGED <<source, env, root, fresh, preparation, child, clock, faults>>
\* The commit may have dispatched the child: it keeps the lease and the lock.
WinnerUnread(f) ==
    /\ At(f, "winner") /\ Fault
    /\ To(f, "committed")
    /\ UNCHANGED <<source, env, root, fresh, preparation, child, clock>>

\* planSnapshotRelease by the fork that holds it.
Released(f) ==
    IF env.phase = "committed" /\ env.mark = forker[f].mark /\ ~env.retired
    THEN [env EXCEPT !.lease = @ \ {h \in Current(@) : h.id = f}] ELSE env
Release(f) ==
    /\ At(f, "release")
    /\ env' = IF forker[f].leased THEN Released(f) ELSE env
    /\ To(f, "unlock")
    /\ UNCHANGED <<source, root, fresh, preparation, child, clock, faults>>
Unlocks(f) ==
    IF \E lock \in source.lock : lock.id = f THEN SourceIs([source EXCEPT !.lock = {}]) ELSE UNCHANGED <<source, fresh>>
Unlock(f) ==
    /\ At(f, "unlock")
    /\ Unlocks(f)
    /\ To(f, "failed")
    /\ UNCHANGED <<env, root, preparation, child, clock, faults>>

\* A call fails before it has an effect, or a release is given up.
Fails(f) ==
    /\ forker[f].pc \in {"prepare", "checkpoint", "lease", "child", "check", "release", "unlock"} /\ Fault
    /\ CASE At(f, "release") -> Goes(f, [forker[f] EXCEPT !.pc = "unlock", !.leased = FALSE])
         [] At(f, "unlock") -> To(f, "lost")
         [] OTHER -> To(f, "release")
    /\ UNCHANGED <<source, env, root, fresh, preparation, child, clock>>
Crash(f) ==
    /\ forker[f].pc \notin {"read", "committed", "failed", "lost"} /\ Fault
    /\ To(f, "lost")
    /\ UNCHANGED <<source, env, root, fresh, preparation, child, clock>>

\* The outbox, in SessionPreparation.
Abandon(f) ==
    /\ preparation[f].status = "open" /\ clock >= preparation[f].deadline
    /\ preparation' = [preparation EXCEPT ![f].status = "abandoned"]
    /\ UNCHANGED <<source, env, root, forker, fresh, child, clock, faults>>

(***************************************************************************)
(* The child's worker: prepareForkWorkspace                                *)
(***************************************************************************)
Leased(f) ==
    /\ env.phase = "committed" /\ env.mark = child[f].mark /\ ~env.retired
    /\ \E h \in Current(env.lease) : h.id = f
Copy(f) ==
    /\ child[f].status = "live" /\ child[f].copy = "none"
    /\ child' = [child EXCEPT ![f].copy = IF Leased(f) THEN "copying" ELSE "failed", ![f].content = root]
    /\ UNCHANGED <<source, env, root, forker, fresh, preparation, clock, faults>>
\* What was written meanwhile may be in it.
Publish(f) ==
    /\ child[f].copy = "copying"
    /\ IF Leased(f)
       THEN /\ child' = [child EXCEPT ![f].copy = "published", ![f].content = root]
            /\ env' = [env EXCEPT !.lease = {}]
       ELSE child' = [child EXCEPT ![f].copy = "failed"] /\ UNCHANGED env
    /\ UNCHANGED <<source, root, forker, fresh, preparation, clock, faults>>
FreeSource(f) ==
    /\ child[f].copy = "published"
    /\ Unlocks(f)
    /\ child' = [child EXCEPT ![f].copy = "ready"]
    /\ UNCHANGED <<env, root, forker, preparation, clock, faults>>

Tick ==
    /\ clock < LastTick /\ clock' = clock + 1
    /\ UNCHANGED <<source, env, root, forker, fresh, preparation, child, faults>>

Next ==
    \/ Admit \/ Adopt \/ Work \/ Complete \/ Hibernate \/ Delete \/ Retire \/ Tick
    \/ \E f \in Forkers :
          \/ Read(f) \/ Lock(f) \/ LockLost(f) \/ Prepare(f) \/ Checkpoint(f) \/ Lease(f) \/ PrepareChild(f)
          \/ Check(f) \/ Commit(f) \/ CommitLost(f) \/ Winner(f) \/ WinnerUnread(f) \/ Release(f) \/ Unlock(f)
          \/ Fails(f) \/ Crash(f) \/ Abandon(f) \/ Copy(f) \/ Publish(f) \/ FreeSource(f)

Spec == Init /\ [][Next]_vars

\* A child has the conversation up to the turn its files are of, and was not abandoned (fork's
\* checks before the commit; prepareForkWorkspace).
ChildIsTheSource == \A f \in Forkers : child[f].status = "live" =>
    /\ preparation[f].status = "created"
    /\ child[f].copy \in {"published", "ready"} => child[f].content = child[f].turn

\* Until it is copied a child has the lease it was born with, however its fork ended.
LeaseIsKept == \A f \in Forkers :
    child[f].status = "live" /\ child[f].copy \in {"none", "copying"} /\ clock < child[f].until /\ ~env.retired
        => Leased(f)

\* A fork that failed and cleaned up leaves no lock, and no lease that it knew it had.
FailureIsUndone == \A f \in Forkers : At(f, "failed") =>
    /\ \A h \in source.lock : h.id # f
    /\ forker[f].leased /\ ~env.retired => \A h \in Current(env.lease) : h.id # f

ForksAreTrue == ChildIsTheSource /\ LeaseIsKept /\ FailureIsUndone

\* "locked for a fork" is said of a Session for as long as the lock refuses its input: where input
\* is admitted again, the watchdog retries again (docs/watchdog.md, watchdogRetryEligible).
\* It does not hold: README.md, section 7.
WatchdogResumes == Mutable => source.lock = {}
=============================================================================
