------------------------- MODULE SessionPreparation -------------------------
(***************************************************************************)
(* How a Session comes to be, with the credentials of its tools.  A caller *)
(* that may be repeated (an integration, an import) creates one Session of *)
(* a given id: SessionService.create saves a preparation, SessionToolSer-  *)
(* vice.prepare reserves and creates secrets under an attempt and adopts   *)
(* them as the Session's bindings, and one transaction commits the Session *)
(* and marks the preparation.  The outbox abandons what is too old; a      *)
(* deletion closes the bindings again.                                     *)
(*                                                                         *)
(* Every row carries a revision: prep says of a process whether the prepa- *)
(* ration is still as it read it.  An attempt's revision follows from its  *)
(* status, and a bindings row is written once between two deletions.       *)
(***************************************************************************)
EXTENDS Integers, FiniteSets

CONSTANTS
    Creators,    \* calls of create for the one id; attempt ids too
    Closers,     \* calls of delete
    Outbox,      \* outbox handlers
    Cleanups,    \* attempt ids for close, used again once gone
    AttemptLife, PreparationLife, \* 300 s and a day
    Tombstones,  \* a deleted row is kept as deleted (DynamoDB) or is as if it never was (SQLite)
    LastTick,    \* bound: the clock
    Profiles     \* bound: which processes there are together, and how many of them end, lose an answer or fail

Processes == Creators \cup Closers \cup Outbox
Assumptions ==
    /\ AttemptLife \in Nat \ {0} /\ PreparationLife \in Nat /\ PreparationLife > AttemptLife
    /\ LastTick \in Nat /\ Tombstones \in BOOLEAN
    /\ \A profile \in Profiles : profile.who \subseteq Processes /\ profile.faults \in Nat
    /\ Creators \cap Cleanups = {} /\ {"", "deleted"} \cap (Creators \cup Cleanups) = {}

VARIABLES
    preparation, \* session_preparations: "none", "open", "created", "abandoned", or "cleaned" after that
    session,     \* sessions: "none", "live", "closing" or "deleted"
    bindings,    \* the attempt whose secrets the Session refers to, by kind; "" or "deleted" without one
    attempt,     \* session_tool_attempts
    secret,      \* Secrets Manager, by reference
    proc, clock,
    faults       \* how many are left

vars == <<preparation, session, bindings, attempt, secret, proc, clock, faults>>

Kinds == {"environment", "tools"}
Attempts == Creators \cup Cleanups
References == Creators \X Kinds
NoAttempt == [status |-> "none", holds |-> {}, deadline |-> 0]
Start == [pc |-> "start", read |-> "none", prep |-> FALSE, at |-> "", revoke |-> {}, left |-> {}]
Over == [Start EXCEPT !.pc = "done"]
PCs == {"start", "make", "tools", "look", "check", "secret", "adopt", "final", "commit", "winner", "done",
        "abandon", "close", "unbind", "fence", "plan", "revoke", "drop"}

TypeOK ==
    /\ preparation \in {"none", "open", "created", "abandoned", "cleaned"}
    /\ session \in {"none", "live", "closing", "deleted"}
    /\ bindings \in [Kinds -> Creators \cup {"", "deleted"}]
    /\ attempt \in [Attempts -> [status : {"none", "pending", "adopted", "cleanup", "gone"},
                                 holds : SUBSET References, deadline : 0..LastTick + AttemptLife]]
    /\ secret \in [References -> {"none", "live", "retired"}]
    /\ proc \in [Processes -> [pc : PCs, read : {"none", "open", "created", "abandoned"}, prep : BOOLEAN,
                               at : Attempts \cup {""}, revoke : SUBSET References, left : SUBSET Kinds]]
    /\ clock \in 0..LastTick /\ faults \in Nat

Init ==
    /\ preparation = "none" /\ session = "none"
    /\ bindings = [k \in Kinds |-> ""]
    /\ attempt = [a \in Attempts |-> NoAttempt]
    /\ secret = [r \in References |-> "none"]
    /\ \E profile \in Profiles :
          /\ proc = [p \in Processes |-> IF p \in profile.who THEN Start ELSE Over]
          /\ faults = profile.faults
    /\ clock = 0

Fault == faults > 0 /\ faults' = faults - 1
At(p, pc) == proc[p].pc = pc
Goes(p, next) == proc' = [proc EXCEPT ![p] = next]
To(p, pc) == Goes(p, [proc[p] EXCEPT !.pc = pc])
Ends(p) == Goes(p, Over)
\* Every write of the preparation, also one that leaves it as it is, makes the other reads stale.
Prepares(p, value, next) ==
    /\ preparation' = value
    /\ proc' = [q \in Processes |-> IF q = p THEN next ELSE [proc[q] EXCEPT !.prep = FALSE]]
\* requireActivePreparation
Active(value) == value \notin {"abandoned", "cleaned"} /\ clock < PreparationLife

(***************************************************************************)
(* create                                                                  *)
(***************************************************************************)
Begin(c) ==
    /\ At(c, "start")
    /\ IF session \in {"live", "closing"} THEN Ends(c)
       ELSE IF preparation = "none" THEN To(c, "make")
       ELSE IF preparation = "created" \/ ~Active(preparation) THEN Ends(c) ELSE To(c, "tools")
    /\ UNCHANGED <<preparation, session, bindings, attempt, secret, clock, faults>>

\* The first one wins; the others, and one whose answer was lost, go by what is there.
MakePreparation(c) ==
    /\ At(c, "make")
    /\ IF preparation = "none" THEN Prepares(c, "open", [proc[c] EXCEPT !.pc = "tools"])
       ELSE /\ IF preparation = "created" \/ ~Active(preparation) THEN Ends(c) ELSE To(c, "tools")
            /\ UNCHANGED preparation
    /\ UNCHANGED <<session, bindings, attempt, secret, clock, faults>>

\* SessionToolService.prepare: the revision its adoption is fenced by.
ReadPreparation(c) ==
    /\ At(c, "tools")
    /\ IF preparation # "created" /\ ~Active(preparation) THEN Ends(c)
       ELSE Goes(c, [proc[c] EXCEPT !.pc = "look", !.prep = TRUE])
    /\ UNCHANGED <<preparation, session, bindings, attempt, secret, clock, faults>>

\* Somebody else's bindings will do; otherwise an attempt is saved with the references it will use.
Reserve(c) ==
    /\ At(c, "look")
    /\ IF bindings["tools"] \in Creators THEN To(c, "final") /\ UNCHANGED attempt
       ELSE /\ attempt' = [attempt EXCEPT ![c] =
                              [status |-> "pending", holds |-> {c} \X Kinds, deadline |-> clock + AttemptLife]]
            /\ Goes(c, [proc[c] EXCEPT !.pc = "check", !.at = c, !.left = Kinds])
    /\ UNCHANGED <<preparation, session, bindings, secret, clock, faults>>

\* A failure gives the attempt up.
GivesUp(c) == Goes(c, [proc[c] EXCEPT !.pc = "fence", !.left = {}])
CheckAttempt(c) ==
    /\ At(c, "check")
    /\ IF attempt[c].status = "pending" /\ clock < attempt[c].deadline THEN To(c, "secret") ELSE GivesUp(c)
    /\ UNCHANGED <<preparation, session, bindings, attempt, secret, clock, faults>>

\* A name that has been used, if only to retire it, is refused.
CreateSecret(c) ==
    /\ At(c, "secret")
    /\ \E k \in proc[c].left :
          /\ k = "environment" => proc[c].left = {"environment"}
          /\ IF secret[c, k] # "none" THEN GivesUp(c) /\ UNCHANGED secret
             ELSE /\ secret' = [secret EXCEPT ![c, k] = "live"]
                  /\ Goes(c, [proc[c] EXCEPT !.left = @ \ {k}, !.pc = IF proc[c].left = {k} THEN "adopt" ELSE "check"])
    /\ UNCHANGED <<preparation, session, bindings, attempt, clock, faults>>
\* It may have been created all the same.
CreateSecretFails(c) ==
    /\ At(c, "secret") /\ Fault
    /\ GivesUp(c)
    /\ \E k \in proc[c].left : secret' = IF secret[c, k] = "none" THEN [secret EXCEPT ![c, k] = "live"] ELSE secret
    /\ UNCHANGED <<preparation, session, bindings, attempt, clock>>

\* Mutant: the adoption is not fenced by the preparation.
MutantAdoptable(c) == bindings = [k \in Kinds |-> ""] /\ attempt[c].status = "pending"
Adoptable(c) == bindings = [k \in Kinds |-> ""] /\ attempt[c].status = "pending" /\ proc[c].prep
Adopts(c, next) ==
    /\ bindings' = [k \in Kinds |-> c]
    /\ attempt' = [attempt EXCEPT ![c].status = "adopted"]
    /\ Prepares(c, preparation, next)
Adopt(c) ==
    /\ At(c, "adopt")
    /\ IF Adoptable(c) THEN Adopts(c, [proc[c] EXCEPT !.pc = "final", !.prep = FALSE])
       ELSE GivesUp(c) /\ UNCHANGED <<preparation, bindings, attempt>>
    /\ UNCHANGED <<session, secret, clock, faults>>
AdoptLost(c) ==
    /\ At(c, "adopt") /\ Adoptable(c) /\ Fault
    /\ Adopts(c, [proc[c] EXCEPT !.pc = "fence", !.prep = FALSE])
    /\ UNCHANGED <<session, secret, clock>>

\* After a failure the bindings of another creator will do.
Winner(c) ==
    /\ At(c, "winner")
    /\ IF bindings["tools"] \in Creators THEN To(c, "final") ELSE Ends(c)
    /\ UNCHANGED <<preparation, session, bindings, attempt, secret, clock, faults>>

\* The Session's own commit is fenced by a read of its own.
ReadAgain(c) ==
    /\ At(c, "final")
    /\ IF preparation = "created" \/ ~Active(preparation) THEN Ends(c)
       ELSE Goes(c, [Start EXCEPT !.pc = "commit", !.prep = TRUE])
    /\ UNCHANGED <<preparation, session, bindings, attempt, secret, clock, faults>>
Commit(c) ==
    /\ At(c, "commit")
    /\ IF proc[c].prep /\ session \notin {"live", "closing"}
       THEN session' = "live" /\ Prepares(c, "created", Over)
       ELSE Ends(c) /\ UNCHANGED <<preparation, session>>
    /\ UNCHANGED <<bindings, attempt, secret, clock, faults>>

(***************************************************************************)
(* reconcile, by whoever has an attempt to end.                            *)
(***************************************************************************)
\* What follows for each kind of process, by what reconcile returned.
After(p, adopted) ==
    IF p \in Creators THEN Goes(p, [proc[p] EXCEPT !.pc = IF adopted THEN "final" ELSE "winner", !.at = "", !.revoke = {}])
    ELSE IF p \in Outbox /\ proc[p].read = "none" THEN Goes(p, Start)
    ELSE Goes(p, [proc[p] EXCEPT !.pc = "close", !.at = "", !.revoke = {}])

\* The attempt's revision keeps adoption and cleanup apart: one of the two conditional puts fails.
FenceAttempt(p) ==
    LET a == proc[p].at
    IN  /\ At(p, "fence")
        /\ CASE attempt[a].status \in {"none", "gone"} -> After(p, FALSE) /\ UNCHANGED attempt
             [] attempt[a].status = "adopted" -> attempt' = [attempt EXCEPT ![a].status = "gone"] /\ After(p, TRUE)
             [] OTHER -> attempt' = [attempt EXCEPT ![a].status = "cleanup"] /\ To(p, "plan")
        /\ UNCHANGED <<preparation, session, bindings, secret, clock, faults>>

\* planSessionToolCommitRecovery: what bindings retain is not revoked.
PlanRevocation(p) ==
    /\ At(p, "plan")
    /\ Goes(p, [proc[p] EXCEPT !.pc = "revoke", !.revoke = {r \in attempt[proc[p].at].holds : bindings[r[2]] # r[1]}])
    /\ UNCHANGED <<preparation, session, bindings, attempt, secret, clock, faults>>
\* A reserved name is occupied before it is deleted, so a delayed create cannot use it.
Revoke(p) ==
    /\ At(p, "revoke")
    /\ IF proc[p].revoke = {} THEN To(p, "drop") /\ UNCHANGED secret
       ELSE \E r \in proc[p].revoke :
               /\ secret' = [secret EXCEPT ![r] = "retired"]
               /\ Goes(p, [proc[p] EXCEPT !.revoke = @ \ {r}])
    /\ UNCHANGED <<preparation, session, bindings, attempt, clock, faults>>
Drop(p) ==
    /\ At(p, "drop")
    /\ attempt' = IF proc[p].at \in Cleanups THEN [attempt EXCEPT ![proc[p].at] = NoAttempt]
                  ELSE [attempt EXCEPT ![proc[p].at].status = "gone"]
    /\ After(p, FALSE)
    /\ UNCHANGED <<preparation, session, bindings, secret, clock, faults>>

\* A creator's cleanup may fail; it then goes by the bindings and the outbox has the attempt.
CleanupFails(c) ==
    /\ c \in Creators /\ proc[c].pc \in {"fence", "plan", "revoke", "drop"} /\ Fault
    /\ Goes(c, [proc[c] EXCEPT !.pc = "winner", !.at = "", !.revoke = {}])
    /\ UNCHANGED <<preparation, session, bindings, attempt, secret, clock>>

(***************************************************************************)
(* close, for a deletion and for a preparation that is abandoned.          *)
(***************************************************************************)
Delete(d) ==
    /\ At(d, "start") /\ session \in {"live", "closing"}
    /\ session' = "closing"
    /\ Goes(d, [Start EXCEPT !.pc = "close", !.left = Kinds])
    /\ UNCHANGED <<preparation, bindings, attempt, secret, clock, faults>>

Removed == IF Tombstones THEN "deleted" ELSE ""
\* Cleanup attempts have ids of their own; here an id is used again when nobody holds it.
Free(a) == attempt[a] = NoAttempt /\ \A p \in Processes : proc[p].at # a
NextKind(p) == IF "environment" \in proc[p].left THEN "environment" ELSE "tools"
\* A row that is there is deleted in one transaction with an attempt to clean up after it.
Unbind(p) ==
    LET k == NextKind(p)
    IN  /\ At(p, "close") /\ proc[p].left # {}
        /\ \E x \in Cleanups : Free(x)
        /\ IF bindings[k] \notin Creators
           THEN Goes(p, [proc[p] EXCEPT !.left = @ \ {k}]) /\ UNCHANGED <<bindings, attempt>>
           ELSE LET a == CHOOSE x \in Cleanups : Free(x)
                IN /\ attempt' = [attempt EXCEPT ![a] = [status |-> "cleanup", holds |-> {<<bindings[k], k>>}, deadline |-> clock]]
                   /\ bindings' = [bindings EXCEPT ![k] = Removed]
                   /\ Goes(p, [proc[p] EXCEPT !.pc = "plan", !.at = a, !.left = @ \ {k}])
        /\ UNCHANGED <<preparation, session, secret, clock, faults>>
\* The Session goes last.
Closed(p) ==
    /\ At(p, "close") /\ proc[p].left = {}
    /\ Goes(p, Start)
    /\ session' = IF p \in Closers THEN "deleted" ELSE session
    /\ preparation' = IF p \in Outbox /\ preparation = "abandoned" THEN "cleaned" ELSE preparation
    /\ UNCHANGED <<bindings, attempt, secret, clock, faults>>

(***************************************************************************)
(* The outbox: a row's job is there as long as the row is unfinished.      *)
(***************************************************************************)
ReconcileAttempt(o) ==
    /\ At(o, "start")
    /\ \E a \in Attempts :
          /\ attempt[a].status \in {"adopted", "cleanup"} \/ (attempt[a].status = "pending" /\ clock >= attempt[a].deadline)
          /\ Goes(o, [Start EXCEPT !.pc = "fence", !.at = a])
    /\ UNCHANGED <<preparation, session, bindings, attempt, secret, clock, faults>>

ReconcilePreparation(o) ==
    /\ At(o, "start") /\ (preparation = "abandoned" \/ (preparation = "open" /\ clock >= PreparationLife))
    /\ Goes(o, [Start EXCEPT !.pc = "abandon", !.read = preparation, !.prep = TRUE])
    /\ UNCHANGED <<preparation, session, bindings, attempt, secret, clock, faults>>
\* Only then are the bindings closed.
Abandon(o) ==
    LET closing == [Start EXCEPT !.pc = "close", !.read = "abandoned", !.left = Kinds]
    IN  /\ At(o, "abandon")
        /\ IF proc[o].read = "abandoned" THEN Goes(o, closing) /\ UNCHANGED preparation
           ELSE IF proc[o].prep THEN Prepares(o, "abandoned", closing)
           ELSE Goes(o, Start) /\ UNCHANGED preparation
        /\ UNCHANGED <<session, bindings, attempt, secret, clock, faults>>

\* A process that ends leaves what it wrote; the outbox starts again.
Crash(p) ==
    /\ proc[p].pc \notin {"start", "done"} /\ Fault
    /\ IF p \in Creators THEN Ends(p) ELSE Goes(p, Start)
    /\ UNCHANGED <<preparation, session, bindings, attempt, secret, clock>>
Tick == clock < LastTick /\ clock' = clock + 1
        /\ UNCHANGED <<preparation, session, bindings, attempt, secret, proc, faults>>

Next ==
    \/ \E c \in Creators :
          \/ Begin(c) \/ MakePreparation(c) \/ ReadPreparation(c) \/ Reserve(c) \/ CheckAttempt(c)
          \/ CreateSecret(c) \/ CreateSecretFails(c) \/ Adopt(c) \/ AdoptLost(c) \/ Winner(c) \/ ReadAgain(c) \/ Commit(c)
          \/ CleanupFails(c)
    \/ \E p \in Processes :
          FenceAttempt(p) \/ PlanRevocation(p) \/ Revoke(p) \/ Drop(p) \/ Unbind(p) \/ Closed(p) \/ Crash(p)
    \/ \E d \in Closers : Delete(d)
    \/ \E o \in Outbox : ReconcileAttempt(o) \/ ReconcilePreparation(o) \/ Abandon(o)
    \/ Tick

Spec == Init /\ [][Next]_vars

\* A Session refers to secrets that are there, until its deletion begins, and it was committed by a
\* preparation that nobody had abandoned (create, the fences of prepare and reconcilePreparation).
SessionIsWhole ==
    /\ session = "live" => \A k \in Kinds : bindings[k] \in Creators /\ secret[bindings[k], k] = "live"
    /\ session # "none" <=> preparation = "created"

\* Some row will have the secret revoked, or a Session uses it.
Accounted(r) ==
    \/ \E a \in Attempts : attempt[a].status \in {"pending", "cleanup"} /\ r \in attempt[a].holds
    \/ bindings[r[2]] = r[1] /\ (session \in {"live", "closing"} \/ preparation \in {"open", "abandoned"})

\* No secret is forgotten, whatever fails between its creation and its use.
SecretsAreAccounted == \A r \in References : secret[r] = "live" => Accounted(r)

\* A Session's preparation fences what creators do later, also when it was deleted.
PreparationIsSafe == SessionIsWhole /\ SecretsAreAccounted
=============================================================================
