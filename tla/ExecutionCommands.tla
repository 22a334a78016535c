------------------------- MODULE ExecutionCommands -------------------------
(***************************************************************************)
(* The durable mailbox through which the control plane calls a worker on   *)
(* EC2 (core/execution-command-service.ts, execution-command-planning.ts,  *)
(* adapters/execution-command-transport.ts, the polling loop of            *)
(* runner/ec2-supervisor.ts).                                              *)
(*                                                                         *)
(* A requester writes a queued command and polls for its response until a  *)
(* deadline.  Supervisors of the execution list the pending commands page  *)
(* by page, claim one with a compare-and-swap on its revision, perform it  *)
(* and replace it by its response in one transaction.  The claim is        *)
(* committed before the effect and a claimed command is never performed    *)
(* again, whatever became of the supervisor.                               *)
(*                                                                         *)
(* A step is one call with the local computation up to the next one.  All  *)
(* processes read one clock.                                               *)
(***************************************************************************)
EXTENDS Naturals, Sequences, FiniteSets

CONSTANTS
    Commands,     \* identifiers; their order breaks ties between creation times
    Supervisors,  \* processes that drain the mailbox of one execution
    PageLimit,    \* entries per listing (100 in the code)
    Patience,     \* deadline - creation (28 s in the code)
    MaxTime       \* bound on the clock

ASSUME CommandsAssumption == Commands \subseteq Nat \ {0} /\ IsFiniteSet(Commands)
ASSUME BoundsAssumption == PageLimit \in Nat \ {0} /\ Patience \in Nat \ {0} /\ MaxTime \in Nat

VARIABLES
    now,        \* the clock
    run,        \* "active" (dispatching or running), "cancelling" or "ended"
    table,      \* pending command records, by command
    response,   \* response records, by command
    requester,  \* what each requester is doing or was told
    deadline,   \* the deadline each requester computed
    sup,        \* the supervisors' local state
    effects     \* history: how often a command reached the worker

vars == <<now, run, table, response, requester, deadline, sup, effects>>

-----------------------------------------------------------------------------

NoPage == [pc |-> "look", page |-> << >>, hasMore |-> FALSE, cursor |-> 0, answer |-> "none"]

ListedCommand == [id : Commands, status : {"queued", "claimed", "failed"}, revision : 0 .. 2]
Rows == [status : {"absent", "queued", "claimed", "failed", "deleted"}, revision : 0 .. 2]
SupervisorState == [pc : {"look", "list", "decide", "claim", "reject", "perform", "respond", "stopped"},
                    page : Seq(ListedCommand),
                    hasMore : BOOLEAN,
                    cursor : Commands \union {0},
                    answer : {"none", "expired", "completed", "failed"}]

\* Types of the mailbox and of its users.
TypeOK ==
    /\ now \in 0 .. MaxTime
    /\ run \in {"active", "cancelling", "ended"}
    /\ table \in [Commands -> Rows]
    /\ response \in [Commands -> {"none", "expired", "completed", "failed"}]
    /\ requester \in [Commands -> {"idle", "put", "poll", "completed", "failed", "expired",
                                   "unavailable", "timedOut"}]
    /\ deadline \in [Commands -> 0 .. MaxTime + Patience]
    /\ sup \in [Supervisors -> SupervisorState]
    /\ effects \in [Commands -> Nat]

Init ==
    /\ now = 0
    /\ run = "active"
    /\ table = [c \in Commands |-> [status |-> "absent", revision |-> 0]]
    /\ response = [c \in Commands |-> "none"]
    /\ requester = [c \in Commands |-> "idle"]
    /\ deadline = [c \in Commands |-> 0]
    /\ sup = [s \in Supervisors |-> NoPage]
    /\ effects = [c \in Commands |-> 0]

-----------------------------------------------------------------------------
(* The requester: createEc2CommandTransport, then request. *)

\* Mutant: the deadline is counted twice.
MutantDeadlineTwice(c) ==
    /\ requester[c] = "idle"
    /\ requester' = [requester EXCEPT ![c] = IF run # "ended" THEN "put" ELSE "unavailable"]
    /\ deadline' = [deadline EXCEPT ![c] = now + Patience + Patience]
    /\ UNCHANGED <<now, run, table, response, sup, effects>>

\* The transport checks that the Run has not ended; request computes the deadline.
Request(c) ==
    /\ requester[c] = "idle"
    /\ requester' = [requester EXCEPT ![c] = IF run # "ended" THEN "put" ELSE "unavailable"]
    /\ deadline' = [deadline EXCEPT ![c] = now + Patience]
    /\ UNCHANGED <<now, run, table, response, sup, effects>>

\* The record is created; the requester may not learn of it.
PutCommand(c) ==
    /\ requester[c] = "put"
    /\ table' = [table EXCEPT ![c] = [status |-> "queued", revision |-> 1]]
    /\ \E told \in {"poll", "unavailable"} : requester' = [requester EXCEPT ![c] = told]
    /\ UNCHANGED <<now, run, response, deadline, sup, effects>>

PutFails(c) ==
    /\ requester[c] = "put"
    /\ requester' = [requester EXCEPT ![c] = "unavailable"]
    /\ UNCHANGED <<now, run, table, response, deadline, sup, effects>>

PollResponse(c) ==
    /\ requester[c] = "poll"
    /\ now < deadline[c]
    /\ response[c] # "none"
    /\ requester' = [requester EXCEPT ![c] = response[c]]
    /\ UNCHANGED <<now, run, table, response, deadline, sup, effects>>

\* The command is neither deleted nor requeued: it may be executing.
GiveUp(c) ==
    /\ requester[c] = "poll"
    /\ now >= deadline[c]
    /\ requester' = [requester EXCEPT ![c] = "timedOut"]
    /\ UNCHANGED <<now, run, table, response, deadline, sup, effects>>

-----------------------------------------------------------------------------
(* The supervisors: the loop of supervise, and drain. *)

Pending == {c \in Commands : table[c].status \in {"queued", "claimed", "failed"}}

\* The order of the list index: creation time, then identifier.
Before(c, d) == \/ deadline[c] < deadline[d]
                \/ deadline[c] = deadline[d] /\ c < d

\* The pending commands behind the cursor, in that order.
Behind(cursor) == {c \in Pending : cursor # 0 => Before(cursor, c)}
Sorted(S) == {list \in [1 .. Cardinality(S) -> S] :
                 \A i, j \in 1 .. Cardinality(S) : i < j => Before(list[i], list[j])}

Entry(c) == [id |-> c, status |-> table[c].status, revision |-> table[c].revision]

\* A supervisor serves no command of a Run that is being cancelled.
LookAtRun(s) ==
    /\ sup[s].pc = "look"
    /\ sup' = [sup EXCEPT ![s] = [NoPage EXCEPT !.pc = IF run = "active" THEN "list" ELSE "stopped"]]
    /\ UNCHANGED <<now, run, table, response, requester, deadline, effects>>

\* A listing whose cursor has gone from the index starts again at the beginning.
ListPage(s) ==
    /\ sup[s].pc = "list"
    /\ \E cursor \in {sup[s].cursor, 0} :
        /\ cursor # sup[s].cursor => table[sup[s].cursor].status = "deleted"
        /\ \E found \in Sorted(Behind(cursor)) :
             LET more == Cardinality(Behind(cursor)) > PageLimit
                 size == IF more THEN PageLimit ELSE Cardinality(Behind(cursor))
             IN  sup' = [sup EXCEPT ![s] =
                    [pc |-> "decide", page |-> [i \in 1 .. size |-> Entry(found[i])], hasMore |-> more,
                     cursor |-> IF more THEN found[size] ELSE 0, answer |-> "none"]]
    /\ UNCHANGED <<now, run, table, response, requester, deadline, effects>>

\* Mutant: the expiry is checked before the status.
MutantDecisionExpiryFirst(saved) ==
    IF deadline[saved.id] <= now THEN "reject"
    ELSE IF saved.status # "queued" THEN "ignore" ELSE "claim"

\* claimCommand; identity and path are those of this execution.
Decision(saved) ==
    IF saved.status # "queued" THEN "ignore"
    ELSE IF deadline[saved.id] <= now THEN "reject" ELSE "claim"

Decide(s) ==
    /\ sup[s].pc = "decide"
    /\ sup[s].page # << >>
    /\ LET decision == Decision(Head(sup[s].page))
       IN  sup' = IF decision = "ignore" THEN [sup EXCEPT ![s].page = Tail(sup[s].page)]
                  ELSE [sup EXCEPT ![s].pc = decision]
    /\ UNCHANGED <<now, run, table, response, requester, deadline, effects>>

\* Mutant: one page is the whole mailbox.
MutantEndPageAtFirst(s) ==
    /\ sup[s].pc = "decide"
    /\ sup[s].page = << >>
    /\ sup' = [sup EXCEPT ![s].pc = "look"]
    /\ UNCHANGED <<now, run, table, response, requester, deadline, effects>>

EndPage(s) ==
    /\ sup[s].pc = "decide"
    /\ sup[s].page = << >>
    /\ sup' = [sup EXCEPT ![s].pc = IF sup[s].hasMore THEN "list" ELSE "look"]
    /\ UNCHANGED <<now, run, table, response, requester, deadline, effects>>

\* Mutant: the claim is an unconditional write of a live record.
MutantUnchangedAlways(saved) == table[saved.id].status # "deleted"

\* The condition of the compare-and-swap on the listed record.
Unchanged(saved) == table[saved.id].status # "deleted" /\ table[saved.id].revision = saved.revision

\* The claim, or the record of a refusal, is committed before anything else happens.
Claim(s) ==
    /\ sup[s].pc \in {"claim", "reject"}
    /\ LET saved == Head(sup[s].page) IN
        \/ /\ Unchanged(saved)
           /\ table' = [table EXCEPT ![saved.id] =
                            [status |-> IF sup[s].pc = "claim" THEN "claimed" ELSE "failed",
                             revision |-> saved.revision + 1]]
           /\ sup' = [sup EXCEPT ![s] =
                        IF sup[s].pc = "claim" THEN [sup[s] EXCEPT !.pc = "perform"]
                        ELSE [sup[s] EXCEPT !.pc = "respond", !.answer = "expired"]]
        \/ /\ ~Unchanged(saved)
           /\ sup' = [sup EXCEPT ![s] = [sup[s] EXCEPT !.pc = "decide", !.page = Tail(sup[s].page)]]
           /\ UNCHANGED table
    /\ UNCHANGED <<now, run, response, requester, deadline, effects>>

\* Mutant: the deadline is not checked again after the claim.
MutantPerformLate(s) ==
    /\ sup[s].pc = "perform"
    /\ LET c == Head(sup[s].page) IN
        /\ effects' = [effects EXCEPT ![c.id] = @ + 1]
        /\ \E answer \in {"completed", "failed"} :
              sup' = [sup EXCEPT ![s] = [sup[s] EXCEPT !.pc = "respond", !.answer = answer]]
    /\ UNCHANGED <<now, run, table, response, requester, deadline>>

\* The command reaches the worker unless its deadline has passed; its answer may not arrive.
Perform(s) ==
    /\ sup[s].pc = "perform"
    /\ LET c == Head(sup[s].page) IN
        \/ /\ now < deadline[c.id]
           /\ effects' = [effects EXCEPT ![c.id] = @ + 1]
           /\ \E answer \in {"completed", "failed"} :
                 sup' = [sup EXCEPT ![s] = [sup[s] EXCEPT !.pc = "respond", !.answer = answer]]
        \/ /\ sup' = [sup EXCEPT ![s] = [sup[s] EXCEPT !.pc = "respond", !.answer = "failed"]]
           /\ UNCHANGED effects
    /\ UNCHANGED <<now, run, table, response, requester, deadline>>

\* One transaction deletes the command and creates its response.
Respond(s) ==
    /\ sup[s].pc = "respond"
    /\ LET c == Head(sup[s].page).id IN
        /\ table' = [table EXCEPT ![c] = [status |-> "deleted", revision |-> table[c].revision]]
        /\ response' = [response EXCEPT ![c] = sup[s].answer]
        /\ sup' = [sup EXCEPT ![s] = [sup[s] EXCEPT !.pc = "decide", !.page = Tail(sup[s].page), !.answer = "none"]]
    /\ UNCHANGED <<now, run, requester, deadline, effects>>

\* Any failed call ends the supervisor, and the host with it.
Crash(s) ==
    /\ sup[s].pc # "stopped"
    /\ \E other \in Supervisors \ {s} : sup[other].pc # "stopped"
    /\ sup' = [sup EXCEPT ![s] = [NoPage EXCEPT !.pc = "stopped"]]
    /\ UNCHANGED <<now, run, table, response, requester, deadline, effects>>

-----------------------------------------------------------------------------
(* The environment. *)

EndRun ==
    /\ \/ run = "active" /\ run' \in {"cancelling", "ended"}
       \/ run = "cancelling" /\ run' = "ended"
    /\ UNCHANGED <<now, table, response, requester, deadline, sup, effects>>

Tick ==
    /\ now < MaxTime
    /\ now' = now + 1
    /\ UNCHANGED <<run, table, response, requester, deadline, sup, effects>>

RequesterStep(c) == PollResponse(c) \/ GiveUp(c)
SupervisorStep(s) ==
    LookAtRun(s) \/ ListPage(s) \/ Decide(s) \/ EndPage(s) \/ Claim(s) \/ Perform(s) \/ Respond(s)

Next ==
    \/ \E c \in Commands : Request(c) \/ PutCommand(c) \/ PutFails(c) \/ PollResponse(c) \/ GiveUp(c)
    \/ \E s \in Supervisors :
          \/ LookAtRun(s) \/ ListPage(s) \/ Decide(s) \/ EndPage(s) \/ Claim(s) \/ Perform(s)
          \/ Respond(s) \/ Crash(s)
    \/ EndRun
    \/ Tick

Spec == Init /\ [][Next]_vars

\* Time passes, requesters poll, and a supervisor that has not stopped goes on.
FairSpec ==
    /\ Spec
    /\ WF_vars(Tick)
    /\ \A c \in Commands : WF_vars(RequesterStep(c))
    /\ \A s \in Supervisors : WF_vars(SupervisorStep(s))

-----------------------------------------------------------------------------
(* Properties *)

\* A command reaches the worker at most once, however many supervisors drain the mailbox and
\* wherever they stop: the claim of drain is committed before the effect and never replayed.
AtMostOnce == \A c \in Commands : effects[c] <= 1

\* A response is true: "completed" means that the worker ran the command exactly once, and
\* the refusal "expired before acceptance" that it never did and never will.
ResponsesAreTrue ==
    \A c \in Commands :
        /\ response[c] = "completed" => effects[c] = 1
        /\ response[c] = "expired" => effects[c] = 0

\* A command does not start after its requester gave up waiting: the deadline of the record
\* is checked again between the claim and the effect.
NoStartAfterGivingUp ==
    [][\A c \in Commands : effects'[c] > effects[c] => requester[c] # "timedOut"]_vars

\* What a requester can tell of the mailbox: it waits until it is told something.
Caller == [c \in Commands |-> IF requester[c] \in {"idle", "put", "poll"} THEN "waiting" ELSE requester[c]]

\* The mailbox implements CommandContract: with however many supervisors that list, claim and
\* crash, a command runs at most once, before its answer and before its requester gives up
\* (request, drain and claimCommand), and the requester is told its one answer or none.
Contract == INSTANCE CommandContract WITH caller <- Caller, outcome <- response, effects <- effects
RefinesContract == Contract!Spec

\* While the Run is active and a supervisor lives, a queued command is taken from the queue,
\* also when earlier ones stay claimed for ever by a supervisor that died on them.
CommandsLeaveTheQueue ==
    \A c \in Commands : table[c].status = "queued" ~> (table[c].status # "queued" \/ run # "active")

=============================================================================
