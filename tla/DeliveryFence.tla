--------------------------- MODULE DeliveryFence ---------------------------
(***************************************************************************)
(* Posting one finished execution to its destinations: DeliveryService     *)
(* (delivery/service.ts) behind the fence of                               *)
(* adapters/dynamo-delivery-fence.ts.                                      *)
(*                                                                         *)
(* Jobs are delivered again after any error, until their source gives them *)
(* up.  For every destination a job claims a fence row, posts to the       *)
(* provider and writes the verdict.  A crashed poster may have posted: a later job that finds  *)
(* its lease expired records an unknown outcome and posts nothing.         *)
(*                                                                         *)
(* A step is one call with the local computation up to the next one.  The  *)
(* lease is the state of a row, not a clock.  A store call takes effect at *)
(* most once; its answer may be lost.                                      *)
(***************************************************************************)
EXTENDS Naturals

CONSTANTS
    Jobs,          \* deliveries of the same work
    Last,          \* number of destinations resolveDestinations returns
    MaxFaults      \* bound on crashes and lost answers

Assumptions == Last \in Nat /\ MaxFaults \in Nat

Destinations == 1 .. Last

VARIABLES
    row,       \* the fence rows
    job,       \* what each job is doing
    accepted,  \* history: posts the provider accepted
    faults     \* crashes and lost answers so far

vars == <<row, job, accepted, faults>>

-----------------------------------------------------------------------------

Verdicts == {"delivered", "not_delivered", "outcome_unknown"}
Sending == {"sending", "expired"}   \* status "sending" with a lease that runs or has run out

JobState == [pc : {"ready", "read", "expire", "post", "record", "uncertain", "release", "processed",
                   "dropped"},
             at : 1 .. Last + 1, \* the destination it works on
             late : BOOLEAN,     \* the lease had run out when its claim was refused
             verdict : Verdicts \union {"unset"},
             failed : BOOLEAN]   \* a destination is to be retried

\* Types of the fence and its users.
TypeOK ==
    /\ row \in [Destinations -> {"none"} \union Sending \union Verdicts]
    /\ job \in [Jobs -> JobState]
    /\ accepted \in [Destinations -> Nat]
    /\ faults \in 0 .. MaxFaults

Fresh == [pc |-> "ready", at |-> 1, late |-> FALSE, verdict |-> "unset", failed |-> FALSE]

Init ==
    /\ row = [d \in Destinations |-> "none"]
    /\ job = [j \in Jobs |-> Fresh]
    /\ accepted = [d \in Destinations |-> 0]
    /\ faults = 0

At(j) == job[j].at
Goes(j, pc) == job' = [job EXCEPT ![j].pc = pc]

\* Any error that leaves deliver: the job may be delivered again.
Throws(j) == job' = [job EXCEPT ![j] = Fresh]

Moves(j) == job' = [job EXCEPT ![j] = [Fresh EXCEPT !.at = At(j) + 1, !.failed = job[j].failed]]

Fault == faults < MaxFaults /\ faults' = faults + 1

\* What follows a write that took effect: its answer arrives or is lost.
Answered(j, next) == \/ next /\ UNCHANGED faults
                     \/ Throws(j) /\ Fault

-----------------------------------------------------------------------------
(* claim *)

\* The row is created under attribute_not_exists; its creator may not learn of it.
ClaimRow(j) ==
    /\ job[j].pc = "ready"
    /\ At(j) \in Destinations
    /\ row[At(j)] = "none"
    /\ row' = [row EXCEPT ![At(j)] = "sending"]
    /\ Answered(j, Goes(j, "post"))
    /\ UNCHANGED accepted

ClaimRefused(j) ==
    /\ job[j].pc = "ready"
    /\ At(j) \in Destinations
    /\ row[At(j)] # "none"
    /\ job' = [job EXCEPT ![j] = [@ EXCEPT !.pc = "read", !.late = row[At(j)] = "expired"]]
    /\ UNCHANGED <<row, accepted, faults>>

\* The row has gone: claim again.  It has a verdict: nothing to do.  Its lease runs: come back later.
ReadRow(j) ==
    /\ job[j].pc = "read"
    /\ \/ row[At(j)] = "none" /\ Goes(j, "ready")
       \/ row[At(j)] \in Verdicts /\ Moves(j)
       \/ row[At(j)] = "expired" /\ job[j].late /\ Goes(j, "expire")
       \/ row[At(j)] \in Sending /\ ~(row[At(j)] = "expired" /\ job[j].late) /\ Throws(j)
    /\ UNCHANGED <<row, accepted, faults>>

\* Mutant: an expired claim is taken over.
MutantTakeOver(j) ==
    /\ job[j].pc = "expire"
    /\ IF row[At(j)] = "expired"
       THEN row' = [row EXCEPT ![At(j)] = "sending"] /\ Goes(j, "post")
       ELSE Throws(j) /\ UNCHANGED row
    /\ UNCHANGED <<accepted, faults>>

\* "A crashed sender may already have posted. Never repeat an ambiguous external write."
MarkUnknown(j) ==
    /\ job[j].pc = "expire"
    /\ \/ /\ row[At(j)] = "expired"
          /\ row' = [row EXCEPT ![At(j)] = "outcome_unknown"]
          /\ Answered(j, Moves(j))
       \/ /\ row[At(j)] # "expired"
          /\ Throws(j)
          /\ UNCHANGED <<row, faults>>
    /\ UNCHANGED accepted

-----------------------------------------------------------------------------
(* deliver *)

\* Mutant: the end of a post without an answer is not told apart.
MutantPostSilent(j) ==
    /\ job[j].pc = "post"
    /\ accepted' = [accepted EXCEPT ![At(j)] = @ + 1]
    /\ \E verdict \in {"delivered", "unset"} :
          job' = [job EXCEPT ![j] = [@ EXCEPT !.pc = "record", !.verdict = verdict]]
    /\ UNCHANGED <<row, faults>>

\* The provider accepts the post, with or without an answer; or refuses it for good; or asks to
\* retry; or fails without a word.  A KnownNotDeliveredError is true.
Post(j) ==
    /\ job[j].pc = "post"
    /\ \/ /\ accepted' = [accepted EXCEPT ![At(j)] = @ + 1]
          /\ \E verdict \in {"delivered", "outcome_unknown"} :
                job' = [job EXCEPT ![j] = [@ EXCEPT !.pc = "record", !.verdict = verdict]]
       \/ /\ \/ Goes(j, "release")
             \/ \E verdict \in {"not_delivered", "outcome_unknown"} :
                   job' = [job EXCEPT ![j] = [@ EXCEPT !.pc = "record", !.verdict = verdict]]
          /\ UNCHANGED accepted
    /\ UNCHANGED <<row, faults>>

\* delivered and failed write without a condition.  An error of delivered is caught and recorded
\* as an unknown outcome, an error of failed is not caught; either may have written.
RecordVerdict(j) ==
    /\ job[j].pc = "record"
    /\ \/ /\ row' = [row EXCEPT ![At(j)] = job[j].verdict]
          /\ Moves(j)
          /\ UNCHANGED faults
       \/ /\ Fault
          /\ row' \in {row, [row EXCEPT ![At(j)] = job[j].verdict]}
          /\ IF job[j].verdict = "delivered" THEN Goes(j, "uncertain") ELSE Throws(j)
    /\ UNCHANGED accepted

RecordUncertain(j) ==
    /\ job[j].pc = "uncertain"
    /\ row' = [row EXCEPT ![At(j)] = "outcome_unknown"]
    /\ Answered(j, Moves(j))
    /\ UNCHANGED accepted

\* The row is deleted if it is still "sending"; otherwise the error leaves deliver.
Release(j) ==
    /\ job[j].pc = "release"
    /\ \/ /\ row[At(j)] \in Sending
          /\ row' = [row EXCEPT ![At(j)] = "none"]
          /\ Answered(j, job' = [job EXCEPT ![j] = [Fresh EXCEPT !.at = At(j) + 1, !.failed = TRUE]])
       \/ /\ row[At(j)] \notin Sending
          /\ Throws(j)
          /\ UNCHANGED <<row, faults>>
    /\ UNCHANGED accepted

\* After the last destination the first retryable failure is thrown.
Finish(j) ==
    /\ job[j].pc = "ready"
    /\ At(j) \notin Destinations
    /\ IF job[j].failed THEN Throws(j) ELSE Goes(j, "processed")
    /\ UNCHANGED <<row, accepted, faults>>

-----------------------------------------------------------------------------
(* The environment. *)

Crash(j) ==
    /\ job[j].pc \notin {"ready", "processed", "dropped"}
    /\ Fault
    /\ Throws(j)
    /\ UNCHANGED <<row, accepted>>

\* A delivery is given up: the notifier's asynchronous invocation is dropped after a few
\* attempts, the agents queue's message after a thousand.
Drop(j) ==
    /\ job[j] = Fresh
    /\ Goes(j, "dropped")
    /\ UNCHANGED <<row, accepted, faults>>

LeaseExpires(d) ==
    /\ row[d] = "sending"
    /\ row' = [row EXCEPT ![d] = "expired"]
    /\ UNCHANGED <<job, accepted, faults>>

JobStep(j) ==
    \/ ClaimRow(j) \/ ClaimRefused(j) \/ ReadRow(j) \/ MarkUnknown(j) \/ Post(j)
    \/ RecordVerdict(j) \/ RecordUncertain(j) \/ Release(j) \/ Finish(j)

Next ==
    \/ \E j \in Jobs :
          \/ ClaimRow(j) \/ ClaimRefused(j) \/ ReadRow(j) \/ MarkUnknown(j) \/ Post(j)
          \/ RecordVerdict(j) \/ RecordUncertain(j) \/ Release(j) \/ Finish(j) \/ Crash(j) \/ Drop(j)
    \/ \E d \in Destinations : LeaseExpires(d)

Spec == Init /\ [][Next]_vars

\* Leases run out, and a job is delivered again until it succeeds or is given up.
FairSpec ==
    /\ Spec
    /\ \A j \in Jobs : WF_vars(JobStep(j))
    /\ \A d \in Destinations : WF_vars(LeaseExpires(d))

-----------------------------------------------------------------------------
(* Properties *)

\* However often a job is delivered, crashes or loses an answer, a provider accepts at most one
\* post for a destination: the claim of the fence precedes the post and is never taken over.
AtMostOnePost == \A d \in Destinations : accepted[d] <= 1

\* The receipt an operator reads is true: "delivered" was accepted and "not_delivered" was not.
VerdictsAreTrue ==
    \A d \in Destinations :
        /\ row[d] = "delivered" => accepted[d] = 1
        /\ row[d] = "not_delivered" => accepted[d] = 0

\* A provider accepts at most one post for a destination, and the receipt says what happened.
FenceIsTrue == AtMostOnePost /\ VerdictsAreTrue

\* The row of a poster that died gets a verdict or is released, unless every delivery of the
\* work was given up: DeliveryService promises a verdict only while it is called again.
ClaimsEnd ==
    \A d \in Destinations :
        row[d] \in Sending ~> (row[d] \notin Sending \/ \A j \in Jobs : job[j].pc = "dropped")
=============================================================================
