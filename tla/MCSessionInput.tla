--------------------------- MODULE MCSessionInput ---------------------------
(* Three shapes of Session: one whose two inputs and cancellation arrive in *)
(* any order, one that is deleted while two jobs run, and a hosted one      *)
(* whose cancellations race failed and repeated starts.  A behaviour is one *)
(* of them, the focus: the others' calls, jobs and faults do not happen.    *)
EXTENDS SessionDispatch, TLC

CONSTANTS FirstKey, SecondKey, CancelKey, Job1, Job2
BothKeys == {FirstKey, SecondKey}
BothJobs == {Job1, Job2}

VARIABLE focus

HostedSession == INSTANCE SessionDispatch WITH Hosted <- TRUE

ASSUME Assumptions /\ HostedSession!Assumptions

Shape == [busy    |-> [keys |-> {FirstKey, SecondKey, CancelKey}, jobs |-> {Job1}, faults |-> 1],
          deleted |-> [keys |-> {FirstKey}, jobs |-> {Job1, Job2}, faults |-> 1],
          hosted  |-> [keys |-> {FirstKey, CancelKey}, jobs |-> {Job1}, faults |-> 2]]

Accepted(key) == \E i \in DOMAIN session'.receipts : session'.receipts[i].key = key

\* The two messages are interchangeable: the one that is accepted first is called FirstKey.
TakesPart ==
    /\ Accepted(SecondKey) => Accepted(FirstKey)
    /\ \A k \in Keys \ Shape[focus].keys : client'[k] = client[k]
    /\ \A j \in Jobs \ Shape[focus].jobs : job'[j] = job[j]
    /\ focus # "deleted" => deleter' = deleter
    /\ faults' <= Shape[focus].faults

MCInit == Init /\ focus \in DOMAIN Shape

MCNext ==
    \/ /\ IF focus = "hosted" THEN HostedSession!Next ELSE Next
       /\ TakesPart /\ UNCHANGED focus
    \/ /\ \A k \in Shape[focus].keys : client[k].pc = "done"
       /\ \A j \in Jobs : job[j].pc = "idle"
       /\ UNCHANGED <<vars, focus>>

MCSpec == MCInit /\ [][MCNext]_<<vars, focus>>

-----------------------------------------------------------------------------

\* The outcome of a Turn does not change, except to say that a refused start failed, and then only
\* after another fault; a Turn that the snapshot holds is not started again by a repeated start; and
\* where all jobs are in one group, as without an environment, neither is one that was reported finished.
TurnsHappenOnce ==
    [][/\ OnlyRefusalsOverwrite /\ StartsAreNotSaved
       /\ focus = "busy" => OutcomesStay /\ StartsAreUnfinished]_<<vars, focus>>
=============================================================================
