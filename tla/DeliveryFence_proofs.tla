------------------------ MODULE DeliveryFence_proofs ------------------------
(***************************************************************************)
(* Proofs about DeliveryFence: for any number of jobs, destinations,       *)
(* crashes and lost answers a destination is posted to at most once, and   *)
(* the receipt that the fence keeps says what the provider did.            *)
(***************************************************************************)
EXTENDS DeliveryFence, TLAPS

\* A job between its claim of a row and the write that gives the claim up.
Holds(j) == job[j].pc \in {"post", "record", "uncertain", "release"}

\* A job in a destination has one, and knows its verdict when it comes to write it.
Underway ==
    \A j \in Jobs :
        /\ job[j].pc \notin {"ready", "processed", "dropped"} => At(j) \in Destinations
        /\ job[j].pc = "record" => job[j].verdict \in Verdicts

\* The claim excludes: a second job claims a row only after it was released.
OneHolder == \A j, k \in Jobs : Holds(j) /\ Holds(k) /\ At(j) = At(k) => j = k

\* While a job holds its claim the row is still sending, was given up as unknown by a job that
\* came after the lease, or has the verdict whose answer was lost.
ClaimStands ==
    \A j \in Jobs : Holds(j) =>
        \/ row[At(j)] \in Sending \cup {"outcome_unknown"}
        \/ job[j].pc = "uncertain" /\ row[At(j)] = "delivered"

\* What a holder knows of its post.
HolderKnows ==
    \A j \in Jobs :
        /\ job[j].pc \in {"post", "release"} => accepted[At(j)] = 0
        /\ job[j].pc = "record" /\ job[j].verdict = "delivered" => accepted[At(j)] = 1
        /\ job[j].pc = "record" /\ job[j].verdict = "not_delivered" => accepted[At(j)] = 0

\* A destination without a row was never posted to.
NoRowNoPost == \A d \in Destinations : row[d] = "none" => accepted[d] = 0

\* The inductive invariant.
FenceInv ==
    /\ Assumptions /\ TypeOK /\ Underway /\ OneHolder /\ ClaimStands /\ HolderKnows
    /\ NoRowNoPost /\ AtMostOnePost /\ VerdictsAreTrue

-----------------------------------------------------------------------------
(* How a step moves a job *)

\* Only job j moves.
OnlyMoves(j) ==
    /\ job' \in [Jobs -> JobState]
    /\ \A k \in Jobs \ {j} : job'[k] = job[k]

LEMMA Becomes ==
    ASSUME TypeOK, NEW j \in Jobs, NEW me \in JobState, job' = [job EXCEPT ![j] = me]
    PROVE  OnlyMoves(j) /\ job'[j] = me
  BY DEF TypeOK, OnlyMoves

LEMMA FreshType ==
    ASSUME Assumptions
    PROVE  Fresh \in JobState /\ Fresh.pc = "ready"
  BY DEF Assumptions, Fresh, JobState

\* A job goes on with its destination.
LEMMA GoesOn ==
    ASSUME TypeOK, NEW j \in Jobs,
           NEW pc \in {"ready", "read", "expire", "post", "record", "uncertain", "release", "processed",
                       "dropped"},
           Goes(j, pc)
    PROVE  OnlyMoves(j) /\ job'[j].pc = pc /\ job'[j].at = At(j) /\ job'[j].verdict = job[j].verdict
  <1> DEFINE me == [job[j] EXCEPT !.pc = pc]
  <1>1. job[j] \in JobState
    BY DEF TypeOK
  <1>2. me \in JobState /\ me.pc = pc /\ me.at = At(j) /\ me.verdict = job[j].verdict
    BY <1>1 DEF JobState, At
  <1>3. job' = [job EXCEPT ![j] = me]
    BY DEF Goes, TypeOK
  <1> HIDE DEF me
  <1> QED
    BY <1>2, <1>3, Becomes

\* A job goes to write its verdict.
LEMMA GoesToRecord ==
    ASSUME TypeOK, NEW j \in Jobs, NEW verdict \in Verdicts,
           job' = [job EXCEPT ![j] = [@ EXCEPT !.pc = "record", !.verdict = verdict]]
    PROVE  OnlyMoves(j) /\ job'[j].pc = "record" /\ job'[j].at = At(j) /\ job'[j].verdict = verdict
  <1> DEFINE me == [job[j] EXCEPT !.pc = "record", !.verdict = verdict]
  <1>1. job[j] \in JobState
    BY DEF TypeOK
  <1>2. me \in JobState /\ me.pc = "record" /\ me.at = At(j) /\ me.verdict = verdict
    BY <1>1 DEF JobState, At
  <1>3. job' = [job EXCEPT ![j] = me]
    BY DEF TypeOK
  <1> HIDE DEF me
  <1> QED
    BY <1>2, <1>3, Becomes

\* A job starts over.
LEMMA StartsOver ==
    ASSUME Assumptions, TypeOK, NEW j \in Jobs, Throws(j)
    PROVE  OnlyMoves(j) /\ job'[j].pc = "ready"
  BY FreshType, Becomes DEF Throws

\* A job goes on to the next destination.
LEMMA MovesOn ==
    ASSUME Assumptions, TypeOK, NEW j \in Jobs, At(j) \in Destinations, NEW failed \in BOOLEAN,
           job' = [job EXCEPT ![j] = [Fresh EXCEPT !.at = At(j) + 1, !.failed = failed]]
    PROVE  OnlyMoves(j) /\ job'[j].pc = "ready"
  <1> DEFINE me == [Fresh EXCEPT !.at = At(j) + 1, !.failed = failed]
  <1>1. At(j) + 1 \in 1 .. Last + 1
    BY DEF Assumptions, Destinations
  <1>2. me \in JobState /\ me.pc = "ready"
    BY <1>1, FreshType DEF JobState
  <1> HIDE DEF me
  <1> QED
    BY <1>2, Becomes DEF me

LEMMA MovesReady ==
    ASSUME Assumptions, TypeOK, NEW j \in Jobs, At(j) \in Destinations, Moves(j)
    PROVE  OnlyMoves(j) /\ job'[j].pc = "ready"
  <1>1. job[j].failed \in BOOLEAN
    BY DEF TypeOK, JobState
  <1> QED
    BY <1>1, MovesOn DEF Moves

LEMMA FaultType ==
    ASSUME Assumptions, TypeOK, Fault \/ UNCHANGED faults
    PROVE  faults' \in 0 .. MaxFaults
  BY DEF Assumptions, TypeOK, Fault

-----------------------------------------------------------------------------
(* What the steps do to a row and its holder *)

\* A job that holds no claim any more changes nothing by leaving.
LEMMA Quiet ==
    ASSUME FenceInv, NEW j \in Jobs, OnlyMoves(j),
           job'[j].pc \in {"ready", "read", "expire", "processed", "dropped"},
           job'[j].pc \in {"read", "expire"} => job'[j].at \in Destinations,
           UNCHANGED <<row, accepted>>, faults' \in 0 .. MaxFaults
    PROVE  FenceInv'
  <1>1. TypeOK' /\ Assumptions'
    BY DEF FenceInv, TypeOK, OnlyMoves, Assumptions
  <1>2. \A k \in Jobs : job'[k].pc \in {"post", "record", "uncertain", "release"} => job'[k] = job[k] /\ k # j
    BY DEF OnlyMoves
  <1>3. Underway'
    BY <1>2 DEF FenceInv, Underway, OnlyMoves, At, Destinations
  <1>4. OneHolder'
    BY <1>2 DEF FenceInv, OneHolder, Holds, At
  <1>5. ClaimStands' /\ HolderKnows'
    BY <1>2 DEF FenceInv, ClaimStands, HolderKnows, Holds, At
  <1>6. NoRowNoPost' /\ AtMostOnePost' /\ VerdictsAreTrue'
    BY DEF FenceInv, NoRowNoPost, AtMostOnePost, VerdictsAreTrue
  <1> QED
    BY <1>1, <1>3, <1>4, <1>5, <1>6 DEF FenceInv

\* A verdict is written, by the holder or over a claim that expired, and the writer leaves.
LEMMA Written ==
    ASSUME FenceInv, NEW j \in Jobs, OnlyMoves(j), job'[j].pc = "ready", At(j) \in Destinations,
           NEW v \in Verdicts, row' = [row EXCEPT ![At(j)] = v],
           v = "delivered" => accepted[At(j)] = 1,
           v = "not_delivered" => accepted[At(j)] = 0,
           v = "outcome_unknown" \/ Holds(j),
           UNCHANGED accepted, faults' \in 0 .. MaxFaults
    PROVE  FenceInv'
  <1>1. row' \in [Destinations -> {"none"} \union Sending \union Verdicts]
    BY DEF FenceInv, TypeOK
  <1>2. TypeOK' /\ Assumptions'
    BY <1>1 DEF FenceInv, TypeOK, OnlyMoves, Assumptions
  <1>3. \A k \in Jobs : job'[k].pc \in {"post", "record", "uncertain", "release"} => job'[k] = job[k] /\ k # j
    BY DEF OnlyMoves
  <1>4. Underway'
    BY <1>3 DEF FenceInv, Underway, OnlyMoves, At, Destinations
  <1>5. OneHolder' /\ HolderKnows'
    BY <1>3 DEF FenceInv, OneHolder, HolderKnows, Holds, At
  <1>6. ClaimStands'
    <2> SUFFICES ASSUME NEW k \in Jobs, Holds(k)'
                 PROVE  \/ row'[job'[k].at] \in Sending \cup {"outcome_unknown"}
                        \/ job'[k].pc = "uncertain" /\ row'[job'[k].at] = "delivered"
      BY DEF ClaimStands, At
    <2>1. job'[k] = job[k] /\ k # j /\ Holds(k)
      BY <1>3 DEF Holds
    <2>2. At(k) \in Destinations /\ row \in [Destinations -> {"none"} \union Sending \union Verdicts]
      BY <2>1 DEF FenceInv, Underway, Holds, TypeOK
    <2>3. CASE At(k) = At(j)
      <3>1. v = "outcome_unknown"
        BY <2>1, <2>3 DEF FenceInv, OneHolder
      <3> QED
        BY <2>1, <2>2, <2>3, <3>1 DEF At
    <2>4. CASE At(k) # At(j)
      BY <2>1, <2>2, <2>4 DEF FenceInv, ClaimStands, At
    <2> QED
      BY <2>3, <2>4
  <1>7. row \in [Destinations -> {"none"} \union Sending \union Verdicts] /\ accepted[At(j)] <= 1
    BY DEF FenceInv, TypeOK, AtMostOnePost
  <1>8. NoRowNoPost' /\ AtMostOnePost'
    BY <1>7 DEF FenceInv, NoRowNoPost, AtMostOnePost, Verdicts
  <1>9. VerdictsAreTrue'
    BY <1>7 DEF FenceInv, VerdictsAreTrue, Verdicts
  <1> QED
    BY <1>2, <1>4, <1>5, <1>6, <1>8, <1>9 DEF FenceInv

\* What the step of a holder that keeps its claim writes, and what it knows after it.
Learns(j) ==
    /\ \/ row' = row
       \/ /\ job'[j].pc = "uncertain" /\ row' = [row EXCEPT ![At(j)] = "delivered"]
          /\ accepted[At(j)] = 1 /\ accepted' = accepted
    /\ \/ accepted' = accepted
       \/ accepted[At(j)] = 0 /\ accepted' = [accepted EXCEPT ![At(j)] = 1]
    /\ job'[j].pc = "release" => accepted'[At(j)] = 0
    /\ job'[j].pc = "record" /\ job'[j].verdict = "delivered" => accepted'[At(j)] = 1
    /\ job'[j].pc = "record" /\ job'[j].verdict = "not_delivered" => accepted'[At(j)] = 0

\* A holder learns what its post did, or gave its answer and waits for another: it keeps the claim.
LEMMA Keeps ==
    ASSUME FenceInv, NEW j \in Jobs, OnlyMoves(j), Holds(j), job'[j].at = At(j),
           job'[j].pc \in {"record", "release", "uncertain"},
           job'[j].pc = "record" => job'[j].verdict \in Verdicts,
           row[At(j)] \in Sending \cup {"outcome_unknown"},
           Learns(j), faults' \in 0 .. MaxFaults
    PROVE  FenceInv'
  <1>1. At(j) \in Destinations
    BY DEF FenceInv, Underway, Holds
  <1>2. /\ row \in [Destinations -> {"none"} \union Sending \union Verdicts]
        /\ accepted \in [Destinations -> Nat]
    BY DEF FenceInv, TypeOK
  <1>3. row' \in [Destinations -> {"none"} \union Sending \union Verdicts]
    BY <1>2 DEF Verdicts, Learns
  <1>4. accepted' \in [Destinations -> Nat] /\ accepted'[At(j)] <= 1
    BY <1>1, <1>2 DEF FenceInv, AtMostOnePost, Learns
  <1>5. TypeOK' /\ Assumptions'
    BY <1>3, <1>4 DEF FenceInv, TypeOK, OnlyMoves, Assumptions
  <1>6. \A k \in Jobs \ {j} : job'[k] = job[k]
    BY DEF OnlyMoves
  <1>7. Underway'
    BY <1>1, <1>6 DEF FenceInv, Underway, At, Destinations
  <1>8. OneHolder'
    BY <1>6 DEF FenceInv, OneHolder, Holds, At
  <1>9. \A k \in Jobs \ {j} : Holds(k) => At(k) \in Destinations /\ At(k) # At(j)
    BY DEF FenceInv, OneHolder, Underway, Holds
  <1>10. \A d \in Destinations \ {At(j)} : row'[d] = row[d] /\ accepted'[d] = accepted[d]
    BY <1>1, <1>2 DEF Learns
  <1>11. \A k \in Jobs \ {j} : Holds(k)' => Holds(k) /\ job'[k] = job[k] /\ row'[At(k)] = row[At(k)]
                                           /\ accepted'[At(k)] = accepted[At(k)]
    BY <1>6, <1>9, <1>10 DEF Holds
  <1>12. \/ row'[At(j)] = row[At(j)]
         \/ job'[j].pc = "uncertain" /\ row'[At(j)] = "delivered"
    BY <1>1, <1>2 DEF Learns
  <1>13. ClaimStands'
    BY <1>11, <1>12 DEF FenceInv, ClaimStands, At
  <1>14. HolderKnows'
    <2> SUFFICES ASSUME NEW k \in Jobs
                 PROVE  /\ job'[k].pc \in {"post", "release"} => accepted'[job'[k].at] = 0
                        /\ job'[k].pc = "record" /\ job'[k].verdict = "delivered" => accepted'[job'[k].at] = 1
                        /\ job'[k].pc = "record" /\ job'[k].verdict = "not_delivered" => accepted'[job'[k].at] = 0
      BY DEF HolderKnows, At
    <2>1. CASE k = j
      BY <2>1 DEF Learns
    <2>2. CASE k # j
      BY <1>11, <2>2 DEF FenceInv, HolderKnows, Holds, At
    <2> QED
      BY <2>1, <2>2
  <1>15. NoRowNoPost' /\ AtMostOnePost'
    BY <1>1, <1>2, <1>4, <1>10, <1>12 DEF FenceInv, NoRowNoPost, AtMostOnePost, Sending
  <1>16. VerdictsAreTrue'
    <2>1. CASE row' = row
      BY <1>2, <1>10, <2>1 DEF FenceInv, VerdictsAreTrue, Sending
    <2>2. CASE row' # row
      <3>1. accepted' = accepted /\ accepted[At(j)] = 1 /\ row'[At(j)] = "delivered"
        BY <1>1, <1>2, <2>2 DEF Learns
      <3> QED
        BY <1>10, <3>1 DEF FenceInv, VerdictsAreTrue
    <2> QED
      BY <2>1, <2>2
  <1> QED
    BY <1>5, <1>7, <1>8, <1>13, <1>14, <1>15, <1>16 DEF FenceInv

-----------------------------------------------------------------------------
(* The steps of a job *)

LEMMA ClaimRowKeeps ==
    ASSUME FenceInv, NEW j \in Jobs, ClaimRow(j)
    PROVE  FenceInv'
  <1> USE DEF FenceInv
  <1>1. /\ At(j) \in Destinations /\ row[At(j)] = "none"
        /\ row' = [row EXCEPT ![At(j)] = "sending"] /\ accepted' = accepted
        /\ faults' \in 0 .. MaxFaults
    BY FaultType DEF ClaimRow, Answered
  <1>2. /\ OnlyMoves(j)
        /\ \/ job'[j].pc = "post" /\ job'[j].at = At(j)
           \/ job'[j].pc = "ready"
    <2>1. CASE Goes(j, "post")
      BY <2>1, GoesOn
    <2>2. CASE Throws(j)
      BY <2>2, StartsOver
    <2> QED
      BY <2>1, <2>2 DEF ClaimRow, Answered
  <1>3. row \in [Destinations -> {"none"} \union Sending \union Verdicts]
    BY DEF TypeOK
  <1>4. TypeOK'
    BY <1>1, <1>2, <1>3 DEF TypeOK, OnlyMoves, Sending
  <1>5. Underway'
    BY <1>1, <1>2 DEF Underway, OnlyMoves, At, Destinations
  <1>6. \A k \in Jobs : Holds(k) => At(k) \in Destinations /\ At(k) # At(j)
    BY <1>1 DEF ClaimStands, Underway, Holds, Sending
  <1>7. \A k \in Jobs \ {j} : job'[k] = job[k]
    BY <1>2 DEF OnlyMoves
  <1>8. OneHolder'
    BY <1>2, <1>6, <1>7 DEF OneHolder, Holds, At
  <1>9. row'[At(j)] = "sending" /\ \A d \in Destinations \ {At(j)} : row'[d] = row[d]
    BY <1>1, <1>3
  <1>10. ClaimStands'
    BY <1>2, <1>6, <1>7, <1>9 DEF ClaimStands, Holds, At, Sending
  <1>11. HolderKnows'
    BY <1>1, <1>2, <1>7 DEF HolderKnows, NoRowNoPost, At
  <1>12. NoRowNoPost' /\ AtMostOnePost' /\ VerdictsAreTrue'
    BY <1>1, <1>9 DEF NoRowNoPost, AtMostOnePost, VerdictsAreTrue
  <1> QED
    BY <1>1, <1>4, <1>5, <1>8, <1>10, <1>11, <1>12 DEF Assumptions

LEMMA ClaimRefusedKeeps ==
    ASSUME FenceInv, NEW j \in Jobs, ClaimRefused(j)
    PROVE  FenceInv'
  <1> DEFINE me == [job[j] EXCEPT !.pc = "read", !.late = row[At(j)] = "expired"]
  <1>1. job[j] \in JobState
    BY DEF FenceInv, TypeOK
  <1>2. me \in JobState /\ me.pc = "read" /\ me.at = At(j)
    BY <1>1 DEF JobState, At
  <1>3. job' = [job EXCEPT ![j] = me]
    BY DEF ClaimRefused, FenceInv, TypeOK
  <1> HIDE DEF me
  <1>4. OnlyMoves(j) /\ job'[j].pc = "read" /\ job'[j].at = At(j)
    BY <1>2, <1>3, Becomes DEF FenceInv
  <1> QED
    BY <1>4, Quiet, FaultType DEF ClaimRefused, FenceInv

LEMMA ReadRowKeeps ==
    ASSUME FenceInv, NEW j \in Jobs, ReadRow(j)
    PROVE  FenceInv'
  <1>1. At(j) \in Destinations /\ UNCHANGED <<row, accepted>> /\ faults' \in 0 .. MaxFaults
    BY FaultType DEF ReadRow, FenceInv, Underway
  <1>2. CASE Goes(j, "ready")
    BY <1>1, <1>2, GoesOn, Quiet DEF FenceInv
  <1>3. CASE Moves(j)
    BY <1>1, <1>3, MovesReady, Quiet DEF FenceInv
  <1>4. CASE Goes(j, "expire")
    BY <1>1, <1>4, GoesOn, Quiet DEF FenceInv
  <1>5. CASE Throws(j)
    BY <1>1, <1>5, StartsOver, Quiet DEF FenceInv
  <1> QED
    BY <1>2, <1>3, <1>4, <1>5 DEF ReadRow

LEMMA MarkUnknownKeeps ==
    ASSUME FenceInv, NEW j \in Jobs, MarkUnknown(j)
    PROVE  FenceInv'
  <1>1. At(j) \in Destinations /\ accepted' = accepted /\ faults' \in 0 .. MaxFaults
    BY FaultType DEF MarkUnknown, Answered, FenceInv, Underway
  <1>2. OnlyMoves(j) /\ job'[j].pc = "ready"
    <2>1. CASE Moves(j)
      BY <1>1, <2>1, MovesReady DEF FenceInv
    <2>2. CASE Throws(j)
      BY <2>2, StartsOver DEF FenceInv
    <2> QED
      BY <2>1, <2>2 DEF MarkUnknown, Answered
  <1>3. CASE row' = [row EXCEPT ![At(j)] = "outcome_unknown"]
    BY <1>1, <1>2, <1>3, Written DEF Verdicts
  <1>4. CASE UNCHANGED row
    BY <1>1, <1>2, <1>4, Quiet
  <1> QED
    BY <1>3, <1>4 DEF MarkUnknown

LEMMA PostKeeps ==
    ASSUME FenceInv, NEW j \in Jobs, Post(j)
    PROVE  FenceInv'
  <1>1. /\ Holds(j) /\ At(j) \in Destinations /\ accepted[At(j)] = 0
        /\ row[At(j)] \in Sending \cup {"outcome_unknown"}
    BY DEF Post, FenceInv, Holds, Underway, HolderKnows, ClaimStands
  <1>2. row' = row /\ faults' \in 0 .. MaxFaults
    BY FaultType DEF Post, FenceInv
  <1>3. accepted \in [Destinations -> Nat]
    BY DEF FenceInv, TypeOK
  <1>4. CASE /\ accepted' = [accepted EXCEPT ![At(j)] = @ + 1]
             /\ \E verdict \in {"delivered", "outcome_unknown"} :
                  job' = [job EXCEPT ![j] = [@ EXCEPT !.pc = "record", !.verdict = verdict]]
    <2>1. PICK verdict \in {"delivered", "outcome_unknown"} :
            job' = [job EXCEPT ![j] = [@ EXCEPT !.pc = "record", !.verdict = verdict]]
      BY <1>4
    <2>2. OnlyMoves(j) /\ job'[j].pc = "record" /\ job'[j].at = At(j) /\ job'[j].verdict = verdict
      BY <2>1, GoesToRecord DEF FenceInv, Verdicts
    <2>3. accepted'[At(j)] = 1
      BY <1>1, <1>3, <1>4
    <2>4. Learns(j)
      BY <1>1, <1>2, <1>3, <1>4, <2>2, <2>3 DEF Learns
    <2> QED
      BY <1>1, <1>2, <2>2, <2>4, Keeps DEF Verdicts
  <1>5. CASE Goes(j, "release") /\ accepted' = accepted
    <2>1. OnlyMoves(j) /\ job'[j].pc = "release" /\ job'[j].at = At(j)
      BY <1>5, GoesOn DEF FenceInv
    <2>2. Learns(j)
      BY <1>1, <1>2, <1>5, <2>1 DEF Learns
    <2> QED
      BY <1>1, <1>2, <2>1, <2>2, Keeps
  <1>6. CASE /\ \E verdict \in {"not_delivered", "outcome_unknown"} :
                  job' = [job EXCEPT ![j] = [@ EXCEPT !.pc = "record", !.verdict = verdict]]
             /\ accepted' = accepted
    <2>1. PICK verdict \in {"not_delivered", "outcome_unknown"} :
            job' = [job EXCEPT ![j] = [@ EXCEPT !.pc = "record", !.verdict = verdict]]
      BY <1>6
    <2>2. OnlyMoves(j) /\ job'[j].pc = "record" /\ job'[j].at = At(j) /\ job'[j].verdict = verdict
      BY <2>1, GoesToRecord DEF FenceInv, Verdicts
    <2>3. Learns(j)
      BY <1>1, <1>2, <1>6, <2>2 DEF Learns
    <2> QED
      BY <1>1, <1>2, <2>2, <2>3, Keeps DEF Verdicts
  <1> QED
    BY <1>4, <1>5, <1>6 DEF Post

LEMMA RecordVerdictKeeps ==
    ASSUME FenceInv, NEW j \in Jobs, RecordVerdict(j)
    PROVE  FenceInv'
  <1> DEFINE v == job[j].verdict
  <1>1. /\ Holds(j) /\ At(j) \in Destinations /\ v \in Verdicts
        /\ v = "delivered" => accepted[At(j)] = 1
        /\ v = "not_delivered" => accepted[At(j)] = 0
        /\ row[At(j)] \in Sending \cup {"outcome_unknown"}
    BY DEF RecordVerdict, FenceInv, Holds, Underway, HolderKnows, ClaimStands
  <1>2. accepted' = accepted /\ faults' \in 0 .. MaxFaults
    BY FaultType DEF RecordVerdict, FenceInv
  <1>3. CASE row' = [row EXCEPT ![At(j)] = v] /\ Moves(j)
    <2>1. OnlyMoves(j) /\ job'[j].pc = "ready"
      BY <1>1, <1>3, MovesReady DEF FenceInv
    <2> QED
      BY <1>1, <1>2, <1>3, <2>1, Written
  <1>4. CASE row' \in {row, [row EXCEPT ![At(j)] = v]} /\ v = "delivered" /\ Goes(j, "uncertain")
    <2>1. OnlyMoves(j) /\ job'[j].pc = "uncertain" /\ job'[j].at = At(j)
      BY <1>4, GoesOn DEF FenceInv
    <2>2. Learns(j)
      BY <1>1, <1>2, <1>4, <2>1 DEF Learns
    <2> QED
      BY <1>1, <1>2, <2>1, <2>2, Keeps
  <1>5. CASE row' \in {row, [row EXCEPT ![At(j)] = v]} /\ Throws(j)
    <2>1. OnlyMoves(j) /\ job'[j].pc = "ready"
      BY <1>5, StartsOver DEF FenceInv
    <2>2. CASE row' = row
      BY <1>2, <2>1, <2>2, Quiet
    <2>3. CASE row' = [row EXCEPT ![At(j)] = v]
      BY <1>1, <1>2, <2>1, <2>3, Written
    <2> QED
      BY <1>5, <2>2, <2>3
  <1> QED
    BY <1>3, <1>4, <1>5 DEF RecordVerdict

LEMMA RecordUncertainKeeps ==
    ASSUME FenceInv, NEW j \in Jobs, RecordUncertain(j)
    PROVE  FenceInv'
  <1>1. At(j) \in Destinations /\ accepted' = accepted /\ faults' \in 0 .. MaxFaults
    BY FaultType DEF RecordUncertain, Answered, FenceInv, Underway
  <1>2. OnlyMoves(j) /\ job'[j].pc = "ready"
    <2>1. CASE Moves(j)
      BY <1>1, <2>1, MovesReady DEF FenceInv
    <2>2. CASE Throws(j)
      BY <2>2, StartsOver DEF FenceInv
    <2> QED
      BY <2>1, <2>2 DEF RecordUncertain, Answered
  <1> QED
    BY <1>1, <1>2, Written DEF RecordUncertain, Verdicts

LEMMA ReleaseKeeps ==
    ASSUME FenceInv, NEW j \in Jobs, Release(j)
    PROVE  FenceInv'
  <1>1. /\ Holds(j) /\ At(j) \in Destinations /\ accepted[At(j)] = 0
        /\ accepted' = accepted /\ faults' \in 0 .. MaxFaults
    BY FaultType DEF Release, Answered, FenceInv, Holds, Underway, HolderKnows
  <1>2. OnlyMoves(j) /\ job'[j].pc = "ready"
    <2>1. CASE job' = [job EXCEPT ![j] = [Fresh EXCEPT !.at = At(j) + 1, !.failed = TRUE]]
      BY <1>1, <2>1, MovesOn DEF FenceInv
    <2>2. CASE Throws(j)
      BY <2>2, StartsOver DEF FenceInv
    <2> QED
      BY <2>1, <2>2 DEF Release, Answered
  <1>3. CASE UNCHANGED row
    BY <1>1, <1>2, <1>3, Quiet
  <1>4. CASE row' = [row EXCEPT ![At(j)] = "none"]
    <2>1. row \in [Destinations -> {"none"} \union Sending \union Verdicts]
      BY DEF FenceInv, TypeOK
    <2>2. TypeOK' /\ Assumptions'
      BY <1>1, <1>2, <1>4, <2>1 DEF FenceInv, TypeOK, OnlyMoves, Assumptions
    <2>3. \A k \in Jobs : Holds(k)' => job'[k] = job[k] /\ At(k) # At(j) /\ Holds(k) /\ At(k) \in Destinations
      BY <1>1, <1>2 DEF FenceInv, OneHolder, Underway, Holds, OnlyMoves
    <2>4. Underway'
      BY <1>2 DEF FenceInv, Underway, OnlyMoves, At, Destinations
    <2>5. OneHolder' /\ HolderKnows'
      BY <1>1, <2>3 DEF FenceInv, OneHolder, HolderKnows, Holds, At
    <2>6. ClaimStands'
      BY <1>4, <2>1, <2>3 DEF FenceInv, ClaimStands, At
    <2>7. NoRowNoPost' /\ AtMostOnePost' /\ VerdictsAreTrue'
      BY <1>1, <1>4, <2>1 DEF FenceInv, NoRowNoPost, AtMostOnePost, VerdictsAreTrue
    <2> QED
      BY <2>2, <2>4, <2>5, <2>6, <2>7 DEF FenceInv
  <1> QED
    BY <1>3, <1>4 DEF Release

LEMMA FinishKeeps ==
    ASSUME FenceInv, NEW j \in Jobs, Finish(j)
    PROVE  FenceInv'
  <1>1. UNCHANGED <<row, accepted>> /\ faults' \in 0 .. MaxFaults
    BY FaultType DEF Finish, FenceInv
  <1>2. CASE Throws(j)
    BY <1>1, <1>2, StartsOver, Quiet DEF FenceInv
  <1>3. CASE Goes(j, "processed")
    BY <1>1, <1>3, GoesOn, Quiet DEF FenceInv
  <1> QED
    BY <1>2, <1>3 DEF Finish

LEMMA CrashKeeps ==
    ASSUME FenceInv, NEW j \in Jobs, Crash(j)
    PROVE  FenceInv'
  <1>1. OnlyMoves(j) /\ job'[j].pc = "ready"
    BY StartsOver DEF Crash, FenceInv
  <1> QED
    BY <1>1, Quiet, FaultType DEF Crash, FenceInv

LEMMA DropKeeps ==
    ASSUME FenceInv, NEW j \in Jobs, Drop(j)
    PROVE  FenceInv'
  <1>1. Goes(j, "dropped") /\ UNCHANGED <<row, accepted>> /\ faults' \in 0 .. MaxFaults
    BY FaultType DEF Drop, FenceInv
  <1>2. OnlyMoves(j) /\ job'[j].pc = "dropped"
    BY <1>1, GoesOn DEF FenceInv
  <1> QED
    BY <1>1, <1>2, Quiet

\* A lease that runs out changes who may write the row, not what is known of the post.
LEMMA LeaseExpiresKeeps ==
    ASSUME FenceInv, NEW d \in Destinations, LeaseExpires(d)
    PROVE  FenceInv'
  <1>1. /\ row' = [row EXCEPT ![d] = "expired"] /\ row[d] = "sending"
        /\ UNCHANGED <<job, accepted, faults>>
        /\ row \in [Destinations -> {"none"} \union Sending \union Verdicts]
    BY DEF LeaseExpires, FenceInv, TypeOK
  <1>2. TypeOK' /\ Assumptions'
    BY <1>1 DEF FenceInv, TypeOK, Sending, Assumptions
  <1>3. Underway' /\ OneHolder' /\ HolderKnows'
    BY <1>1 DEF FenceInv, Underway, OneHolder, HolderKnows, Holds, At
  <1>4. ClaimStands'
    BY <1>1 DEF FenceInv, ClaimStands, Underway, Holds, At, Sending
  <1>5. NoRowNoPost' /\ AtMostOnePost' /\ VerdictsAreTrue'
    BY <1>1 DEF FenceInv, NoRowNoPost, AtMostOnePost, VerdictsAreTrue
  <1> QED
    BY <1>2, <1>3, <1>4, <1>5 DEF FenceInv

-----------------------------------------------------------------------------

LEMMA FenceInitially ==
    ASSUME Assumptions, Init
    PROVE  FenceInv
  <1>1. TypeOK
    BY FreshType DEF Assumptions, Init, TypeOK
  <1>2. \A j \in Jobs : job[j].pc = "ready"
    BY FreshType DEF Init
  <1>3. Underway /\ OneHolder /\ ClaimStands /\ HolderKnows
    BY <1>2 DEF Underway, OneHolder, ClaimStands, HolderKnows, Holds
  <1>4. NoRowNoPost /\ AtMostOnePost /\ VerdictsAreTrue
    BY DEF Init, NoRowNoPost, AtMostOnePost, VerdictsAreTrue
  <1> QED
    BY <1>1, <1>3, <1>4 DEF FenceInv

LEMMA FenceStep ==
    ASSUME FenceInv, [Next]_vars
    PROVE  FenceInv'
  <1>1. CASE \E j \in Jobs : JobStep(j) \/ Crash(j) \/ Drop(j)
    <2>1. PICK j \in Jobs : JobStep(j) \/ Crash(j) \/ Drop(j)
      BY <1>1
    <2> QED
      BY <2>1, ClaimRowKeeps, ClaimRefusedKeeps, ReadRowKeeps, MarkUnknownKeeps, PostKeeps,
         RecordVerdictKeeps, RecordUncertainKeeps, ReleaseKeeps, FinishKeeps, CrashKeeps,
         DropKeeps
      DEF JobStep
  <1>2. CASE \E d \in Destinations : LeaseExpires(d)
    BY <1>2, LeaseExpiresKeeps
  <1>3. CASE UNCHANGED vars
    BY <1>3 DEF vars, FenceInv, Assumptions, TypeOK, Underway, OneHolder, ClaimStands, HolderKnows,
                Holds, At, NoRowNoPost, AtMostOnePost, VerdictsAreTrue
  <1> QED
    BY <1>1, <1>2, <1>3 DEF Next, JobStep

LEMMA FenceInvariant == Assumptions /\ Spec => []FenceInv
  <1>1. Assumptions /\ Init => FenceInv
    BY FenceInitially
  <1>2. FenceInv /\ [Next]_vars => FenceInv'
    BY FenceStep
  <1> QED
    BY <1>1, <1>2, PTL DEF Spec

\* The rows, the jobs and the count of accepted posts keep their types: a job only works on a
\* destination that there is, and only ever records a verdict.
THEOREM FenceTypes == Assumptions /\ Spec => []TypeOK
  <1>1. FenceInv => TypeOK
    BY DEF FenceInv
  <1> QED
    BY <1>1, FenceInvariant, PTL

\* dynamo-delivery-fence.ts: whatever crashes, is delivered again or loses its answer, a provider
\* accepts at most one post for a destination, and "delivered" and "not_delivered" are true.
THEOREM TrueFence == Assumptions /\ Spec => []FenceIsTrue
  <1>1. FenceInv => FenceIsTrue
    BY DEF FenceInv, FenceIsTrue
  <1> QED
    BY <1>1, FenceInvariant, PTL
=============================================================================
