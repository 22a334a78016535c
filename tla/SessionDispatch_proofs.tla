----------------------- MODULE SessionDispatch_proofs -----------------------
(***************************************************************************)
(* Proofs about SessionDispatch: an input is accepted once, one Turn is    *)
(* open, one harness has the authority of a Session, deleting the Session  *)
(* stops it, outcomes are kept, and a Turn that was saved is not started;  *)
(* for any number of inputs, cancellations and faults.                     *)
(***************************************************************************)
EXTENDS SessionDispatch, SequenceTheorems, FiniteSetTheorems, WellFoundedInduction, TLAPS

CopyState == [turns : Seq(Turn), receipts : Seq(Receipt)]
JobPc == {"idle", "initialize", "start", "run", "deliver", "launch", "claim", "submit", "fail",
          "steer", "steering", "cancel", "interrupt", "observe", "settle", "ack"}

-----------------------------------------------------------------------------
(* The inductive invariant of accepting input *)

Keyed(k) == \E i \in DOMAIN session.receipts : session.receipts[i].key = k

\* A start names a Turn of the list it stands in.
Known(list) ==
    \A i \in DOMAIN list.receipts :
        list.receipts[i].type = "start" => list.receipts[i].turn \in DOMAIN list.turns

\* Every Turn was asked for by a message, so there are no more Turns than messages.
TurnsAreAsked ==
    \A t \in DOMAIN session.turns : \E i \in DOMAIN session.receipts :
        /\ session.receipts[i].type = "start" /\ session.receipts[i].turn = t
        /\ session.receipts[i].key \in Messages

\* A plan of the current revision is for a key without a receipt, and knows every outcome.
PlanIsCurrent(k) ==
    client[k].pc = "planned" =>
        /\ client[k].revision <= session.revision
        /\ client[k].revision = session.revision =>
             /\ ~Keyed(k)
             /\ Len(client[k].turns) = Len(session.turns)
             /\ \A t \in DOMAIN session.turns : session.turns[t].status \in Finished =>
                    client[k].turns[t] = session.turns[t].status

\* What a job read of the Session is an earlier state of it.
Sees(me, turns) ==
    /\ Known(me.copy)
    /\ Len(me.copy.turns) <= Len(turns)
    /\ me.then = "observe" => me.turn \in DOMAIN me.copy.turns
    /\ me.pc = "observe" => me.then = "observe"

AcceptInv ==
    /\ Assumptions /\ TypeOK
    /\ OneReceiptPerKey /\ OneOpenTurn
    /\ Known(session) /\ TurnsAreAsked
    /\ \A k \in Keys : PlanIsCurrent(k)
    /\ \A j \in Jobs : Sees(job[j], session.turns)

-----------------------------------------------------------------------------
(* Sequences and least numbers *)

\* A set of natural numbers that is not empty has a least member.
LEMMA LeastNumber ==
    ASSUME NEW S \in SUBSET Nat, S # {}
    PROVE  \E n \in S : \A m \in S : n <= m
  <1>1. PICK n \in S : \A m \in S : ~(<<m, n>> \in OpToRel(<, Nat))
    BY NatLessThanWellFounded, WFMin
  <1>2. \A m \in S : ~(m < n)
    BY <1>1 DEF OpToRel
  <1> QED
    BY <1>2

\* The members of a sequence may change one by one.
LEMMA Rewritten ==
    ASSUME NEW S, NEW s \in Seq(S), NEW f \in [DOMAIN s -> S]
    PROVE  f \in Seq(S) /\ Len(f) = Len(s) /\ DOMAIN f = DOMAIN s
  <1>1. Len(s) \in Nat /\ DOMAIN s = 1 .. Len(s)
    BY LenProperties
  <1>2. f \in [1 .. Len(s) -> S]
    BY <1>1
  <1>3. f \in Seq(S)
    BY <1>1, <1>2, SeqDef
  <1>4. Len(f) = Len(s)
    BY <1>1, <1>2, <1>3, LenProperties
  <1> QED
    BY <1>1, <1>3, <1>4, LenProperties

\* Changing the status of one Turn.
WithStatus(s, t, status) == [s EXCEPT ![t].status = status]

LEMMA StatusChanged ==
    ASSUME NEW s \in Seq(Turn), NEW t, NEW status, t \in DOMAIN s => status \in TurnStatus
    PROVE  LET f == WithStatus(s, t, status) IN
           /\ f \in Seq(Turn) /\ Len(f) = Len(s) /\ DOMAIN f = DOMAIN s
           /\ \A u \in DOMAIN s : /\ f[u].cancelRequested = s[u].cancelRequested
                                  /\ f[u].status = IF u = t THEN status ELSE s[u].status
  <1> DEFINE f == WithStatus(s, t, status)
  <1>1. \A u \in DOMAIN s : s[u] \in Turn
    BY LenProperties, ElementOfSeq
  <1>2. \A u \in DOMAIN s : f[u] = IF u = t THEN [s[u] EXCEPT !.status = status] ELSE s[u]
    BY DEF WithStatus
  <1>3. \A u \in DOMAIN s : f[u] \in Turn
    BY <1>1, <1>2 DEF Turn
  <1>4. f \in [DOMAIN s -> Turn]
    BY <1>3 DEF WithStatus
  <1>5. f \in Seq(Turn) /\ Len(f) = Len(s) /\ DOMAIN f = DOMAIN s
    BY <1>4, Rewritten
  <1> HIDE DEF f
  <1>6. \A u \in DOMAIN s : /\ f[u].cancelRequested = s[u].cancelRequested
                            /\ f[u].status = IF u = t THEN status ELSE s[u].status
    BY <1>1, <1>2 DEF Turn
  <1> QED
    BY <1>5, <1>6 DEF f

-----------------------------------------------------------------------------
(* How a job moves *)

OnlyJob(j) ==
    /\ job' \in [Jobs -> JobState]
    /\ \A i \in Jobs \ {j} : job'[i] = job[i]

LEMMA JobBecomes ==
    ASSUME TypeOK, NEW j \in Jobs, NEW me \in JobState, job' = [job EXCEPT ![j] = me]
    PROVE  OnlyJob(j) /\ job'[j] = me
  BY DEF TypeOK, OnlyJob

LEMMA NoJobType == NoJob \in JobState /\ Known(NoJob.copy) /\ Len(NoJob.copy.turns) = 0
  <1>1. <<>> \in Seq(Turn) /\ <<>> \in Seq(Receipt) /\ Len(<<>>) = 0
    BY EmptySeq
  <1>2. NoRuntime \in RuntimeState
    BY DEF NoRuntime, RuntimeState, NativeStatus, Runs
  <1>3. Bootstrap \in Runs /\ DOMAIN <<>> = {}
    BY DEF Runs
  <1> QED
    BY <1>1, <1>2, <1>3 DEF NoJob, JobState, Copy, EmptySession, TurnStatus, Known

\* The command taken next is well formed and knows its Turn.
LEMMA NextCommandType ==
    ASSUME NEW copy \in CopyState, Known(copy), NEW at \in Nat
    PROVE  /\ NextCommand(copy, at) \in JobState
           /\ NextCommand(copy, at).copy \in {copy, NoJob.copy}
           /\ NextCommand(copy, at).pc # "observe"
           /\ NextCommand(copy, at).then = "observe" =>
                /\ NextCommand(copy, at).copy = copy
                /\ NextCommand(copy, at).turn \in DOMAIN copy.turns
  <1> DEFINE left == {i \in DOMAIN copy.receipts : i > at /\ ~copy.receipts[i].dispatched}
             first == CHOOSE n \in left : \A m \in left : n <= m
             receipt == copy.receipts[first]
             base == [NoJob EXCEPT !.copy = copy, !.at = first, !.turn = receipt.turn]
             cancelled == receipt.type = "start" /\ copy.turns[receipt.turn].cancelRequested
  <1>1. CASE left = {}
    BY <1>1, NoJobType DEF NextCommand, NoJob
  <1>2. CASE left # {}
    <2>1. left \in SUBSET Nat
      BY LenProperties DEF CopyState
    <2>2. first \in left
      BY <1>2, <2>1, LeastNumber
    <2>3. first \in Nat /\ receipt \in Receipt /\ first \in DOMAIN copy.receipts
      BY <2>1, <2>2, LenProperties, ElementOfSeq DEF CopyState
    <2>4. NextCommand(copy, at) =
            CASE cancelled -> [base EXCEPT !.pc = "cancel", !.then = "observe"]
              [] receipt.type = "none" -> [base EXCEPT !.pc = "ack"]
              [] OTHER -> [base EXCEPT !.pc = receipt.type]
      BY <1>2 DEF NextCommand
    <2> HIDE DEF first, receipt
    <2>5. /\ base \in JobState /\ base.copy = copy /\ base.then = "ack"
          /\ base.turn = receipt.turn
      BY <2>3, NoJobType DEF JobState, CopyState, Receipt, NoJob
    <2>6. cancelled => receipt.type = "start" /\ receipt.turn \in DOMAIN copy.turns
      BY <2>3 DEF Known, receipt
    <2> HIDE DEF base, cancelled
    <2>7. CASE cancelled
      <3>1. NextCommand(copy, at) = [base EXCEPT !.pc = "cancel", !.then = "observe"]
        BY <2>4, <2>6, <2>7
      <3>2. /\ [base EXCEPT !.pc = "cancel", !.then = "observe"] \in JobState
            /\ [base EXCEPT !.pc = "cancel", !.then = "observe"].copy = copy
            /\ [base EXCEPT !.pc = "cancel", !.then = "observe"].turn = receipt.turn
        BY <2>5 DEF JobState
      <3> QED
        BY <2>6, <2>7, <3>1, <3>2
    <2>8. CASE ~cancelled /\ receipt.type = "none"
      BY <2>4, <2>5, <2>8 DEF JobState
    <2>9. CASE ~cancelled /\ receipt.type # "none"
      <3>1. receipt.type \in {"start", "steer", "cancel"}
        BY <2>3, <2>9 DEF Receipt
      <3> QED
        BY <2>4, <2>5, <2>9, <3>1 DEF JobState
    <2> QED
      BY <2>7, <2>8, <2>9
  <1> QED
    BY <1>1, <1>2

\* A step of a job leaves the others alone; what it holds stays well formed.
LEMMA JobMoves ==
    ASSUME AcceptInv, NEW j \in Jobs
    PROVE  /\ Sees(NoJob, session.turns)
           /\ \A pc \in JobPc \ {"observe"} : Goes(j, pc) =>
                OnlyJob(j) /\ job'[j] = [job[j] EXCEPT !.pc = pc] /\ Sees(job'[j], session.turns)
           /\ Throws(j) => OnlyJob(j) /\ job'[j] = NoJob
           /\ Refused(j) => OnlyJob(j) /\ Sees(job'[j], session.turns)
           /\ \A copy \in CopyState, at \in Nat :
                Known(copy) /\ Advance(j, copy, at) =>
                  /\ OnlyJob(j) /\ job'[j] = NextCommand(copy, at)
                  /\ Len(copy.turns) <= Len(session.turns) => Sees(job'[j], session.turns)
  <1>a. TypeOK /\ job[j] \in JobState /\ Sees(job[j], session.turns)
    BY DEF AcceptInv, TypeOK
  <1>b. Len(session.turns) \in Nat
    BY LenProperties DEF AcceptInv, TypeOK, SessionState
  <1>c. Sees(NoJob, session.turns)
    BY <1>b, NoJobType DEF Sees, NoJob
  <1>1. ASSUME NEW pc \in JobPc \ {"observe"}, Goes(j, pc)
        PROVE  OnlyJob(j) /\ job'[j] = [job[j] EXCEPT !.pc = pc] /\ Sees(job'[j], session.turns)
    <2>1. [job[j] EXCEPT !.pc = pc] \in JobState
      BY <1>a, <1>1 DEF JobState, JobPc
    <2>2. job' = [job EXCEPT ![j] = [job[j] EXCEPT !.pc = pc]]
      BY <1>1 DEF Goes
    <2>3. OnlyJob(j) /\ job'[j] = [job[j] EXCEPT !.pc = pc]
      BY <1>a, <2>1, <2>2, JobBecomes
    <2> QED
      BY <1>a, <2>3 DEF Sees, JobState
  <1>2. Throws(j) => OnlyJob(j) /\ job'[j] = NoJob
    BY <1>a, NoJobType, JobBecomes DEF Throws
  <1>3. ASSUME Refused(j) PROVE OnlyJob(j) /\ Sees(job'[j], session.turns)
    <2>1. [job[j] EXCEPT !.pc = "ack", !.failed = TRUE] \in JobState
      BY <1>a, <1>3 DEF JobState, JobPc
    <2>2. job' = [job EXCEPT ![j] = [job[j] EXCEPT !.pc = "ack", !.failed = TRUE]]
      BY <1>a, <1>3 DEF Refused, TypeOK
    <2>3. OnlyJob(j) /\ job'[j] = [job[j] EXCEPT !.pc = "ack", !.failed = TRUE]
      BY <1>a, <2>1, <2>2, JobBecomes
    <2> QED
      BY <1>a, <2>3 DEF Sees, JobState
  <1>4. ASSUME NEW copy \in CopyState, NEW at \in Nat, Known(copy), Advance(j, copy, at)
        PROVE  /\ OnlyJob(j) /\ job'[j] = NextCommand(copy, at)
               /\ Len(copy.turns) <= Len(session.turns) => Sees(job'[j], session.turns)
    <2>1. OnlyJob(j) /\ job'[j] = NextCommand(copy, at)
      BY <1>a, <1>4, NextCommandType, JobBecomes DEF Advance
    <2> QED
      BY <1>b, <1>4, <2>1, NextCommandType, NoJobType DEF Sees
  <1> QED
    BY <1>c, <1>1, <1>2, <1>3, <1>4

-----------------------------------------------------------------------------
(* How the Session record moves *)

\* A write other than accepting an input: no Turn and no receipt comes or goes, an outcome
\* stays an outcome, and what changes a Turn changes the revision.
Continues(s, n) ==
    /\ n \in SessionState
    /\ DOMAIN n.turns = DOMAIN s.turns /\ DOMAIN n.receipts = DOMAIN s.receipts
    /\ Len(n.turns) = Len(s.turns)
    /\ \A t \in DOMAIN s.turns :
         /\ n.turns[t].cancelRequested = s.turns[t].cancelRequested
         /\ s.turns[t].status \in Finished => n.turns[t].status \in Finished
    /\ \A i \in DOMAIN s.receipts :
         /\ n.receipts[i].key = s.receipts[i].key
         /\ n.receipts[i].type = s.receipts[i].type
         /\ n.receipts[i].turn = s.receipts[i].turn
    /\ n.revision >= s.revision
    /\ n.revision = s.revision => n.turns = s.turns

LEMMA StatusContinues ==
    ASSUME NEW s \in SessionState, NEW t, NEW status,
           t \in DOMAIN s.turns => status \in TurnStatus
                /\ (s.turns[t].status \in Finished => status \in Finished)
    PROVE  Continues(s, [s EXCEPT !.revision = @ + 1, !.turns[t].status = status])
  <1>1. s.turns \in Seq(Turn) /\ s.revision \in Nat
    BY DEF SessionState
  <1>2. PICK turns : turns = WithStatus(s.turns, t, status)
    OBVIOUS
  <1>3. /\ turns \in Seq(Turn) /\ Len(turns) = Len(s.turns) /\ DOMAIN turns = DOMAIN s.turns
        /\ \A u \in DOMAIN s.turns :
              /\ turns[u].cancelRequested = s.turns[u].cancelRequested
              /\ turns[u].status = IF u = t THEN status ELSE s.turns[u].status
    BY <1>1, <1>2, StatusChanged
  <1>4. PICK n : n = [s EXCEPT !.revision = @ + 1, !.turns = turns]
    OBVIOUS
  <1>5. n = [s EXCEPT !.revision = @ + 1, !.turns[t].status = status]
    BY <1>2, <1>4 DEF WithStatus, SessionState
  <1>6. n.turns = turns /\ n.receipts = s.receipts /\ n.revision = s.revision + 1
    BY <1>4 DEF SessionState
  <1>7. n \in SessionState
    <2>1. turns \in Seq(Turn)
      BY <1>3
    <2>2. n = [phase |-> s.phase, revision |-> s.revision + 1, turns |-> turns,
               receipts |-> s.receipts]
      BY <1>4 DEF SessionState
    <2> QED
      BY <2>1, <2>2, <1>1 DEF SessionState
  <1>8. Continues(s, n)
    BY <1>1, <1>3, <1>6, <1>7 DEF Continues
  <1> QED
    BY <1>5, <1>8

LEMMA ReceiptContinues ==
    ASSUME NEW s \in SessionState, NEW i, NEW failed \in BOOLEAN
    PROVE  Continues(s, [s EXCEPT !.revision = @ + 1, !.receipts[i].dispatched = TRUE,
                                  !.receipts[i].failed = failed])
  <1> DEFINE receipts ==
        [k \in DOMAIN s.receipts |->
            IF k = i THEN [s.receipts[k] EXCEPT !.dispatched = TRUE, !.failed = failed]
            ELSE s.receipts[k]]
  <1>1. s.receipts \in Seq(Receipt) /\ s.revision \in Nat /\ s.turns \in Seq(Turn)
    BY DEF SessionState
  <1>2. \A k \in DOMAIN s.receipts : s.receipts[k] \in Receipt
    BY <1>1, LenProperties, ElementOfSeq
  <1>3. receipts \in [DOMAIN s.receipts -> Receipt]
    BY <1>2 DEF Receipt
  <1>4. /\ receipts \in Seq(Receipt) /\ DOMAIN receipts = DOMAIN s.receipts
        /\ \A k \in DOMAIN s.receipts : /\ receipts[k].key = s.receipts[k].key
                                        /\ receipts[k].type = s.receipts[k].type
                                        /\ receipts[k].turn = s.receipts[k].turn
    BY <1>1, <1>2, <1>3, Rewritten DEF Receipt
  <1> HIDE DEF receipts
  <1>5. PICK n : n = [s EXCEPT !.revision = @ + 1, !.receipts = receipts]
    OBVIOUS
  <1>6. receipts = [s.receipts EXCEPT ![i].dispatched = TRUE, ![i].failed = failed]
    BY <1>2 DEF receipts, Receipt
  <1>7. n = [s EXCEPT !.revision = @ + 1, !.receipts[i].dispatched = TRUE,
                      !.receipts[i].failed = failed]
    BY <1>5, <1>6 DEF SessionState
  <1>9. n.turns = s.turns /\ n.receipts = receipts /\ n.revision = s.revision + 1
    BY <1>5 DEF SessionState
  <1>10. n \in SessionState
    <2>1. receipts \in Seq(Receipt)
      BY <1>4
    <2>2. n = [phase |-> s.phase, revision |-> s.revision + 1, turns |-> s.turns,
               receipts |-> receipts]
      BY <1>5 DEF SessionState
    <2> QED
      BY <2>1, <2>2, <1>1 DEF SessionState
  <1>8. Continues(s, n)
    BY <1>1, <1>4, <1>9, <1>10 DEF Continues
  <1> QED
    BY <1>7, <1>8

\* What accepting input relies on survives every such write.
LEMMA ContinuesKeeps ==
    ASSUME AcceptInv, Continues(session, session')
    PROVE  /\ OneReceiptPerKey' /\ OneOpenTurn' /\ Known(session)' /\ TurnsAreAsked'
           /\ \A k \in Keys : client'[k] = client[k] => PlanIsCurrent(k)'
           /\ \A me : Sees(me, session.turns) => Sees(me, session'.turns)
  <1>1. OneReceiptPerKey'
    BY DEF AcceptInv, Continues, OneReceiptPerKey
  <1>2. OneOpenTurn'
    BY DEF AcceptInv, Continues, OneOpenTurn
  <1>3. Known(session)' /\ TurnsAreAsked'
    <2>1. /\ DOMAIN session'.turns = DOMAIN session.turns
          /\ DOMAIN session'.receipts = DOMAIN session.receipts
          /\ \A i \in DOMAIN session.receipts :
               /\ session'.receipts[i].key = session.receipts[i].key
               /\ session'.receipts[i].type = session.receipts[i].type
               /\ session'.receipts[i].turn = session.receipts[i].turn
      BY DEF Continues
    <2>2. Known(session) /\ TurnsAreAsked
      BY DEF AcceptInv
    <2>3. Known(session)'
      BY <2>1, <2>2 DEF Known
    <2>4. TurnsAreAsked'
      BY <2>1, <2>2 DEF TurnsAreAsked
    <2> QED
      BY <2>3, <2>4
  <1>4. \A me : Sees(me, session.turns) => Sees(me, session'.turns)
    BY DEF Continues, Sees
  <1>5. ASSUME NEW k \in Keys, client'[k] = client[k], client[k].pc = "planned"
        PROVE  /\ client[k].revision <= session'.revision
               /\ client[k].revision = session'.revision =>
                    /\ ~Keyed(k)'
                    /\ Len(client[k].turns) = Len(session'.turns)
                    /\ \A t \in DOMAIN session'.turns : session'.turns[t].status \in Finished =>
                            client[k].turns[t] = session'.turns[t].status
    <2>1. PlanIsCurrent(k) /\ client[k].revision \in Nat
      BY DEF AcceptInv, TypeOK, ClientState
    <2>2. session.revision \in Nat /\ session'.revision \in Nat
      BY DEF AcceptInv, TypeOK, SessionState, Continues
    <2>3. client[k].revision <= session'.revision
      BY <1>5, <2>1, <2>2 DEF PlanIsCurrent, Continues
    <2>4. ASSUME client[k].revision = session'.revision
          PROVE  client[k].revision = session.revision /\ session'.turns = session.turns
      BY <1>5, <2>1, <2>2, <2>4 DEF PlanIsCurrent, Continues
    <2> QED
      BY <1>5, <2>1, <2>3, <2>4 DEF PlanIsCurrent, Keyed, Continues
  <1> QED
    BY <1>1, <1>2, <1>3, <1>4, <1>5 DEF PlanIsCurrent

\* There are no more Turns than messages, and room for another before a new message.
LEMMA TurnsFit ==
    ASSUME AcceptInv
    PROVE  /\ DOMAIN session.turns \subseteq Turns
           /\ \A k \in Messages : ~Keyed(k) => Len(session.turns) + 1 \in Turns
  <1>a. session.turns \in Seq(Turn) /\ IsFiniteSet(Messages) /\ Cardinality(Messages) \in Nat
    BY FS_CardinalityType DEF AcceptInv, TypeOK, SessionState, Assumptions
  <1>b. Len(session.turns) \in Nat /\ DOMAIN session.turns = 1 .. Len(session.turns)
    BY <1>a, LenProperties
  <1>c. /\ IsFiniteSet(1 .. Len(session.turns))
        /\ Cardinality(1 .. Len(session.turns)) = Len(session.turns)
    BY <1>b, FS_Interval
  <1>1. ASSUME NEW S \in SUBSET Messages, \A k \in Messages : Keyed(k) => k \in S
        PROVE  Len(session.turns) <= Cardinality(S)
    <2> DEFINE Start(t) == CHOOSE i \in DOMAIN session.receipts :
                 /\ session.receipts[i].type = "start" /\ session.receipts[i].turn = t
                 /\ session.receipts[i].key \in Messages
    <2>1. \A t \in DOMAIN session.turns :
            /\ Start(t) \in DOMAIN session.receipts
            /\ session.receipts[Start(t)].turn = t
            /\ session.receipts[Start(t)].key \in Messages
      BY DEF AcceptInv, TurnsAreAsked
    <2> HIDE DEF Start
    <2>2. PICK f : f = [t \in DOMAIN session.turns |-> session.receipts[Start(t)].key]
      OBVIOUS
    <2>3. \A t \in DOMAIN session.turns : f[t] \in S
      BY <1>1, <2>1, <2>2 DEF Keyed
    <2>4. \A t, u \in DOMAIN session.turns : f[t] = f[u] => t = u
      BY <2>1, <2>2 DEF AcceptInv, OneReceiptPerKey
    <2>5. f \in Injection(1 .. Len(session.turns), S)
      BY <1>b, <2>2, <2>3, <2>4 DEF Injection, IsInjective
    <2>6. IsFiniteSet(S)
      BY <1>a, <1>1, FS_Subset
    <2> QED
      BY <1>c, <2>5, <2>6, FS_Injection
  <1>2. Len(session.turns) <= Cardinality(Messages)
    BY <1>1
  <1>3. ASSUME NEW k \in Messages, ~Keyed(k) PROVE Len(session.turns) + 1 \in Turns
    <2>1. Cardinality(Messages \ {k}) = Cardinality(Messages) - 1
      BY <1>a, FS_RemoveElement
    <2>2. Len(session.turns) <= Cardinality(Messages \ {k})
      BY <1>1, <1>3
    <2> QED
      BY <1>a, <1>b, <2>1, <2>2 DEF Turns
  <1> QED
    BY <1>a, <1>b, <1>2, <1>3 DEF Turns

\* What a job observes of a Turn is a status of a Turn.
LEMMA ObservedType ==
    ASSUME TypeOK, NEW t \in Runs, NEW status \in TurnStatus
    PROVE  Observed(t, status) \in TurnStatus
  <1>1. runtime.saved[t] \in NativeStatus /\ runtime.run \in Runs \union {NoRun}
    BY DEF TypeOK, RuntimeState
  <1>2. RunFor(t) \in Runs
    BY <1>1 DEF RunFor
  <1>3. run[RunFor(t)] \in {"none"} \union Active \union Ended
    BY <1>2 DEF TypeOK
  <1>4. run[RunFor(t)] # "none" => Projected(run[RunFor(t)]) \in TurnStatus
    BY <1>3 DEF Projected, Active, Ended, TurnStatus, Finished
  <1> QED
    BY <1>1, <1>4 DEF Observed, NativeStatus, TurnStatus, Finished

\* An observation of the list of Turns keeps every outcome.
LEMMA ObservedTurnsType ==
    ASSUME AcceptInv
    PROVE  /\ ObservedTurns \in Seq(TurnStatus) /\ Len(ObservedTurns) = Len(session.turns)
           /\ DOMAIN ObservedTurns = DOMAIN session.turns
           /\ \A t \in DOMAIN session.turns : session.turns[t].status \in Finished =>
                  ObservedTurns[t] = session.turns[t].status
  <1>a. session.turns \in Seq(Turn)
    BY DEF AcceptInv, TypeOK, SessionState
  <1>b. Len(session.turns) \in Nat /\ DOMAIN session.turns = 1 .. Len(session.turns)
    BY <1>a, LenProperties
  <1>1. ASSUME NEW t \in DOMAIN session.turns PROVE ObservedTurns[t] \in TurnStatus
    <2>0. session.turns[t] \in Turn
      BY <1>a, <1>b, ElementOfSeq
    <2>1. session.turns[t].status \in TurnStatus
      BY <2>0 DEF Turn
    <2>2. t \in Runs
      BY TurnsFit DEF Runs
    <2>3. Observed(t, session.turns[t].status) \in TurnStatus
      BY <2>1, <2>2, ObservedType DEF AcceptInv
    <2> QED
      BY <2>1, <2>3 DEF ObservedTurns
  <1>2. ObservedTurns \in [1 .. Len(session.turns) -> TurnStatus]
    BY <1>b, <1>1 DEF ObservedTurns
  <1>3. ObservedTurns \in Seq(TurnStatus)
    BY <1>b, <1>2, SeqDef
  <1>4. Len(ObservedTurns) = Len(session.turns)
    BY <1>b, <1>2, <1>3, LenProperties
  <1> QED
    BY <1>b, <1>2, <1>3, <1>4 DEF ObservedTurns

LEMMA Unchanged == AcceptInv /\ session' = session => Continues(session, session')
  <1> SUFFICES ASSUME AcceptInv, session' = session PROVE Continues(session, session)
    OBVIOUS
  <1>1. session \in SessionState /\ session.revision \in Nat
    BY DEF AcceptInv, TypeOK, SessionState
  <1> QED
    BY <1>1 DEF Continues

-----------------------------------------------------------------------------
(* What each step does to the Session and to the job *)

\* A job's step is a step of that job alone, and settles or acknowledges at most.
LEMMA DispatchAccepts ==
    ASSUME AcceptInv, NEW j \in Jobs, Dispatch(j) \/ DispatchFails(j)
    PROVE  /\ OnlyJob(j) /\ Sees(job'[j], session'.turns)
           /\ Continues(session, session')
           /\ UNCHANGED <<client, deleter>>
  <1>a. /\ TypeOK /\ job[j] \in JobState /\ session \in SessionState
        /\ job[j].copy \in CopyState /\ job[j].turn \in Runs
        /\ Known(job[j].copy) /\ Sees(job[j], session.turns)
    BY DEF AcceptInv, TypeOK, JobState, CopyState, Sees
  <1>b. Copy(session) \in CopyState /\ Known(Copy(session)) /\ Len(session.turns) \in Nat
    BY <1>a, LenProperties DEF AcceptInv, Copy, CopyState, SessionState, Known
  <1>c. session' = session => Continues(session, session')
    BY Unchanged
  <1>d. UNCHANGED <<client, deleter>>
    BY DEF Dispatch, DispatchFails, DispatchRead, Initialize, StartRead, StartRun, Deliver,
       CheckLaunch, RefuseStart, Claim, Submit, FailTurn, Steer, SteerNative, Cancel, Interrupt,
       ObserveCancelled, SettleCancelled, Acknowledge
  <1>e. Len(job[j].copy.turns) <= Len(session.turns) /\ 0 \in Nat
    BY <1>a DEF Sees
  <1>f. /\ Throws(j) => OnlyJob(j) /\ Sees(job'[j], session.turns)
        /\ StartDone(j) => OnlyJob(j) /\ Sees(job'[j], session.turns)
        /\ CancelDone(j) => OnlyJob(j) /\ Sees(job'[j], session.turns)
    <2>1. CASE job[j].then = "observe" /\ CancelDone(j)
      <3>1. [job[j] EXCEPT !.pc = "observe"] \in JobState
        BY <1>a DEF JobState
      <3>2. job' = [job EXCEPT ![j] = [job[j] EXCEPT !.pc = "observe"]]
        BY <2>1 DEF CancelDone, Goes
      <3>3. OnlyJob(j) /\ job'[j] = [job[j] EXCEPT !.pc = "observe"]
        BY <1>a, <3>1, <3>2, JobBecomes
      <3> QED
        BY <1>a, <2>1, <3>3 DEF Sees, JobState, StartDone, Goes
    <2>2. job[j].then # "observe" /\ CancelDone(j) => OnlyJob(j) /\ Sees(job'[j], session.turns)
      BY <1>a, JobMoves DEF CancelDone, JobPc, JobState
    <2>3. /\ Throws(j) => OnlyJob(j) /\ Sees(job'[j], session.turns)
          /\ StartDone(j) => OnlyJob(j) /\ Sees(job'[j], session.turns)
      BY <1>a, <1>e, JobMoves DEF StartDone, JobPc
    <2> QED
      BY <2>1, <2>2, <2>3
  <1> DEFINE Good == OnlyJob(j) /\ Sees(job'[j], session'.turns) /\ Continues(session, session')
  <1>1. CASE DispatchRead(j)
    <2>1. CASE Hosted
      <3>1. [NoJob EXCEPT !.pc = "initialize", !.copy = Copy(session)] \in JobState
        BY <1>b, NoJobType DEF JobState, CopyState, NoJob
      <3>2. OnlyJob(j) /\ job'[j] = [NoJob EXCEPT !.pc = "initialize", !.copy = Copy(session)]
        BY <1>1, <1>a, <2>1, <3>1, JobBecomes DEF DispatchRead
      <3> QED
        BY <1>1, <1>b, <1>c, <3>2 DEF DispatchRead, Sees, NoJob, Copy
    <2>2. CASE ~Hosted
      BY <1>1, <1>b, <1>c, <1>e, <2>2, JobMoves DEF DispatchRead, Copy
    <2> QED
      BY <2>1, <2>2
  <1>2. CASE Initialize(j)
    BY <1>2, <1>a, <1>c, <1>e, JobMoves DEF Initialize, JobPc
  <1>3. CASE StartRead(j)
    <2>1. [job[j] EXCEPT !.pc = "run", !.runtime = runtime] \in JobState
      BY <1>a DEF JobState, TypeOK
    <2>2. ASSUME job' = [job EXCEPT ![j].pc = "run", ![j].runtime = runtime]
          PROVE  OnlyJob(j) /\ job'[j] = [job[j] EXCEPT !.pc = "run", !.runtime = runtime]
      <3>1. job' = [job EXCEPT ![j] = [job[j] EXCEPT !.pc = "run", !.runtime = runtime]]
        BY <1>a, <2>2 DEF TypeOK
      <3> QED
        BY <1>a, <2>1, <3>1, JobBecomes
    <2>3. Sees([job[j] EXCEPT !.pc = "run", !.runtime = runtime], session.turns)
      BY <1>a DEF Sees, JobState
    <2> QED
      BY <1>3, <1>c, <1>f, <2>2, <2>3 DEF StartRead
  <1>4. ASSUME NEW pc \in JobPc \ {"observe"}, NEW r \in Runs,
               job' = [job EXCEPT ![j].pc = pc, ![j].target = r]
        PROVE  OnlyJob(j) /\ Sees(job'[j], session.turns)
    <2>1. [job[j] EXCEPT !.pc = pc, !.target = r] \in JobState
      BY <1>a DEF JobState, JobPc
    <2>2. job' = [job EXCEPT ![j] = [job[j] EXCEPT !.pc = pc, !.target = r]]
      BY <1>a, <1>4 DEF TypeOK
    <2>3. OnlyJob(j) /\ job'[j] = [job[j] EXCEPT !.pc = pc, !.target = r]
      BY <1>a, <2>1, <2>2, JobBecomes
    <2> QED
      BY <1>a, <2>3 DEF Sees, JobState
  <1>5. CASE StartRun(j)
    <2>1. job[j].runtime.run # NoRun => job[j].runtime.run \in Runs
      BY <1>a DEF JobState, RuntimeState
    <2> QED
      BY <1>5, <1>a, <1>c, <1>f, <1>4, <2>1, JobMoves DEF StartRun, JobPc
  <1>6. CASE Deliver(j) \/ Submit(j) \/ DispatchFails(j)
    <2>1. Goes(j, "fail") => OnlyJob(j) /\ Sees(job'[j], session.turns)
      BY <1>a, JobMoves DEF JobPc
    <2> QED
      BY <1>6, <1>c, <1>f, <2>1 DEF Deliver, RefuseStart, Submit, DispatchFails
  <1>7. CASE CheckLaunch(j) \/ Claim(j) \/ SteerNative(j)
    BY <1>7, <1>c, <1>f, JobMoves DEF CheckLaunch, RefuseStart, Claim, SteerNative, Answered, JobPc
  <1>8. RunFor(job[j].turn) \in Runs
    BY <1>a DEF RunFor, TypeOK, RuntimeState
  <1>9. CASE Steer(j)
    BY <1>9, <1>c, <1>f, <1>4, <1>8, JobMoves DEF Steer, JobPc
  <1>10. CASE Cancel(j) \/ Interrupt(j)
    BY <1>10, <1>c, <1>f, <1>4, <1>8, JobMoves DEF Cancel, Interrupt, JobPc
  <1>11. CASE ObserveCancelled(j)
    <2>1. PICK outcome :
            /\ outcome = Observed(job[j].turn, job[j].copy.turns[job[j].turn].status)
            /\ job' = [job EXCEPT ![j].pc = "settle", ![j].outcome = outcome]
      BY <1>11 DEF ObserveCancelled
    <2>2. job[j].turn \in DOMAIN job[j].copy.turns /\ job[j].copy.turns \in Seq(Turn)
      BY <1>11, <1>a DEF ObserveCancelled, Sees, CopyState
    <2>3. job[j].copy.turns[job[j].turn] \in Turn
      BY <2>2, LenProperties, ElementOfSeq
    <2>4. outcome \in TurnStatus
      BY <1>a, <2>1, <2>3, ObservedType DEF Turn
    <2>5. [job[j] EXCEPT !.pc = "settle", !.outcome = outcome] \in JobState
      BY <1>a, <2>4 DEF JobState
    <2>6. job' = [job EXCEPT ![j] = [job[j] EXCEPT !.pc = "settle", !.outcome = outcome]]
      BY <1>a, <2>1 DEF TypeOK
    <2>7. OnlyJob(j) /\ job'[j] = [job[j] EXCEPT !.pc = "settle", !.outcome = outcome]
      BY <1>a, <2>5, <2>6, JobBecomes
    <2>8. /\ job'[j].copy = job[j].copy /\ job'[j].then = job[j].then
          /\ job'[j].turn = job[j].turn /\ job'[j].pc = "settle"
      BY <1>a, <2>7 DEF JobState
    <2>9. Sees(job'[j], session.turns)
      BY <1>a, <2>8 DEF Sees
    <2> QED
      BY <1>11, <1>c, <1>d, <2>7, <2>9 DEF ObserveCancelled
  \* The list of Turns that a settled or refused command leaves in the job's copy.
  <1>12. ASSUME NEW turns, turns = session'.turns, Continues(session, session')
         PROVE  /\ [job[j].copy EXCEPT !.turns = turns] \in CopyState
                /\ Known([job[j].copy EXCEPT !.turns = turns])
                /\ Len(turns) = Len(session'.turns)
                /\ DOMAIN job[j].copy.turns \subseteq DOMAIN turns
    <2>1. turns \in Seq(Turn) /\ Len(turns) = Len(session.turns)
      BY <1>12 DEF Continues, SessionState
    <2>2. /\ DOMAIN turns = 1 .. Len(turns) /\ job[j].copy.turns \in Seq(Turn)
          /\ DOMAIN job[j].copy.turns = 1 .. Len(job[j].copy.turns)
      BY <1>a, <2>1, LenProperties DEF CopyState
    <2>3. DOMAIN job[j].copy.turns \subseteq DOMAIN turns
      BY <1>b, <1>e, <2>1, <2>2, LenProperties
    <2>4. [job[j].copy EXCEPT !.turns = turns] \in CopyState
      BY <1>a, <2>1 DEF CopyState
    <2>5. Known([job[j].copy EXCEPT !.turns = turns])
      BY <1>a, <2>3 DEF Known, CopyState
    <2> QED
      BY <1>12, <2>3, <2>4, <2>5
  <1>13. ASSUME NEW failed \in BOOLEAN, Continues(session, session'),
                job' = [job EXCEPT ![j] = [job[j] EXCEPT !.pc = "ack", !.failed = failed,
                                       !.copy = [job[j].copy EXCEPT !.turns = session'.turns]]]
         PROVE  OnlyJob(j) /\ Sees(job'[j], session'.turns)
    <2>1. PICK copy : copy = [job[j].copy EXCEPT !.turns = session'.turns]
      OBVIOUS
    <2>2. /\ copy \in CopyState /\ Known(copy) /\ Len(copy.turns) = Len(session'.turns)
          /\ DOMAIN job[j].copy.turns \subseteq DOMAIN copy.turns
      BY <1>a, <1>12, <1>13, <2>1 DEF CopyState
    <2>3. [job[j] EXCEPT !.pc = "ack", !.failed = failed, !.copy = copy] \in JobState
      BY <1>a, <2>2 DEF JobState, CopyState
    <2>4. OnlyJob(j) /\ job'[j] = [job[j] EXCEPT !.pc = "ack", !.failed = failed, !.copy = copy]
      BY <1>a, <1>13, <2>1, <2>3, JobBecomes
    <2>5. /\ job'[j].copy = copy /\ job'[j].then = job[j].then /\ job'[j].turn = job[j].turn
      BY <1>a, <2>4 DEF JobState
    <2>6. Len(copy.turns) <= Len(session'.turns)
      BY <1>b, <2>2, <1>13 DEF Continues
    <2> QED
      BY <1>a, <2>2, <2>4, <2>5, <2>6 DEF Sees
  <1>14. CASE FailTurn(j)
    <2>1. CASE session.phase = "deleted"
      BY <1>14, <1>c, <1>f, <2>1 DEF FailTurn
    <2>2. CASE session.phase # "deleted"
      <3>1. session' = [session EXCEPT !.revision = @ + 1, !.turns[job[j].turn].status = "failed"]
        BY <1>14, <2>2 DEF FailTurn
      <3>2. Continues(session, session')
        BY <1>a, <3>1, StatusContinues DEF TurnStatus, Finished
      <3>3. job' = [job EXCEPT ![j] = [job[j] EXCEPT !.pc = "ack", !.failed = TRUE,
                                   !.copy = [job[j].copy EXCEPT !.turns = session'.turns]]]
        BY <1>14, <1>a, <2>2 DEF FailTurn, TypeOK, JobState
      <3> QED
        BY <1>d, <1>13, <3>2, <3>3
    <2> QED
      BY <2>1, <2>2
  <1>15. CASE SettleCancelled(j)
    <2>1. CASE session.phase = "deleted"
      BY <1>15, <1>c, <1>f, <2>1 DEF SettleCancelled
    <2>2. CASE session.phase # "deleted"
      <3>1. PICK status :
              /\ status = IF session.turns[job[j].turn].status \in Finished
                          THEN session.turns[job[j].turn].status ELSE Cancelled(job[j].outcome)
              /\ session' = [session EXCEPT !.revision = @ + 1,
                                            !.turns[job[j].turn].status = status]
        BY <1>15, <2>2 DEF SettleCancelled
      <3>2. status \in TurnStatus
        BY <1>a, <3>1 DEF Cancelled, TurnStatus, JobState, Finished
      <3>3. Continues(session, session')
        BY <1>a, <3>1, <3>2, StatusContinues
      <3>4. job' = [job EXCEPT ![j] = [job[j] EXCEPT !.pc = "ack", !.failed = job[j].failed,
                                   !.copy = [job[j].copy EXCEPT !.turns = session'.turns]]]
        <4>1. job' = [job EXCEPT ![j] = [job[j] EXCEPT !.pc = "ack",
                                     !.copy = [job[j].copy EXCEPT !.turns = session'.turns]]]
          BY <1>15, <1>a, <2>2 DEF SettleCancelled, TypeOK, JobState
        <4>2. \A copy : [job[j] EXCEPT !.pc = "ack", !.copy = copy]
                          = [job[j] EXCEPT !.pc = "ack", !.failed = job[j].failed, !.copy = copy]
          BY <1>a DEF JobState
        <4> QED
          BY <4>1, <4>2
      <3>5. job[j].failed \in BOOLEAN
        BY <1>a DEF JobState
      <3> QED
        BY <1>d, <1>13, <3>3, <3>4, <3>5
    <2> QED
      BY <2>1, <2>2
  <1>16. CASE Acknowledge(j)
    <2>1. CASE session.phase = "deleted" /\ job[j].copy.receipts[job[j].at].type = "start"
      <3>1. [job[j] EXCEPT !.pc = "cancel", !.then = "idle"] \in JobState
        BY <1>a DEF JobState
      <3>2. job' = [job EXCEPT ![j] = [job[j] EXCEPT !.pc = "cancel", !.then = "idle"]]
        BY <1>16, <1>a, <2>1 DEF Acknowledge, TypeOK
      <3>3. OnlyJob(j) /\ job'[j] = [job[j] EXCEPT !.pc = "cancel", !.then = "idle"]
        BY <1>a, <3>1, <3>2, JobBecomes
      <3>4. session' = session
        BY <1>16, <2>1 DEF Acknowledge
      <3> QED
        BY <1>a, <1>c, <1>d, <3>3, <3>4 DEF Sees, JobState
    <2>2. CASE session.phase = "closing" \/
                 (session.phase = "deleted" /\ job[j].copy.receipts[job[j].at].type # "start")
      BY <1>16, <1>c, <1>f, <2>2 DEF Acknowledge
    <2>3. CASE session.phase \notin {"closing", "deleted"}
      <3>1. /\ session' = [session EXCEPT !.revision = @ + 1,
                              !.receipts[job[j].at].dispatched = TRUE,
                              !.receipts[job[j].at].failed = job[j].failed]
            /\ Advance(j, [job[j].copy EXCEPT !.turns = session'.turns], job[j].at)
        BY <1>16, <2>3 DEF Acknowledge
      <3>2. Continues(session, session')
        <4>1. job[j].failed \in BOOLEAN
          BY <1>a DEF JobState
        <4> QED
          BY <1>a, <3>1, <4>1, ReceiptContinues
      <3>3. PICK copy : copy = [job[j].copy EXCEPT !.turns = session'.turns]
        OBVIOUS
      <3>4. copy \in CopyState /\ Known(copy) /\ Len(copy.turns) = Len(session.turns)
        BY <1>a, <1>12, <3>2, <3>3 DEF CopyState, Continues
      <3>5. job[j].at \in Nat /\ Len(copy.turns) <= Len(session.turns)
        BY <1>a, <1>b, <3>4 DEF JobState
      <3>6. OnlyJob(j) /\ Sees(job'[j], session.turns)
        BY <3>1, <3>3, <3>4, <3>5, JobMoves
      <3> QED
        BY <1>d, <3>2, <3>6, ContinuesKeeps
    <2> QED
      BY <2>1, <2>2, <2>3
  <1> QED
    BY <1>d, <1>1, <1>2, <1>3, <1>5, <1>6, <1>7, <1>9, <1>10, <1>11, <1>14, <1>15, <1>16
       DEF Dispatch

-----------------------------------------------------------------------------
(* The types of the runtime record, the Runs and the harnesses *)

PlatformType ==
    /\ runtime \in RuntimeState
    /\ run \in [Runs -> {"none"} \union Active \union Ended]
    /\ worker \in [Runs -> {"off", "closed", "gone"} \union Live]
    /\ native \in [Runs -> [Runs -> NativeStatus]]
    /\ started \in [Runs -> SUBSET Runs]
    /\ refused \subseteq Runs
    /\ faults \in 0 .. MaxFaults

LEMMA FaultType == TypeOK /\ Assumptions /\ Fault => faults' \in 0 .. MaxFaults
  BY DEF TypeOK, Assumptions, Fault

LEMMA StartNativeType ==
    ASSUME TypeOK, NEW r \in Runs, NEW t \in Runs, StartNative(r, t)
    PROVE  native' \in [Runs -> [Runs -> NativeStatus]] /\ started' \in [Runs -> SUBSET Runs]
  <1>1. CASE r \in started[t]
    BY <1>1 DEF StartNative, TypeOK
  <1>2. CASE r \notin started[t]
    <2>1. native' = [native EXCEPT ![r] = [native[r] EXCEPT ![t] = "in_progress"]]
      BY <1>2 DEF StartNative, TypeOK
    <2>2. started' = [started EXCEPT ![t] = started[t] \union {r}]
      BY <1>2 DEF StartNative, TypeOK
    <2>3. started[t] \union {r} \in SUBSET Runs
      BY DEF TypeOK
    <2> QED
      BY <2>1, <2>2, <2>3 DEF TypeOK, NativeStatus
  <1> QED
    BY <1>1, <1>2

LEMMA NativeChanges ==
    ASSUME TypeOK, NEW r \in Runs, NEW t \in Runs, NEW status \in NativeStatus
    PROVE  [native EXCEPT ![r][t] = status] \in [Runs -> [Runs -> NativeStatus]]
  <1>1. [native[r] EXCEPT ![t] = status] \in [Runs -> NativeStatus]
    BY DEF TypeOK
  <1>2. [native EXCEPT ![r][t] = status] = [native EXCEPT ![r] = [native[r] EXCEPT ![t] = status]]
    BY DEF TypeOK
  <1> QED
    BY <1>1, <1>2 DEF TypeOK

\* Writes of the runtime record.
LEMMA RuntimeChanges ==
    ASSUME NEW x \in RuntimeState, NEW n
    PROVE  /\ \A r \in Runs : n = [x EXCEPT !.revision = @ + 1, !.run = r, !.closed = FALSE] =>
                n = [revision |-> x.revision + 1, run |-> r, closed |-> FALSE, saved |-> x.saved]
           /\ \A turns \in [Runs -> NativeStatus] :
                n = [x EXCEPT !.saved = turns, !.revision = @ + 1] =>
                n = [revision |-> x.revision + 1, run |-> x.run, closed |-> x.closed, saved |-> turns]
           /\ n = [x EXCEPT !.closed = TRUE, !.revision = @ + 1] =>
                n = [revision |-> x.revision + 1, run |-> x.run, closed |-> TRUE, saved |-> x.saved]
           /\ x.revision \in Nat /\ x.revision + 1 \in Nat /\ x.run \in Runs \union {NoRun}
           /\ x.closed \in BOOLEAN /\ x.saved \in [Runs -> NativeStatus]
  <1>1. ASSUME NEW r \in Runs, n = [x EXCEPT !.revision = @ + 1, !.run = r, !.closed = FALSE]
        PROVE  n = [revision |-> x.revision + 1, run |-> r, closed |-> FALSE, saved |-> x.saved]
    BY <1>1 DEF RuntimeState
  <1>2. ASSUME NEW turns \in [Runs -> NativeStatus],
               n = [x EXCEPT !.saved = turns, !.revision = @ + 1]
        PROVE  n = [revision |-> x.revision + 1, run |-> x.run, closed |-> x.closed, saved |-> turns]
    BY <1>2 DEF RuntimeState
  <1>3. ASSUME n = [x EXCEPT !.closed = TRUE, !.revision = @ + 1]
        PROVE  n = [revision |-> x.revision + 1, run |-> x.run, closed |-> TRUE, saved |-> x.saved]
    BY <1>3 DEF RuntimeState
  <1>4. /\ x.revision \in Nat /\ x.revision + 1 \in Nat /\ x.run \in Runs \union {NoRun}
        /\ x.closed \in BOOLEAN /\ x.saved \in [Runs -> NativeStatus]
    BY DEF RuntimeState
  <1> QED
    BY <1>1, <1>2, <1>3, <1>4

LEMMA CancelRunType ==
    ASSUME TypeOK, NEW r \in Runs, CancelRun(r)
    PROVE  run' \in [Runs -> {"none"} \union Active \union Ended]
  BY DEF TypeOK, CancelRun, Active, Ended

LEMMA DispatchTypes ==
    ASSUME AcceptInv, NEW j \in Jobs, Dispatch(j) \/ DispatchFails(j)
    PROVE  PlatformType'
  <1>a. /\ TypeOK /\ PlatformType /\ job[j] \in JobState /\ job[j].turn \in Runs
        /\ job[j].target \in Runs /\ job[j].runtime \in RuntimeState
        /\ RunFor(job[j].turn) \in Runs
    BY DEF AcceptInv, TypeOK, PlatformType, JobState, RunFor, RuntimeState
  <1>b. Fault => faults' \in 0 .. MaxFaults
    BY FaultType DEF AcceptInv
  <1>1. CASE UNCHANGED <<runtime, run, worker, native, started, refused>> /\ (Fault \/ UNCHANGED faults)
    BY <1>1, <1>a, <1>b DEF PlatformType
  <1>2. CASE \/ DispatchRead(j) \/ Initialize(j) \/ StartRead(j) \/ StartRun(j) \/ FailTurn(j)
             \/ Steer(j) \/ SteerNative(j) \/ ObserveCancelled(j) \/ SettleCancelled(j)
             \/ Acknowledge(j) \/ DispatchFails(j)
    BY <1>1, <1>2 DEF DispatchRead, Initialize, StartRead, StartRun, FailTurn, Steer, SteerNative,
       Answered, ObserveCancelled, SettleCancelled, Acknowledge, DispatchFails, platform
  <1>3. CASE Deliver(j)
    BY <1>3, <1>a, <1>b, StartNativeType DEF Deliver, RefuseStart, PlatformType
  <1>4. CASE CheckLaunch(j)
    BY <1>4, <1>a, <1>b DEF CheckLaunch, RefuseStart, PlatformType
  <1>5. CASE Claim(j)
    <2>0. PICK x \in RuntimeState, t \in Runs : x = job[j].runtime /\ t = job[j].turn
      BY <1>a
    <2>1. PICK n : n = [x EXCEPT !.revision = @ + 1, !.run = t, !.closed = FALSE]
      OBVIOUS
    <2>2. n = [revision |-> x.revision + 1, run |-> t, closed |-> FALSE, saved |-> x.saved]
      BY <2>1, RuntimeChanges
    <2>3. n \in RuntimeState
      BY <2>2, RuntimeChanges DEF RuntimeState
    <2> QED
      BY <1>5, <1>a, <1>b, <2>0, <2>1, <2>3 DEF Claim, Answered, PlatformType, platform
  <1>6. CASE Submit(j)
    <2>1. run' \in [Runs -> {"none"} \union Active \union Ended]
      BY <1>6, <1>a DEF Submit, RefuseStart, PlatformType, Active
    <2> QED
      BY <1>6, <1>a, <1>b, <2>1 DEF Submit, RefuseStart, PlatformType
  <1>7. CASE Cancel(j)
    BY <1>7, <1>a, CancelRunType DEF Cancel, PlatformType
  <1>8. CASE Interrupt(j)
    <2>1. UNCHANGED native => native' \in [Runs -> [Runs -> NativeStatus]]
      BY <1>a DEF PlatformType
    <2>2. ASSUME native' = [native EXCEPT ![job[j].target][job[j].turn] =
                              IF @ = "in_progress" THEN "cancelled" ELSE @]
          PROVE  native' \in [Runs -> [Runs -> NativeStatus]]
      <3>1. PICK status : /\ native' = [native EXCEPT ![job[j].target][job[j].turn] = status]
                          /\ status \in {"cancelled", native[job[j].target][job[j].turn]}
        BY <2>2
      <3>a. PICK r \in Runs, t \in Runs : r = job[j].target /\ t = job[j].turn
        BY <1>a
      <3>b. native[r][t] \in NativeStatus
        BY <1>a DEF PlatformType
      <3>c. "cancelled" \in NativeStatus
        BY DEF NativeStatus, Finished
      <3>2. status \in NativeStatus
        BY <3>1, <3>a, <3>b, <3>c
      <3> QED
        BY <1>a, <3>1, <3>2, NativeChanges
    <2>3. native' \in [Runs -> [Runs -> NativeStatus]]
      BY <1>8, <2>1, <2>2 DEF Interrupt
    <2> QED
      BY <1>8, <1>a, <1>b, <2>3 DEF Interrupt, PlatformType
  <1> QED
    BY <1>2, <1>3, <1>4, <1>5, <1>6, <1>7, <1>8 DEF Dispatch

\* A harness and its Run, whatever becomes of them.
RunStep(r) == Harness(r) \/ NativeExits(r) \/ HostDies(r) \/ LaunchFails(r)

LEMMA HarnessTypes ==
    ASSUME AcceptInv, NEW r \in Runs, RunStep(r)
    PROVE  PlatformType' /\ Outside
  <1>a. TypeOK /\ PlatformType /\ r \in Runs
    BY DEF AcceptInv, TypeOK, PlatformType
  <1>b. Fault => faults' \in 0 .. MaxFaults
    BY FaultType DEF AcceptInv
  <1>c. \A turns \in [Runs -> NativeStatus] : Stopped(turns) \in [Runs -> NativeStatus]
    BY DEF Stopped, NativeStatus, Finished
  <1>d. runtime.saved \in [Runs -> NativeStatus] /\ native[r] \in [Runs -> NativeStatus]
    BY <1>a DEF TypeOK, RuntimeState
  <1>e. ASSUME NEW turns \in [Runs -> NativeStatus], Saves(r, turns) PROVE runtime' \in RuntimeState
    <2>0. PICK x \in RuntimeState : x = runtime
      BY <1>a DEF PlatformType
    <2>1. PICK n : n = [x EXCEPT !.saved = turns, !.revision = @ + 1]
      OBVIOUS
    <2>2. n = [revision |-> x.revision + 1, run |-> x.run, closed |-> x.closed, saved |-> turns]
      BY <2>1 DEF RuntimeState
    <2>3. n \in RuntimeState
      BY <2>2, RuntimeChanges DEF RuntimeState
    <2> QED
      BY <1>a, <1>e, <2>0, <2>1, <2>3 DEF Saves, PlatformType
  <1>f. ASSUME NEW w \in {"off", "closed", "gone"} \union Live, Becomes(r, w)
        PROVE  worker' \in [Runs -> {"off", "closed", "gone"} \union Live]
    BY <1>a, <1>f DEF Becomes, PlatformType
  <1>g. ASSUME NEW status \in Ended, EndRun(r, status)
        PROVE  run' \in [Runs -> {"none"} \union Active \union Ended]
    BY <1>a, <1>g DEF EndRun, PlatformType, Ended
  <1>h. Closes(r) /\ (Fault \/ UNCHANGED faults) => PlatformType' /\ Outside
    <2>1. ASSUME Closes(r), Fault \/ UNCHANGED faults PROVE PlatformType' /\ Outside
      <3>1. worker' \in [Runs -> {"off", "closed", "gone"} \union Live]
        BY <1>f, <2>1 DEF Closes, Live
      <3>2. runtime' \in RuntimeState
        BY <1>a, <1>c, <1>d, <1>e, <2>1 DEF Closes, PlatformType
      <3>3. native' \in [Runs -> [Runs -> NativeStatus]]
        <4>1. Stopped(native[r]) \in [Runs -> NativeStatus]
          BY <1>c, <1>d
        <4>2. native' = native \/ native' = [native EXCEPT ![r] = Stopped(native[r])]
          BY <2>1 DEF Closes
        <4> QED
          BY <1>a, <4>1, <4>2 DEF PlatformType
      <3> QED
        BY <1>a, <1>b, <2>1, <3>1, <3>2, <3>3 DEF Closes, PlatformType, Outside
    <2> QED
      BY <2>1
  <1>1. CASE Launch(r)
    BY <1>1, <1>a, <1>f DEF Launch, PlatformType, Live, Active, Outside
  <1>2. CASE CheckAuthority(r)
    BY <1>2, <1>a, <1>c, <1>d, <1>f, <1>g DEF CheckAuthority, PlatformType, Live, Ended, Outside
  <1>3. CASE Ready(r)
    BY <1>3, <1>a, <1>f DEF Ready, PlatformType, Live, Outside
  <1>4. CASE StartInitial(r)
    BY <1>4, <1>a, StartNativeType DEF StartInitial, PlatformType, Outside
  <1>5. CASE TurnEnds(r)
    BY <1>5, <1>a DEF TurnEnds, PlatformType, Outside, NativeStatus, Finished
  <1>6. CASE Flush(r)
    BY <1>6, <1>a, <1>d, <1>e, <1>f DEF Flush, PlatformType, Outside, Live
  <1>7. CASE Close(r) \/ NativeExits(r)
    BY <1>7, <1>h DEF Close, NativeExits
  <1>8. CASE Finish(r)
    BY <1>8, <1>a, <1>g DEF Finish, PlatformType, Outside, Ended
  <1>9. CASE RunLost(r)
    BY <1>9, <1>a, <1>g DEF RunLost, PlatformType, Outside, Ended
  <1>10. CASE HostDies(r)
    BY <1>10, <1>a, <1>b, <1>f DEF HostDies, PlatformType, Outside, Live
  <1>11. CASE LaunchFails(r)
    BY <1>11, <1>a, <1>b, <1>g DEF LaunchFails, PlatformType, Outside, Ended
  <1> QED
    BY <1>1, <1>2, <1>3, <1>4, <1>5, <1>6, <1>7, <1>8, <1>9, <1>10, <1>11 DEF RunStep, Harness

-----------------------------------------------------------------------------
(* Planning an input *)

IsOpen(turn) == turn.status \notin Finished /\ ~turn.cancelRequested
OneOpen(turns) == \A t, u \in DOMAIN turns : IsOpen(turns[t]) /\ IsOpen(turns[u]) => t = u

\* With one Turn open at most, the active Turn is that one.
LEMMA ActiveIsOpen ==
    ASSUME NEW turns \in Seq(Turn), OneOpen(turns)
    PROVE  \/ ActiveTurn(turns) = 0 /\ \A t \in DOMAIN turns : ~IsOpen(turns[t])
           \/ /\ ActiveTurn(turns) \in DOMAIN turns /\ ActiveTurn(turns) # 0
              /\ IsOpen(turns[ActiveTurn(turns)])
  <1> DEFINE open == {t \in DOMAIN turns : turns[t].status \notin Finished /\ ~turns[t].cancelRequested}
  <1>1. DOMAIN turns = 1 .. Len(turns) /\ Len(turns) \in Nat
    BY LenProperties
  <1>2. CASE open = {}
    BY <1>2 DEF ActiveTurn, IsOpen
  <1>3. CASE open # {}
    <2>1. PICK t \in open : TRUE
      BY <1>3
    <2>2. t <= t /\ t # 0
      BY <1>1, <2>1
    <2>3. \A u \in open : u = t
      BY <2>1 DEF OneOpen, IsOpen
    <2>4. ActiveTurn(turns) = CHOOSE n \in open : \A u \in open : u <= n
      BY <1>3 DEF ActiveTurn
    <2>5. \E n \in open : \A u \in open : u <= n
      BY <2>1, <2>2, <2>3
    <2>6. ActiveTurn(turns) \in open
      BY <2>4, <2>5
    <2> QED
      BY <2>1, <2>2, <2>3, <2>6 DEF IsOpen
  <1> QED
    BY <1>2, <1>3

\* The Turns as the client that plans has observed them.
Seen(k) == [t \in DOMAIN session.turns |-> [session.turns[t] EXCEPT !.status = client[k].turns[t]]]

LEMMA SeenTurns ==
    ASSUME AcceptInv, NEW k \in Keys, client[k].pc = "planned", client[k].revision = session.revision
    PROVE  /\ Seen(k) \in Seq(Turn) /\ Len(Seen(k)) = Len(session.turns)
           /\ DOMAIN Seen(k) = DOMAIN session.turns
           /\ OneOpen(Seen(k))
           /\ \A t \in DOMAIN session.turns :
                /\ Seen(k)[t].cancelRequested = session.turns[t].cancelRequested
                /\ Seen(k)[t].status = client[k].turns[t]
  <1>1. /\ session.turns \in Seq(Turn) /\ client[k].turns \in Seq(TurnStatus)
        /\ Len(client[k].turns) = Len(session.turns)
    BY DEF AcceptInv, TypeOK, SessionState, ClientState, PlanIsCurrent
  <1>2. DOMAIN client[k].turns = DOMAIN session.turns
    BY <1>1, LenProperties
  <1>3. \A t \in DOMAIN session.turns :
          session.turns[t] \in Turn /\ client[k].turns[t] \in TurnStatus
    BY <1>1, <1>2, LenProperties, ElementOfSeq
  <1>4. Seen(k) \in [DOMAIN session.turns -> Turn]
    BY <1>3 DEF Seen, Turn
  <1>5. \A t \in DOMAIN session.turns :
          /\ Seen(k)[t].cancelRequested = session.turns[t].cancelRequested
          /\ Seen(k)[t].status = client[k].turns[t]
    BY <1>3 DEF Seen, Turn
  <1>6. \A t \in DOMAIN session.turns :
          session.turns[t].status \in Finished => client[k].turns[t] = session.turns[t].status
    BY DEF AcceptInv, PlanIsCurrent
  <1>7. OneOpenTurn /\ DOMAIN Seen(k) = DOMAIN session.turns
    BY DEF AcceptInv, Seen
  <1>8. \A t \in DOMAIN session.turns : IsOpen(Seen(k)[t]) => IsOpen(session.turns[t])
    BY <1>5, <1>6 DEF IsOpen
  <1>9. OneOpen(Seen(k))
    BY <1>7, <1>8 DEF OneOpen, OneOpenTurn, IsOpen
  <1> QED
    BY <1>1, <1>4, <1>5, <1>7, <1>9, Rewritten

\* A planned input adds one receipt, and a Turn only for a message that starts it.
Plans(k, turns, receipt) ==
    /\ turns \in Seq(Turn) /\ receipt \in Receipt
    /\ DOMAIN session.turns \subseteq DOMAIN turns /\ Len(session.turns) <= Len(turns)
    /\ OneOpen(turns)
    /\ receipt.key = k
    /\ receipt.type = "start" => receipt.turn \in DOMAIN turns
    /\ \A t \in DOMAIN turns \ DOMAIN session.turns :
            receipt.type = "start" /\ receipt.turn = t /\ k \in Messages
    /\ ~receipt.dispatched
    /\ receipt.type = "start" => receipt.turn \notin DOMAIN session.turns
    /\ \A t \in DOMAIN session.turns :
         /\ turns[t].status = client[k].turns[t]
         /\ session.turns[t].cancelRequested => turns[t].cancelRequested
    /\ \A t \in DOMAIN turns \ DOMAIN session.turns : turns[t].status = "queued"

LEMMA PlannedIsSound ==
    ASSUME AcceptInv, NEW k \in Keys, client[k].pc = "planned", client[k].revision = session.revision
    PROVE  \E turns, receipt :
             /\ Plans(k, turns, receipt)
             /\ Planned(k) = [phase |-> session.phase, revision |-> session.revision + 1,
                              turns |-> turns, receipts |-> Append(session.receipts, receipt)]
  <1> DEFINE turns == Seen(k)
             active == ActiveTurn(turns)
             fresh == active = 0 /\ k \in Messages
             type == IF k \in Cancels THEN IF active = 0 THEN "none" ELSE "cancel"
                     ELSE IF fresh THEN "start" ELSE "steer"
             new == [status |-> "queued", cancelRequested |-> FALSE]
             kept == [t \in DOMAIN turns |-> IF t = active /\ k \in Cancels
                        THEN [turns[t] EXCEPT !.cancelRequested = TRUE] ELSE turns[t]]
             after == IF fresh THEN Append(turns, new) ELSE kept
             receipt == [key |-> k, type |-> type, dispatched |-> FALSE, failed |-> FALSE,
                         turn |-> IF fresh THEN Len(turns) + 1 ELSE active]
  <1>a. /\ turns \in Seq(Turn) /\ Len(turns) = Len(session.turns)
        /\ DOMAIN turns = DOMAIN session.turns /\ OneOpen(turns)
        /\ \A t \in DOMAIN session.turns :
             /\ turns[t].cancelRequested = session.turns[t].cancelRequested
             /\ turns[t].status = client[k].turns[t]
    BY SeenTurns
  <1>b. session \in SessionState /\ Len(turns) \in Nat /\ DOMAIN turns = 1 .. Len(turns)
    BY <1>a, LenProperties DEF AcceptInv, TypeOK
  <1>c. \/ active = 0 /\ \A t \in DOMAIN turns : ~IsOpen(turns[t])
        \/ active \in DOMAIN turns /\ active # 0 /\ IsOpen(turns[active])
    BY <1>a, ActiveIsOpen
  <1>d. PICK planned : planned = [session EXCEPT !.revision = @ + 1, !.turns = after,
                                                 !.receipts = Append(@, receipt)]
    OBVIOUS
  <1>e. Planned(k) = planned
    BY <1>d DEF Planned, Seen
  <1> HIDE DEF turns, active
  <1>1. planned = [phase |-> session.phase, revision |-> session.revision + 1,
                   turns |-> after, receipts |-> Append(session.receipts, receipt)]
    <2> HIDE DEF after, receipt
    <2> QED
      BY <1>b, <1>d DEF SessionState
  <1>2. k \in Keys /\ (k \in Messages <=> k \notin Cancels)
    BY DEF Keys, AcceptInv, Assumptions
  <1>3. receipt \in Receipt
    <2>1. (IF fresh THEN Len(turns) + 1 ELSE active) \in Runs
      <3>1. CASE fresh
        <4>1. ~Keyed(k)
          BY DEF AcceptInv, PlanIsCurrent
        <4> QED
          BY <1>a, <3>1, <4>1, TurnsFit DEF Runs
      <3>2. CASE ~fresh
        BY <1>a, <1>c, <3>2, TurnsFit DEF Runs, Bootstrap
      <3> QED
        BY <3>1, <3>2
    <2>2. type \in {"start", "steer", "cancel", "none"}
      OBVIOUS
    <2> HIDE DEF type, fresh
    <2> QED
      BY <2>1, <2>2 DEF Receipt
  <1>4. CASE fresh
    <2>1. new \in Turn
      BY DEF Turn, TurnStatus
    <2>2. /\ after \in Seq(Turn) /\ Len(after) = Len(turns) + 1
          /\ DOMAIN after = 1 .. Len(turns) + 1 /\ after[Len(turns) + 1] = new
          /\ \A t \in DOMAIN turns : after[t] = turns[t]
      <3> HIDE DEF new, fresh
      <3>1. after = Append(turns, new)
        BY <1>4
      <3> HIDE DEF after
      <3> QED
        BY <1>a, <1>b, <2>1, <3>1, AppendProperties, LenProperties
    <2>3. /\ receipt.type = "start" /\ receipt.turn = Len(turns) + 1 /\ receipt.key = k
          /\ ~receipt.dispatched /\ new.status = "queued"
      BY <1>2, <1>4
    <2>4. \A t \in DOMAIN turns : ~IsOpen(turns[t])
      BY <1>c, <1>4
    <2> HIDE DEF after, receipt
    <2>5. OneOpen(after)
      <3> SUFFICES ASSUME NEW t \in DOMAIN after, IsOpen(after[t])
                   PROVE  t = Len(turns) + 1
        BY DEF OneOpen
      <3>1. t \notin DOMAIN turns
        BY <2>2, <2>4
      <3> QED
        BY <1>b, <2>2, <3>1
    <2>6. \A t \in DOMAIN after \ DOMAIN session.turns : t = Len(turns) + 1
      BY <1>a, <1>b, <2>2
    <2>7. DOMAIN session.turns \subseteq DOMAIN after /\ Len(session.turns) <= Len(after)
      BY <1>a, <1>b, <2>2
    <2>8. Len(turns) + 1 \in DOMAIN after /\ Len(turns) + 1 \notin DOMAIN session.turns
      BY <1>a, <1>b, <2>2
    <2>9. Plans(k, after, receipt)
      BY <1>3, <1>4, <1>a, <2>2, <2>3, <2>5, <2>6, <2>7, <2>8 DEF Plans
    <2> QED
      BY <1>1, <1>e, <2>9
  <1>5. CASE ~fresh
    <2>1. \A t \in DOMAIN turns : turns[t] \in Turn
      BY <1>a, <1>b, ElementOfSeq
    <2>2. kept \in [DOMAIN turns -> Turn]
      BY <2>1 DEF Turn
    <2>3. kept \in Seq(Turn) /\ Len(kept) = Len(turns) /\ DOMAIN kept = DOMAIN turns
      BY <1>a, <2>2, Rewritten
    <2>4. \A t \in DOMAIN turns : IsOpen(kept[t]) => IsOpen(turns[t])
      BY <2>1 DEF Turn, IsOpen
    <2>5. OneOpen(kept)
      BY <1>a, <2>3, <2>4 DEF OneOpen
    <2>6. after = kept /\ receipt.key = k /\ receipt.type # "start" /\ ~receipt.dispatched
      BY <1>2, <1>5
    <2>7. \A t \in DOMAIN turns :
            /\ kept[t].status = turns[t].status
            /\ turns[t].cancelRequested => kept[t].cancelRequested
      BY <2>1 DEF Turn
    <2> HIDE DEF after, receipt, kept
    <2>8. \A t \in DOMAIN session.turns : t \in DOMAIN turns /\ t \in DOMAIN after
      BY <1>a, <2>3, <2>6
    <2>9. \A t \in DOMAIN session.turns :
            /\ after[t].status = client[k].turns[t]
            /\ session.turns[t].cancelRequested => after[t].cancelRequested
      BY <1>a, <2>6, <2>7, <2>8
    <2>10. DOMAIN after \ DOMAIN session.turns = {} /\ Len(session.turns) <= Len(after)
      BY <1>a, <1>b, <2>3, <2>6
    <2>11. after \in Seq(Turn) /\ OneOpen(after)
      BY <2>3, <2>5, <2>6
    <2>12. Plans(k, after, receipt)
      BY <1>3, <2>6, <2>8, <2>9, <2>10, <2>11 DEF Plans
    <2> QED
      BY <1>1, <1>e, <2>12
  <1> QED
    BY <1>4, <1>5

-----------------------------------------------------------------------------
(* The invariant of accepting input *)

CallType == client \in [Keys -> ClientState]
DeleterType == deleter \in [pc : {"idle", "closing", "remove", "done"}, revision : Nat]

\* A step that leaves the calls alone and does no more to the record than rewrite it.
LEMMA AcceptKept ==
    ASSUME AcceptInv, Continues(session, session'), client' = client, PlatformType', DeleterType',
           job' \in [Jobs -> JobState], \A j \in Jobs : Sees(job'[j], session'.turns)
    PROVE  AcceptInv'
  <1>1. session' \in SessionState
    BY DEF Continues
  <1>2. TypeOK'
    BY <1>1 DEF AcceptInv, TypeOK, PlatformType, DeleterType
  <1>3. Assumptions'
    BY DEF AcceptInv, Assumptions
  <1> QED
    BY <1>2, <1>3, ContinuesKeeps DEF AcceptInv

\* The calls of the other clients are not affected by one of them.
LEMMA CallType1 ==
    ASSUME AcceptInv, NEW k \in Keys, NEW pc \in {"idle", "done"}, Call(k, pc)
    PROVE  /\ CallType' /\ client'[k].pc # "planned"
           /\ \A n \in Keys \ {k} : client'[n] = client[n]
  <1>1. [NoCall EXCEPT !.pc = pc] \in ClientState /\ [NoCall EXCEPT !.pc = pc].pc # "planned"
    BY EmptySeq DEF NoCall, ClientState
  <1> QED
    BY <1>1 DEF Call, CallType, AcceptInv, TypeOK

LEMMA AcceptRead ==
    ASSUME AcceptInv, NEW k \in Keys, EventsRead(k)
    PROVE  AcceptInv'
  <1>a. /\ UNCHANGED <<session, runtime, run, worker, native, started, refused, deleter, job, faults>>
        /\ session.revision \in Nat /\ client \in [Keys -> ClientState]
    BY DEF EventsRead, platform, AcceptInv, TypeOK, SessionState
  <1>1. /\ CallType' /\ \A n \in Keys \ {k} : client'[n] = client[n]
        /\ \/ client'[k].pc # "planned"
           \/ /\ ~Keyed(k)
              /\ client'[k].revision = session.revision /\ client'[k].turns = ObservedTurns
    <2>1. CASE session.phase # "open" \/ Keyed(k)
      BY <2>1, CallType1 DEF EventsRead, Keyed
    <2>2. CASE ~(session.phase # "open" \/ Keyed(k))
      <3>1. PICK call : /\ call = [pc |-> "planned", revision |-> session.revision,
                                   turns |-> ObservedTurns]
                        /\ client' = [client EXCEPT ![k] = call]
        BY <2>2 DEF EventsRead, Keyed
      <3>2. call \in ClientState
        BY <1>a, <3>1, ObservedTurnsType DEF ClientState
      <3> QED
        BY <1>a, <2>2, <3>1, <3>2 DEF CallType
    <2> QED
      BY <2>1, <2>2
  <1>2. PlanIsCurrent(k)'
    BY <1>a, <1>1, ObservedTurnsType DEF PlanIsCurrent, Keyed
  <1>3. \A n \in Keys \ {k} : PlanIsCurrent(n)'
    BY <1>a, <1>1 DEF AcceptInv, PlanIsCurrent, Keyed
  <1>4. TypeOK'
    BY <1>a, <1>1 DEF AcceptInv, TypeOK, CallType
  <1>5. Assumptions' /\ OneReceiptPerKey' /\ OneOpenTurn' /\ Known(session)' /\ TurnsAreAsked'
    BY <1>a DEF AcceptInv, Assumptions, OneReceiptPerKey, OneOpenTurn, Known, TurnsAreAsked
  <1>6. \A j \in Jobs : Sees(job[j], session.turns)'
    BY <1>a DEF AcceptInv
  <1> QED
    BY <1>2, <1>3, <1>4, <1>5, <1>6 DEF AcceptInv

LEMMA AcceptCommit ==
    ASSUME AcceptInv, NEW k \in Keys, EventsCommit(k)
    PROVE  AcceptInv'
  <1>a. /\ UNCHANGED <<runtime, run, worker, native, started, refused, deleter, job>>
        /\ session \in SessionState /\ session.revision \in Nat /\ client[k].pc = "planned"
    BY DEF EventsCommit, platform, AcceptInv, TypeOK, SessionState
  <1>b. /\ faults' \in 0 .. MaxFaults /\ CallType' /\ client'[k].pc # "planned"
        /\ \A n \in Keys \ {k} : client'[n] = client[n]
    <2>1. Fault => faults' \in 0 .. MaxFaults
      BY FaultType DEF AcceptInv
    <2>2. faults' = faults => faults' \in 0 .. MaxFaults
      BY DEF AcceptInv, TypeOK
    <2>3. Fault \/ faults' = faults
      BY DEF EventsCommit
    <2>4. Call(k, "idle") \/ Call(k, "done")
      BY DEF EventsCommit
    <2> QED
      BY <2>1, <2>2, <2>3, <2>4, CallType1
  <1>c. Assumptions'
    BY DEF AcceptInv, Assumptions
  <1>1. CASE session' = session
    <2>1. TypeOK'
      BY <1>1, <1>a, <1>b DEF AcceptInv, TypeOK, CallType
    <2>2. OneReceiptPerKey' /\ OneOpenTurn' /\ Known(session)' /\ TurnsAreAsked'
      BY <1>1 DEF AcceptInv, OneReceiptPerKey, OneOpenTurn, Known, TurnsAreAsked
    <2>3. \A n \in Keys : PlanIsCurrent(n)'
      BY <1>1, <1>b DEF AcceptInv, PlanIsCurrent, Keyed
    <2>4. \A j \in Jobs : Sees(job[j], session.turns)'
      BY <1>1, <1>a DEF AcceptInv
    <2> QED
      BY <1>c, <2>1, <2>2, <2>3, <2>4 DEF AcceptInv
  <1>2. CASE session.revision = client[k].revision /\ session' = Planned(k)
    <2>1. PICK turns, receipt :
            /\ Plans(k, turns, receipt)
            /\ session' = [phase |-> session.phase, revision |-> session.revision + 1,
                           turns |-> turns, receipts |-> Append(session.receipts, receipt)]
      BY <1>2, <1>a, PlannedIsSound
    <2>2. PICK receipts : receipts = Append(session.receipts, receipt)
      OBVIOUS
    <2>3. /\ session'.turns = turns /\ session'.receipts = receipts
          /\ session'.revision = session.revision + 1
      BY <2>1, <2>2
    <2>4. session.receipts \in Seq(Receipt) /\ receipt \in Receipt /\ turns \in Seq(Turn)
      BY <1>a, <2>1 DEF SessionState, Plans
    <2>5. PICK last : last = Len(session.receipts) + 1
      OBVIOUS
    <2>6. /\ receipts \in Seq(Receipt) /\ DOMAIN receipts = DOMAIN session.receipts \union {last}
          /\ last \notin DOMAIN session.receipts /\ receipts[last] = receipt
          /\ \A i \in DOMAIN session.receipts : receipts[i] = session.receipts[i]
      <3>1. Len(session.receipts) \in Nat /\ DOMAIN session.receipts = 1 .. Len(session.receipts)
        BY <2>4, LenProperties
      <3>2. /\ receipts \in Seq(Receipt) /\ Len(receipts) = last /\ receipts[last] = receipt
            /\ \A i \in 1 .. Len(session.receipts) : receipts[i] = session.receipts[i]
        BY <2>2, <2>4, <2>5, AppendProperties
      <3>3. DOMAIN receipts = 1 .. last
        BY <3>2, LenProperties
      <3> QED
        BY <2>5, <3>1, <3>2, <3>3
    <2>7. session' \in SessionState
      BY <1>a, <2>1, <2>2, <2>4, <2>6 DEF SessionState
    <2>8. TypeOK'
      BY <2>7, <1>a, <1>b DEF AcceptInv, TypeOK, CallType
    <2>9. ~Keyed(k)
      BY <1>2, <1>a DEF AcceptInv, PlanIsCurrent
    <2>10. OneReceiptPerKey'
      BY <2>1, <2>3, <2>6, <2>9 DEF AcceptInv, OneReceiptPerKey, Keyed, Plans
    <2>11. OneOpenTurn'
      BY <2>1, <2>3 DEF Plans, OneOpenTurn, OneOpen, IsOpen
    <2>12. Known(session)'
      BY <2>1, <2>3, <2>6 DEF AcceptInv, Known, Plans
    <2>13. TurnsAreAsked'
      <3> SUFFICES ASSUME NEW t \in DOMAIN turns
                   PROVE  \E i \in DOMAIN receipts :
                            /\ receipts[i].type = "start" /\ receipts[i].turn = t
                            /\ receipts[i].key \in Messages
        BY <2>3 DEF TurnsAreAsked
      <3>1. CASE t \in DOMAIN session.turns
        BY <2>6, <3>1 DEF AcceptInv, TurnsAreAsked
      <3>2. CASE t \notin DOMAIN session.turns
        <4>1. receipts[last].type = "start" /\ receipts[last].turn = t /\ receipts[last].key \in Messages
          BY <2>1, <2>6, <3>2 DEF Plans
        <4> QED
          BY <2>6, <4>1
      <3> QED
        BY <3>1, <3>2
    <2>14. \A n \in Keys : PlanIsCurrent(n)'
      <3>1. PlanIsCurrent(k)'
        BY <1>b DEF PlanIsCurrent
      <3>2. ASSUME NEW n \in Keys \ {k}, client'[n].pc = "planned"
            PROVE  client'[n].revision < session'.revision
        <4>1. client[n] \in ClientState /\ client'[n] = client[n]
          BY <1>b DEF AcceptInv, TypeOK
        <4>2. client[n].revision \in Nat /\ client[n].revision <= session.revision
          BY <3>2, <4>1 DEF AcceptInv, PlanIsCurrent, ClientState
        <4> QED
          BY <1>a, <2>3, <4>1, <4>2
      <3>3. \A n \in Keys \ {k} : client'[n].pc = "planned" => client'[n].revision \in Nat
        BY <1>b DEF CallType, ClientState
      <3>4. session'.revision \in Nat
        BY <1>a, <2>3
      <3> QED
        BY <3>1, <3>2, <3>3, <3>4 DEF PlanIsCurrent
    <2>15. \A j \in Jobs : Sees(job[j], session.turns)'
      <3> SUFFICES ASSUME NEW j \in Jobs PROVE Sees(job[j], turns)
        BY <1>a, <2>3
      <3>1. Sees(job[j], session.turns) /\ job[j].copy.turns \in Seq(Turn)
        BY DEF AcceptInv, TypeOK, JobState
      <3>2. Len(session.turns) \in Nat /\ Len(turns) \in Nat /\ Len(job[j].copy.turns) \in Nat
        BY <1>a, <2>4, <3>1, LenProperties DEF SessionState
      <3> QED
        BY <2>1, <3>1, <3>2 DEF Sees, Plans
    <2> QED
      BY <1>c, <2>8, <2>10, <2>11, <2>12, <2>13, <2>14, <2>15 DEF AcceptInv
  <1> QED
    BY <1>1, <1>2 DEF EventsCommit

\* The call that deletes writes the phase of the record, and stops a Run.
Deletes == DeleteClose \/ DeleteStop \/ DeleteRemove \/ DeleteFails

LEMMA DeleteAccepts ==
    ASSUME AcceptInv, Deletes
    PROVE  AcceptInv'
  <1>a. /\ TypeOK /\ PlatformType /\ DeleterType /\ session \in SessionState
        /\ session.revision \in Nat /\ deleter.revision \in Nat /\ runtime \in RuntimeState
        /\ \A j \in Jobs : Sees(job[j], session.turns)
    BY DEF AcceptInv, TypeOK, PlatformType, DeleterType, SessionState
  <1>b. UNCHANGED <<client, job>>
    BY DEF Deletes, DeleteClose, DeleteStop, DeleteRemove, DeleteFails
  <1>1. /\ Continues(session, session')
        /\ session'.turns = session.turns
    <2>1. ASSUME NEW phase \in {"open", "closing", "deleted"}, NEW revision \in Nat,
                 revision >= session.revision,
                 session' = [session EXCEPT !.phase = phase, !.revision = revision]
          PROVE  Continues(session, session') /\ session'.turns = session.turns
      <3>1. session' = [phase |-> phase, revision |-> revision, turns |-> session.turns,
                        receipts |-> session.receipts]
        BY <1>a, <2>1 DEF SessionState
      <3> QED
        BY <1>a, <2>1, <3>1 DEF Continues, SessionState
    <2>2. session' = session => Continues(session, session') /\ session'.turns = session.turns
      BY Unchanged
    <2>3. \/ session' = session
          \/ session' = [session EXCEPT !.phase = "closing", !.revision = @ + 1]
          \/ session' = [session EXCEPT !.phase = "deleted"]
      BY DEF Deletes, DeleteClose, DeleteStop, DeleteRemove, DeleteFails
    <2>4. CASE session' = [session EXCEPT !.phase = "closing", !.revision = @ + 1]
      <3>1. PICK revision : revision = session.revision + 1
        OBVIOUS
      <3>2. revision \in Nat /\ revision >= session.revision
        BY <1>a, <3>1
      <3> QED
        BY <2>1, <2>4, <3>1, <3>2
    <2>5. CASE session' = [session EXCEPT !.phase = "deleted"]
      <3>1. session' = [session EXCEPT !.phase = "deleted", !.revision = session.revision]
        BY <1>a, <2>5 DEF SessionState
      <3>2. session.revision >= session.revision
        BY <1>a
      <3> QED
        BY <1>a, <2>1, <3>1, <3>2
    <2> QED
      BY <2>2, <2>3, <2>4, <2>5
  <1>2. DeleterType'
    <2>1. session'.revision \in Nat
      BY <1>1 DEF Continues, SessionState
    <2> QED
      BY <1>a, <2>1 DEF Deletes, DeleteClose, DeleteStop, DeleteRemove, DeleteFails, DeleterType
  <1>3. PlatformType'
    <2>1. CASE DeleteClose
      <3>1. runtime' = runtime \/ runtime' = [runtime EXCEPT !.closed = TRUE, !.revision = @ + 1]
        BY <2>1 DEF DeleteClose
      <3>2. PICK n : n = [runtime EXCEPT !.closed = TRUE, !.revision = @ + 1]
        OBVIOUS
      <3>3. n = [revision |-> runtime.revision + 1, run |-> runtime.run, closed |-> TRUE,
                 saved |-> runtime.saved]
        BY <1>a, <3>2, RuntimeChanges
      <3>4. n \in RuntimeState
        BY <1>a, <3>3, RuntimeChanges DEF TypeOK, RuntimeState
      <3> QED
        BY <1>a, <2>1, <3>1, <3>2, <3>4 DEF DeleteClose, platform, PlatformType
    <2>2. CASE DeleteStop
      <3>1. runtime.run # NoRun => runtime.run \in Runs
        BY <1>a DEF TypeOK, RuntimeState
      <3> QED
        BY <1>a, <2>2, <3>1, CancelRunType DEF DeleteStop, PlatformType
    <2>3. CASE DeleteRemove
      BY <1>a, <2>3 DEF DeleteRemove, platform, PlatformType
    <2>4. CASE DeleteFails
      <3>1. faults' \in 0 .. MaxFaults
        BY <2>4, FaultType DEF DeleteFails, AcceptInv
      <3> QED
        BY <1>a, <2>4, <3>1 DEF DeleteFails, platform, PlatformType
    <2> QED
      BY <2>1, <2>2, <2>3, <2>4 DEF Deletes
  <1> QED
    BY <1>a, <1>b, <1>1, <1>2, <1>3, AcceptKept DEF TypeOK

LEMMA AcceptInit == Assumptions /\ Init => AcceptInv
  <1> SUFFICES ASSUME Assumptions, Init PROVE AcceptInv
    OBVIOUS
  <1>1. /\ session.turns = <<>> /\ session.receipts = <<>> /\ session \in SessionState
        /\ DOMAIN session.turns = {} /\ DOMAIN session.receipts = {}
        /\ Len(session.turns) = 0
    <2>1. /\ <<>> \in Seq(Turn) /\ <<>> \in Seq(Receipt) /\ Len(<<>>) = 0 /\ DOMAIN <<>> = {}
      BY EmptySeq
    <2> QED
      BY <2>1 DEF Init, EmptySession, SessionState
  <1>2. NoCall \in ClientState /\ NoCall.pc # "planned"
    BY EmptySeq DEF NoCall, ClientState
  <1>3. NoRuntime \in RuntimeState
    BY DEF NoRuntime, RuntimeState, NativeStatus, Runs
  <1>4. TypeOK
    <2>1. job \in [Jobs -> JobState] /\ client \in [Keys -> ClientState]
      BY <1>2, NoJobType DEF Init
    <2>2. runtime \in RuntimeState /\ native \in [Runs -> [Runs -> NativeStatus]]
      BY <1>3 DEF Init, RuntimeState, NoRuntime
    <2>3. faults \in 0 .. MaxFaults
      BY DEF Init, Assumptions
    <2> QED
      BY <1>1, <2>1, <2>2, <2>3 DEF Init, TypeOK, Live
  <1>5. OneReceiptPerKey /\ OneOpenTurn /\ Known(session) /\ TurnsAreAsked
    BY <1>1 DEF OneReceiptPerKey, OneOpenTurn, Known, TurnsAreAsked
  <1>6. \A k \in Keys : PlanIsCurrent(k)
    BY <1>2 DEF Init, PlanIsCurrent
  <1>7. \A j \in Jobs : Sees(job[j], session.turns)
    <2>1. \A j \in Jobs : job[j] = NoJob
      BY DEF Init
    <2>2. NoJob.then = "ack" /\ NoJob.pc = "idle"
      BY DEF NoJob
    <2> QED
      BY <1>1, <2>1, <2>2, NoJobType DEF Sees
  <1> QED
    BY <1>4, <1>5, <1>6, <1>7 DEF AcceptInv

LEMMA AcceptNext == AcceptInv /\ [Next]_vars => AcceptInv'
  <1> SUFFICES ASSUME AcceptInv, [Next]_vars PROVE AcceptInv'
    OBVIOUS
  <1>a. /\ PlatformType /\ DeleterType /\ session \in SessionState /\ job \in [Jobs -> JobState]
        /\ \A j \in Jobs : Sees(job[j], session.turns)
    BY DEF AcceptInv, TypeOK, PlatformType, DeleterType
  <1>1. ASSUME NEW k \in Keys, EventsRead(k) \/ EventsCommit(k) PROVE AcceptInv'
    BY <1>1, AcceptRead, AcceptCommit
  <1>2. CASE Deletes
    BY <1>2, DeleteAccepts
  <1>3. ASSUME NEW j \in Jobs, Dispatch(j) \/ DispatchFails(j) PROVE AcceptInv'
    <2>1. /\ OnlyJob(j) /\ Sees(job'[j], session'.turns) /\ Continues(session, session')
          /\ UNCHANGED <<client, deleter>>
      BY <1>3, DispatchAccepts
    <2>2. PlatformType'
      BY <1>3, DispatchTypes
    <2>3. DeleterType' /\ job' \in [Jobs -> JobState]
      BY <1>a, <2>1 DEF DeleterType, OnlyJob
    <2>4. \A i \in Jobs \ {j} : Sees(job'[i], session'.turns)
      BY <1>a, <2>1, ContinuesKeeps DEF OnlyJob
    <2> QED
      BY <2>1, <2>2, <2>3, <2>4, AcceptKept
  <1>4. ASSUME NEW t \in Turns, CompleteTurn(t) PROVE AcceptInv'
    <2>1. UNCHANGED <<runtime, run, worker, native, started, refused, client, deleter, job, faults>>
      BY <1>4 DEF CompleteTurn, platform
    <2>2. /\ t \in DOMAIN session.turns /\ session.turns[t].status \notin Finished
          /\ session' = [session EXCEPT !.revision = @ + 1, !.turns[t].status = ObservedTurns[t]]
      BY <1>4 DEF CompleteTurn
    <2>3. ObservedTurns[t] \in TurnStatus
      BY <2>2, ObservedTurnsType, LenProperties, ElementOfSeq
    <2>4. Continues(session, session')
      BY <1>a, <2>2, <2>3, StatusContinues
    <2>5. PlatformType' /\ DeleterType'
      BY <1>a, <2>1 DEF PlatformType, DeleterType
    <2>6. \A j \in Jobs : Sees(job'[j], session'.turns)
      BY <1>a, <2>1, <2>4, ContinuesKeeps
    <2> QED
      BY <1>a, <2>1, <2>4, <2>5, <2>6, AcceptKept
  <1>5. ASSUME NEW r \in Runs, RunStep(r) PROVE AcceptInv'
    <2>1. PlatformType' /\ UNCHANGED <<session, client, deleter, job>>
      BY <1>5, HarnessTypes DEF Outside
    <2>2. Continues(session, session')
      BY <2>1, Unchanged
    <2>3. DeleterType' /\ \A j \in Jobs : Sees(job'[j], session'.turns)
      BY <1>a, <2>1 DEF DeleterType
    <2> QED
      BY <1>a, <2>1, <2>2, <2>3, AcceptKept
  <1>6. CASE UNCHANGED vars
    <2>1. UNCHANGED <<session, runtime, run, worker, native, started, refused, client, deleter, job, faults>>
      BY <1>6 DEF vars
    <2>2. Continues(session, session')
      BY <2>1, Unchanged
    <2>3. /\ PlatformType' /\ DeleterType' /\ \A j \in Jobs : Sees(job'[j], session'.turns)
      BY <1>a, <2>1 DEF PlatformType, DeleterType
    <2> QED
      BY <1>a, <2>1, <2>2, <2>3, AcceptKept
  <1>7. CASE Next
    BY <1>1, <1>2, <1>3, <1>4, <1>5, <1>6, <1>7 DEF Next, Deletes, RunStep, Done
  <1> QED
    BY <1>6, <1>7

\* Everything the Session's actors read and write keeps its type, for any number of messages,
\* cancellations, jobs and faults.
THEOREM SessionTypes == ASSUME Assumptions PROVE Spec => []TypeOK
  <1>1. AcceptInv => TypeOK
    BY DEF AcceptInv
  <1> QED
    BY <1>1, AcceptInit, AcceptNext, PTL DEF Spec

\* SessionService.events, whatever is lost, repeated or deleted: one idempotency key has one
\* receipt, and one Turn at most is neither finished nor to be cancelled.
THEOREM InputIsAcceptedOnce ==
    ASSUME Assumptions
    PROVE  Spec => [](OneReceiptPerKey /\ OneOpenTurn)
  <1>1. AcceptInv => OneReceiptPerKey /\ OneOpenTurn
    BY DEF AcceptInv
  <1> QED
    BY <1>1, AcceptInit, AcceptNext, PTL DEF Spec

-----------------------------------------------------------------------------
(* One harness, stopped with its Session *)

\* The jobs of a Session without an environment have one FIFO group: one at a time.  The jobs of an
\* environment have a group of their own, so that otherwise two may meet, which is only harmless
\* where there is nothing but one Run to launch.
OneJob == \A i, j \in Jobs : i = j
OneAtATime == OneJob \/ (~Hosted /\ Cardinality(Messages) <= 1)

Admitted == {"admitted", "ready"}
Stoppable == {"running", "cancelling"}
Holding == {"run", "launch", "claim"}                       \* holds what start read
Launching == {"start", "deliver", "submit", "fail"} \union Holding

\* A harness that lives belongs to a Run that runs, the one that the runtime record names.
LiveRuns == \A r \in Runs : worker[r] \in Live => run[r] \in Stoppable
NamedRuns == \A r \in Runs : worker[r] \in Admitted => runtime.run = r

\* What start read is the open runtime record, unless its revision is an old one, ...
ReadIsOld(j) ==
    job[j].pc \in Holding =>
        /\ ~job[j].runtime.closed
        /\ job[j].runtime.revision <= runtime.revision
        /\ job[j].runtime.revision = runtime.revision => job[j].runtime = runtime

\* ... and nothing is launched while the Run it names is active.
NothingRuns(j) ==
    OneJob /\ job[j].pc \in {"launch", "claim"} /\ job[j].runtime.run # NoRun =>
        run[job[j].runtime.run] \notin Active

\* Without a bootstrap only Turns have Runs.
OnlyTurns(j) == ~Hosted => job[j].pc # "initialize" /\ (job[j].pc \in Launching => job[j].turn \in Turns)

\* A runtime is closed for good, and then its Run is stopped.
ClosedForGood == session.phase # "open" \/ deleter.pc \in {"closing", "remove"} => runtime.closed
StopsFirst ==
    deleter.pc = "remove" \/ session.phase = "deleted" =>
        \A r \in Runs : worker[r] \in Admitted => run[r] = "cancelling"

HarnessInv ==
    /\ LiveRuns /\ NamedRuns
    /\ \A j \in Jobs : ReadIsOld(j) /\ NothingRuns(j) /\ OnlyTurns(j)
    /\ ~Hosted => runtime.run \in {NoRun} \union Turns
    /\ ClosedForGood /\ StopsFirst

\* A command that was taken from the list is at its beginning.
LEMMA AdvanceMoves ==
    ASSUME AcceptInv, NEW j \in Jobs, NEW copy \in CopyState, Known(copy), NEW at \in Nat,
           Len(copy.turns) <= Len(session.turns), Advance(j, copy, at)
    PROVE  /\ job'[j].pc \in {"idle", "cancel", "ack", "start", "steer"}
           /\ job'[j].pc = "start" => job'[j].turn \in Turns
  <1>1. job'[j] = NextCommand(copy, at)
    BY JobMoves
  <1> DEFINE left == {i \in DOMAIN copy.receipts : i > at /\ ~copy.receipts[i].dispatched}
             first == CHOOSE n \in left : \A m \in left : n <= m
             receipt == copy.receipts[first]
             base == [NoJob EXCEPT !.copy = copy, !.at = first, !.turn = receipt.turn]
             cancelled == receipt.type = "start" /\ copy.turns[receipt.turn].cancelRequested
  <1>2. CASE left = {}
    <2>1. job'[j] = NoJob
      BY <1>1, <1>2 DEF NextCommand
    <2>2. NoJob.pc = "idle"
      BY DEF NoJob
    <2> QED
      BY <2>1, <2>2
  <1>3. CASE left # {}
    <2>1. left \in SUBSET Nat
      BY LenProperties DEF CopyState
    <2>2. first \in left
      BY <1>3, <2>1, LeastNumber
    <2>3. receipt \in Receipt /\ first \in DOMAIN copy.receipts
      BY <2>1, <2>2, LenProperties, ElementOfSeq DEF CopyState
    <2>4. receipt.type = "start" => receipt.turn \in Turns
      <3>1. receipt.type = "start" => receipt.turn \in DOMAIN copy.turns
        BY <2>3 DEF Known
      <3>2. /\ copy.turns \in Seq(Turn) /\ session.turns \in Seq(Turn)
            /\ DOMAIN session.turns \subseteq Turns
        BY TurnsFit DEF CopyState, AcceptInv, TypeOK, SessionState
      <3> QED
        BY <3>1, <3>2, LenProperties
    <2>5. NextCommand(copy, at) =
            CASE cancelled -> [base EXCEPT !.pc = "cancel", !.then = "observe"]
              [] receipt.type = "none" -> [base EXCEPT !.pc = "ack"]
              [] OTHER -> [base EXCEPT !.pc = receipt.type]
      BY <1>3 DEF NextCommand
    <2> HIDE DEF first, receipt
    <2>6. base.turn = receipt.turn /\ DOMAIN base = DOMAIN NoJob /\ "pc" \in DOMAIN base
      BY DEF NoJob
    <2>7. receipt.type \in {"start", "steer", "cancel", "none"}
      BY <2>3 DEF Receipt
    <2>8. cancelled => receipt.type # "none"
      OBVIOUS
    <2> HIDE DEF base, cancelled
    <2> QED
      BY <1>1, <2>4, <2>5, <2>6, <2>7, <2>8
  <1> QED
    BY <1>2, <1>3

\* What a job's step does to the Runs, the runtime record and the phase of the Session.
LEMMA DispatchPlatform ==
    ASSUME AcceptInv, NEW j \in Jobs, Dispatch(j) \/ DispatchFails(j)
    PROVE  /\ UNCHANGED <<worker, deleter>> /\ session'.phase = session.phase
           /\ \/ runtime' = runtime
              \/ /\ Claim(j) /\ ClaimOk(j)
                 /\ runtime' = [revision |-> job[j].runtime.revision + 1, run |-> job[j].turn,
                                closed |-> FALSE, saved |-> job[j].runtime.saved]
           /\ \A r \in Runs : run[r] \in Stoppable => run'[r] \in Stoppable
           /\ \A r \in Runs : run[r] = "cancelling" => run'[r] = "cancelling"
           /\ Submit(j) \/ \A r \in Runs : run[r] \notin Active => run'[r] \notin Active
  <1>a. /\ run \in [Runs -> {"none"} \union Active \union Ended] /\ session \in SessionState
        /\ job[j].turn \in Runs /\ job[j].runtime \in RuntimeState
    BY DEF AcceptInv, TypeOK, JobState
  <1>1. UNCHANGED <<worker, deleter>>
    BY DEF Dispatch, DispatchFails, DispatchRead, Initialize, StartRead, StartRun, Deliver,
       CheckLaunch, RefuseStart, Claim, Submit, FailTurn, Steer, SteerNative, Cancel, Interrupt,
       ObserveCancelled, SettleCancelled, Acknowledge, platform
  <1>2. session'.phase = session.phase
    <2>1. CASE FailTurn(j) \/ SettleCancelled(j) \/ Acknowledge(j)
      BY <1>a, <2>1 DEF FailTurn, SettleCancelled, Acknowledge, SessionState
    <2>2. CASE ~(FailTurn(j) \/ SettleCancelled(j) \/ Acknowledge(j))
      <3>1. session' = session
        BY <2>2 DEF Dispatch, DispatchFails, DispatchRead, Initialize, StartRead, StartRun, Deliver,
           CheckLaunch, RefuseStart, Claim, Submit, Steer, SteerNative, Cancel, Interrupt, ObserveCancelled
      <3> QED
        BY <3>1
    <2> QED
      BY <2>1, <2>2
  <1>3. \/ runtime' = runtime
        \/ /\ Claim(j) /\ ClaimOk(j)
           /\ runtime' = [revision |-> job[j].runtime.revision + 1, run |-> job[j].turn,
                          closed |-> FALSE, saved |-> job[j].runtime.saved]
    <2>1. ASSUME Claim(j), ClaimOk(j)
          PROVE  runtime' = [revision |-> job[j].runtime.revision + 1, run |-> job[j].turn,
                             closed |-> FALSE, saved |-> job[j].runtime.saved]
      <3>0. PICK x \in RuntimeState, t \in Runs : x = job[j].runtime /\ t = job[j].turn
        BY <1>a
      <3>1. runtime' = [x EXCEPT !.revision = @ + 1, !.run = t, !.closed = FALSE]
        BY <2>1, <3>0 DEF Claim
      <3>2. runtime' = [revision |-> x.revision + 1, run |-> t, closed |-> FALSE, saved |-> x.saved]
        BY <3>1, RuntimeChanges
      <3> QED
        BY <3>0, <3>2
    <2>2. Claim(j) /\ ~ClaimOk(j) => runtime' = runtime
      BY DEF Claim
    <2>3. ~Claim(j) => runtime' = runtime
      BY DEF Dispatch, DispatchFails, DispatchRead, Initialize, StartRead, StartRun, Deliver,
         CheckLaunch, RefuseStart, Submit, FailTurn, Steer, SteerNative, Cancel, Interrupt,
         ObserveCancelled, SettleCancelled, Acknowledge, platform
    <2> QED
      BY <2>1, <2>2, <2>3
  <1>4. /\ \A r \in Runs : run[r] \in Stoppable => run'[r] \in Stoppable
        /\ \A r \in Runs : run[r] = "cancelling" => run'[r] = "cancelling"
        /\ Submit(j) \/ \A r \in Runs : run[r] \notin Active => run'[r] \notin Active
    <2>1. CASE Submit(j)
      BY <1>a, <2>1 DEF Submit, RefuseStart, Stoppable
    <2>2. CASE Cancel(j)
      BY <1>a, <2>2 DEF Cancel, CancelRun, Stoppable, Active
    <2>3. CASE ~Submit(j) /\ ~Cancel(j)
      <3>1. run' = run
        BY <2>3 DEF Dispatch, DispatchFails, DispatchRead, Initialize, StartRead, StartRun, Deliver,
           CheckLaunch, RefuseStart, Claim, FailTurn, Steer, SteerNative, Interrupt,
           ObserveCancelled, SettleCancelled, Acknowledge, platform
      <3> QED
        BY <3>1
    <2> QED
      BY <2>1, <2>2, <2>3
  <1> QED
    BY <1>1, <1>2, <1>3, <1>4

\* How a job gets to hold what start read, and to a start.
Fetches(j) ==
    /\ ~runtime.closed
    /\ job'[j].pc = "run" /\ job'[j].turn = job[j].turn /\ job'[j].runtime = runtime
Holds(j) ==
    /\ job'[j].turn = job[j].turn /\ job'[j].runtime = job[j].runtime
    /\ \/ /\ job[j].pc = "run" /\ job'[j].pc = "launch"
          /\ job[j].runtime.run # NoRun => run[job[j].runtime.run] \notin Active
       \/ job[j].pc = "launch" /\ job'[j].pc = "claim"
LetsGo(j) ==
    /\ job'[j].pc \notin Holding
    /\ job'[j].pc \in Launching => job'[j].turn \in Turns \/ job'[j].turn = job[j].turn
    /\ job'[j].pc \in Launching /\ job'[j].turn \notin Turns =>
            job[j].pc \in Launching \union {"initialize"}
    /\ job'[j].pc = "initialize" => Hosted

LEMMA DispatchHolds ==
    ASSUME AcceptInv, NEW j \in Jobs, Dispatch(j) \/ DispatchFails(j)
    PROVE  \/ StartRead(j) /\ Fetches(j)
           \/ (StartRun(j) \/ CheckLaunch(j)) /\ UNCHANGED <<runtime, run>> /\ Holds(j)
           \/ LetsGo(j)
  <1>a. /\ TypeOK /\ job[j] \in JobState /\ session \in SessionState
        /\ job[j].copy \in CopyState /\ job[j].turn \in Runs
        /\ Known(job[j].copy) /\ Len(job[j].copy.turns) <= Len(session.turns)
        /\ job \in [Jobs -> JobState] /\ 0 \in Nat
    BY DEF AcceptInv, TypeOK, JobState, CopyState, Sees
  <1>b. /\ Copy(session) \in CopyState /\ Known(Copy(session))
        /\ Len(Copy(session).turns) <= Len(session.turns)
    BY <1>a, LenProperties DEF AcceptInv, Copy, CopyState, SessionState, Known
  <1>c. NoJob.pc = "idle"
    BY DEF NoJob
  <1>d. \A pc : Goes(j, pc) => job'[j].pc = pc /\ job'[j].turn = job[j].turn /\ job'[j].runtime = job[j].runtime
    BY <1>a DEF Goes, JobState
  <1>e. Throws(j) => LetsGo(j)
    BY <1>a, <1>c DEF Throws, LetsGo, Holding, Launching
  <1>f. \A pc \in {"ack", "observe", "idle"} : Goes(j, pc) => LetsGo(j)
    BY <1>d DEF LetsGo, Holding, Launching
  <1>g. ASSUME NEW copy \in CopyState, Known(copy), NEW at \in Nat,
               Len(copy.turns) <= Len(session.turns), Advance(j, copy, at)
        PROVE  LetsGo(j)
    BY <1>g, AdvanceMoves DEF LetsGo, Holding, Launching
  <1>h. StartDone(j) => LetsGo(j)
    BY <1>a, <1>f, <1>g DEF StartDone
  <1>i. CancelDone(j) => LetsGo(j)
    BY <1>a, <1>e, <1>f DEF CancelDone, JobState
  <1>j. \A pc \in JobPc \ (Launching \union {"initialize"}) : job'[j].pc = pc => LetsGo(j)
    BY DEF LetsGo, Launching, Holding
  <1>1. CASE DispatchRead(j)
    <2>1. CASE Hosted
      BY <1>1, <1>a, <2>1 DEF DispatchRead, LetsGo, Holding, Launching, NoJob
    <2>2. CASE ~Hosted
      BY <1>1, <1>a, <1>b, <1>g, <2>2 DEF DispatchRead
    <2> QED
      BY <2>1, <2>2
  <1>2. CASE Initialize(j)
    <2>1. Goes(j, "start") => LetsGo(j)
      BY <1>2, <1>d DEF Initialize, LetsGo, Holding, Launching
    <2> QED
      BY <1>2, <1>a, <1>g, <2>1 DEF Initialize
  <1>3. CASE StartRead(j)
    <2>1. ASSUME ~runtime.closed, job' = [job EXCEPT ![j].pc = "run", ![j].runtime = runtime]
          PROVE  Fetches(j)
      BY <1>a, <2>1 DEF Fetches, JobState
    <2> QED
      BY <1>3, <1>h, <2>1 DEF StartRead
  <1>4. CASE StartRun(j)
    <2>1. \A r : job' = [job EXCEPT ![j].pc = "deliver", ![j].target = r] => LetsGo(j)
      BY <1>4, <1>a DEF StartRun, LetsGo, Holding, Launching, JobState
    <2>2. ASSUME job[j].runtime.run = NoRun \/ run[job[j].runtime.run] \notin Active, Goes(j, "launch")
          PROVE  Holds(j)
      BY <1>4, <1>d, <2>2 DEF StartRun, Holds
    <2>3. UNCHANGED <<runtime, run>>
      BY <1>4 DEF StartRun, platform
    <2> QED
      BY <1>4, <1>e, <1>h, <2>1, <2>2, <2>3 DEF StartRun
  <1>5. CASE CheckLaunch(j)
    <2>1. UNCHANGED <<runtime, run>> /\ job[j].pc = "launch"
      BY <1>5 DEF CheckLaunch, RefuseStart
    <2>2. Goes(j, "fail") \/ Goes(j, "submit") => LetsGo(j)
      BY <1>d, <2>1 DEF LetsGo, Holding, Launching
    <2>3. Goes(j, "claim") => Holds(j)
      BY <1>d, <2>1 DEF Holds
    <2> QED
      BY <1>5, <1>e, <2>1, <2>2, <2>3 DEF CheckLaunch, RefuseStart
  <1>6. CASE Claim(j)
    <2>1. Goes(j, "submit") => LetsGo(j)
      BY <1>6, <1>d DEF Claim, LetsGo, Holding, Launching
    <2> QED
      BY <1>6, <1>e, <2>1 DEF Claim, Answered
  <1>7. CASE Deliver(j) \/ Submit(j) \/ DispatchFails(j)
    <2>1. Deliver(j) \/ Submit(j) => (Goes(j, "fail") => LetsGo(j))
      BY <1>d DEF Deliver, Submit, LetsGo, Holding, Launching
    <2> QED
      BY <1>7, <1>e, <1>h, <2>1 DEF Deliver, RefuseStart, Submit, DispatchFails
  <1>8. CASE FailTurn(j) \/ SettleCancelled(j)
    <2>1. Throws(j) \/ job'[j].pc = "ack"
      BY <1>8, <1>a DEF FailTurn, SettleCancelled, JobState
    <2> QED
      BY <1>e, <1>j, <2>1 DEF JobPc, Launching, Holding
  <1>9. CASE Steer(j) \/ SteerNative(j)
    <2>1. Throws(j) \/ job'[j].pc \in {"ack", "steering"}
      BY <1>9, <1>a, <1>d DEF Steer, SteerNative, Answered, Refused, JobState
    <2> QED
      BY <1>e, <1>j, <2>1 DEF JobPc, Launching, Holding
  <1>10. CASE Cancel(j) \/ Interrupt(j)
    <2>1. Throws(j) \/ CancelDone(j) \/ job'[j].pc = "interrupt"
      BY <1>10, <1>a DEF Cancel, Interrupt, JobState
    <2> QED
      BY <1>e, <1>i, <1>j, <2>1 DEF JobPc, Launching, Holding
  <1>11. CASE ObserveCancelled(j)
    <2>1. job'[j].pc = "settle"
      BY <1>11, <1>a DEF ObserveCancelled, JobState
    <2> QED
      BY <1>j, <2>1 DEF JobPc, Launching, Holding
  <1>12. CASE Acknowledge(j)
    <2>1. CASE session.phase # "open"
      <3>1. \/ Throws(j)
            \/ job' = [job EXCEPT ![j].pc = "cancel", ![j].then = "idle"]
        BY <1>12, <1>a, <2>1 DEF Acknowledge, SessionState
      <3>2. Throws(j) \/ job'[j].pc = "cancel"
        BY <1>a, <3>1 DEF JobState
      <3> QED
        BY <1>e, <1>j, <3>2 DEF JobPc, Launching, Holding
    <2>2. CASE session.phase = "open"
      <3>1. PICK turns, copy :
              /\ turns = session'.turns /\ copy = [job[j].copy EXCEPT !.turns = turns]
              /\ Advance(j, copy, job[j].at)
              /\ session' = [session EXCEPT !.revision = @ + 1,
                                !.receipts[job[j].at].dispatched = TRUE,
                                !.receipts[job[j].at].failed = job[j].failed]
        BY <1>12, <2>2 DEF Acknowledge
      <3>2. turns = session.turns
        BY <1>a, <3>1 DEF SessionState
      <3>3. /\ copy \in CopyState /\ copy.turns = session.turns
            /\ copy.receipts = job[j].copy.receipts
        BY <1>a, <3>1, <3>2 DEF CopyState, SessionState
      <3>4. Known(copy)
        <4>1. session.turns \in Seq(Turn) /\ job[j].copy.turns \in Seq(Turn)
          BY <1>a DEF SessionState, CopyState
        <4>2. DOMAIN job[j].copy.turns \subseteq DOMAIN session.turns
          BY <1>a, <4>1, LenProperties
        <4> QED
          BY <1>a, <3>3, <4>2 DEF Known
      <3>5. Len(copy.turns) <= Len(session.turns) /\ job[j].at \in Nat
        BY <1>a, <3>3, LenProperties DEF SessionState, JobState
      <3> QED
        BY <1>g, <3>1, <3>3, <3>4, <3>5
    <2> QED
      BY <2>1, <2>2
  <1> QED
    BY <1>1, <1>2, <1>3, <1>4, <1>5, <1>6, <1>7, <1>8, <1>9, <1>10, <1>11, <1>12 DEF Dispatch

\* What a harness and its Run do: who is admitted was, or has the authority; only what runs ends.
LEMMA HarnessMoves ==
    ASSUME AcceptInv, LiveRuns, NEW r \in Runs, RunStep(r)
    PROVE  /\ LiveRuns'
           /\ \A s \in Runs : worker'[s] \in Admitted =>
                \/ worker[s] \in Admitted /\ run'[s] = run[s]
                \/ Authority(s)
           /\ \A s \in Runs : run[s] \notin Active => run'[s] \notin Active
           /\ runtime'.run = runtime.run /\ runtime'.closed = runtime.closed
           /\ runtime'.revision >= runtime.revision
           /\ runtime'.revision = runtime.revision => runtime' = runtime
  <1>a. /\ run \in [Runs -> {"none"} \union Active \union Ended] /\ r \in Runs
        /\ worker \in [Runs -> {"off", "closed", "gone"} \union Live]
        /\ runtime \in RuntimeState /\ runtime.revision \in Nat
    BY DEF AcceptInv, TypeOK, RuntimeState
  <1>b. /\ runtime'.run = runtime.run /\ runtime'.closed = runtime.closed
        /\ runtime'.revision >= runtime.revision
        /\ runtime'.revision = runtime.revision => runtime' = runtime
    <2>1. ASSUME NEW turns, Saves(r, turns)
          PROVE  \/ runtime' = runtime
                 \/ /\ runtime'.run = runtime.run /\ runtime'.closed = runtime.closed
                    /\ runtime'.revision = runtime.revision + 1
      BY <1>a, <2>1 DEF Saves, RuntimeState
    <2>2. Closes(r) => \/ runtime' = runtime
                       \/ /\ runtime'.run = runtime.run /\ runtime'.closed = runtime.closed
                          /\ runtime'.revision = runtime.revision + 1
      BY <2>1 DEF Closes
    <2>3. Flush(r) => \/ runtime' = runtime
                      \/ /\ runtime'.run = runtime.run /\ runtime'.closed = runtime.closed
                         /\ runtime'.revision = runtime.revision + 1
      BY <2>1 DEF Flush
    <2>4. Closes(r) \/ Flush(r) \/ runtime' = runtime
      BY DEF RunStep, Harness, Launch, CheckAuthority, Ready, StartInitial, TurnEnds, Close, Finish,
         RunLost, NativeExits, HostDies, LaunchFails
    <2> QED
      BY <1>a, <2>2, <2>3, <2>4
  <1> DEFINE Moves ==
        /\ LiveRuns'
        /\ \A s \in Runs : worker'[s] \in Admitted =>
             \/ worker[s] \in Admitted /\ run'[s] = run[s]
             \/ Authority(s)
        /\ \A s \in Runs : run[s] \notin Active => run'[s] \notin Active
  <1>c. ASSUME UNCHANGED run,
               \A s \in Runs \ {r} : worker'[s] = worker[s],
               worker'[r] \in Live => worker[r] \in Live,
               worker'[r] \in Admitted => worker[r] \in Admitted \/ Authority(r)
        PROVE  Moves
    BY <1>a, <1>c DEF LiveRuns, Live, Admitted
  <1>d. ASSUME NEW status \in Ended, EndRun(r, status), worker'[r] \notin Live,
               \A s \in Runs \ {r} : worker'[s] = worker[s]
        PROVE  Moves
    <2>1. /\ run'[r] \in Ended /\ \A s \in Runs \ {r} : run'[s] = run[s]
          /\ \A s \in Runs \ {r} : worker'[s] = worker[s]
      BY <1>a, <1>d DEF EndRun, Ended
    <2>2. run'[r] \notin Active
      BY <2>1 DEF Ended, Active
    <2> QED
      BY <1>d, <2>1, <2>2 DEF LiveRuns, Live, Admitted
  <1>e. \A w : Becomes(r, w) => worker'[r] = w /\ \A s \in Runs \ {r} : worker'[s] = worker[s]
    BY <1>a DEF Becomes
  <1>1. CASE Launch(r)
    <2>1. /\ run[r] = "queued" /\ run'[r] = "running" /\ worker'[r] = "launched"
          /\ \A s \in Runs \ {r} : run'[s] = run[s] /\ worker'[s] = worker[s]
      BY <1>1, <1>a, <1>e DEF Launch
    <2> QED
      BY <1>b, <2>1 DEF LiveRuns, Live, Admitted, Stoppable, Active
  <1>2. CASE CheckAuthority(r)
    <2>1. CASE Authority(r)
      <3>1. Becomes(r, "admitted") /\ UNCHANGED run /\ worker[r] = "launched"
        BY <1>2, <2>1 DEF CheckAuthority
      <3>2. worker'[r] = "admitted" /\ \A s \in Runs \ {r} : worker'[s] = worker[s]
        BY <1>e, <3>1
      <3>3. worker[r] \in Live
        BY <3>1 DEF Live
      <3> QED
        BY <1>b, <1>c, <2>1, <3>1, <3>2, <3>3
    <2>2. CASE ~Authority(r)
      <3>1. Becomes(r, "gone") /\ EndRun(r, "failed")
        BY <1>2, <2>2 DEF CheckAuthority
      <3>2. worker'[r] = "gone" /\ \A s \in Runs \ {r} : worker'[s] = worker[s]
        BY <1>e, <3>1
      <3>3. "failed" \in Ended /\ worker'[r] \notin Live
        BY <3>2 DEF Ended, Live
      <3> QED
        BY <1>b, <1>d, <3>1, <3>2, <3>3
    <2> QED
      BY <2>1, <2>2
  <1>3. CASE Ready(r)
    BY <1>3, <1>b, <1>c, <1>e DEF Ready, Live, Admitted
  <1>4. CASE StartInitial(r) \/ TurnEnds(r)
    <2>1. UNCHANGED <<run, worker>>
      BY <1>4 DEF StartInitial, TurnEnds
    <2> QED
      BY <1>b, <1>c, <2>1
  <1>5. CASE Flush(r)
    <2>1. UNCHANGED run /\ worker[r] = "ready" /\ (worker' = worker \/ Becomes(r, "gone"))
      BY <1>5 DEF Flush
    <2> QED
      BY <1>b, <1>c, <1>e, <2>1 DEF Live, Admitted
  <1>6. CASE Close(r) \/ NativeExits(r)
    <2>1. UNCHANGED run /\ (Becomes(r, "closed") \/ Becomes(r, "gone"))
      BY <1>6 DEF Close, NativeExits, Closes
    <2> QED
      BY <1>b, <1>c, <1>e, <2>1 DEF Live, Admitted
  <1>7. CASE HostDies(r)
    <2>1. UNCHANGED run /\ Becomes(r, "gone")
      BY <1>7 DEF HostDies
    <2> QED
      BY <1>b, <1>c, <1>e, <2>1 DEF Live, Admitted
  <1>8. CASE Finish(r) \/ RunLost(r) \/ LaunchFails(r)
    <2>1. PICK status \in Ended : EndRun(r, status)
      BY <1>8 DEF Finish, RunLost, LaunchFails, Ended
    <2>2. worker' = worker /\ worker[r] \notin Live
      BY <1>8 DEF Finish, RunLost, LaunchFails, Live
    <2> QED
      BY <1>b, <1>d, <2>1, <2>2
  <1> QED
    BY <1>1, <1>2, <1>3, <1>4, <1>5, <1>6, <1>7, <1>8 DEF RunStep, Harness

\* Where the jobs and the record are left alone, what they rely on stays.
LEMMA HarnessKept ==
    ASSUME AcceptInv, HarnessInv, UNCHANGED <<job, deleter>>,
           session'.phase = session.phase,
           LiveRuns',
           \A s \in Runs : worker'[s] \in Admitted =>
                \/ worker[s] \in Admitted /\ run'[s] = run[s]
                \/ Authority(s),
           \A s \in Runs : run[s] \notin Active => run'[s] \notin Active,
           runtime'.run = runtime.run, runtime'.closed = runtime.closed,
           runtime'.revision >= runtime.revision, runtime'.revision \in Nat,
           runtime'.revision = runtime.revision => runtime' = runtime
    PROVE  HarnessInv'
  <1>a. /\ runtime.revision \in Nat
        /\ \A j \in Jobs : /\ job[j].runtime.revision \in Nat
                           /\ job[j].runtime.run \in Runs \union {NoRun}
    BY DEF AcceptInv, TypeOK, RuntimeState, JobState
  <1>1. NamedRuns'
    BY DEF HarnessInv, NamedRuns, Authority
  <1>2. ASSUME NEW j \in Jobs PROVE (ReadIsOld(j) /\ NothingRuns(j) /\ OnlyTurns(j))'
    <2>1. ReadIsOld(j) /\ NothingRuns(j) /\ OnlyTurns(j) /\ job'[j] = job[j]
      BY DEF HarnessInv
    <2>2. ReadIsOld(j)'
      BY <1>a, <2>1 DEF ReadIsOld
    <2>3. NothingRuns(j)'
      BY <1>a, <2>1 DEF NothingRuns, OneJob
    <2> QED
      BY <2>1, <2>2, <2>3 DEF OnlyTurns
  <1>3. ClosedForGood'
    BY DEF HarnessInv, ClosedForGood
  <1>4. StopsFirst'
    BY DEF HarnessInv, StopsFirst, ClosedForGood, Authority
  <1>5. ~Hosted => runtime'.run \in {NoRun} \union Turns
    BY DEF HarnessInv
  <1> QED
    BY <1>1, <1>2, <1>3, <1>4, <1>5 DEF HarnessInv

\* A claim finds no other Run at work, and a runtime that is open.
LEMMA ClaimIsFree ==
    ASSUME Assumptions, AcceptInv, HarnessInv, OneAtATime, NEW j \in Jobs, Claim(j), ClaimOk(j)
    PROVE  /\ ~runtime.closed /\ runtime = job[j].runtime
           /\ \A r \in Runs : worker[r] \in Admitted => r = job[j].turn
  <1>a. /\ job[j].pc = "claim" /\ runtime.revision = job[j].runtime.revision
        /\ runtime \in RuntimeState /\ IsFiniteSet(Messages)
    BY DEF Claim, ClaimOk, AcceptInv, TypeOK, Assumptions
  <1>1. runtime = job[j].runtime /\ ~job[j].runtime.closed
    BY <1>a DEF HarnessInv, ReadIsOld, Holding
  <1>2. ASSUME NEW r \in Runs, worker[r] \in Admitted PROVE r = job[j].turn
    <2>1. runtime.run = r /\ run[r] \in Active
      BY <1>2 DEF HarnessInv, NamedRuns, LiveRuns, Admitted, Live, Stoppable, Active
    <2>2. r # NoRun
      BY FS_CardinalityType, <1>a DEF Runs, NoRun, Turns, Bootstrap
    <2>3. CASE OneJob
      BY <1>a, <1>1, <2>1, <2>2, <2>3 DEF HarnessInv, NothingRuns
    <2>4. CASE ~Hosted /\ Cardinality(Messages) <= 1
      <3>1. r \in Turns /\ job[j].turn \in Turns
        BY <1>a, <2>1, <2>2, <2>4 DEF HarnessInv, OnlyTurns, Launching, Holding
      <3> QED
        BY <1>a, <2>4, <3>1, FS_CardinalityType DEF Turns
    <2> QED
      BY <2>3, <2>4 DEF OneAtATime
  <1> QED
    BY <1>1, <1>2

LEMMA HarnessInit == Assumptions /\ Init => HarnessInv
  <1> SUFFICES ASSUME Assumptions, Init PROVE HarnessInv
    OBVIOUS
  <1>1. /\ \A r \in Runs : worker[r] = "off"
        /\ session.phase = "open" /\ deleter.pc = "idle" /\ runtime.run = NoRun
    BY DEF Init, EmptySession, NoRuntime
  <1>2. \A j \in Jobs : job[j] = NoJob
    BY DEF Init
  <1>3. NoJob.pc = "idle"
    BY DEF NoJob
  <1>4. \A j \in Jobs : ReadIsOld(j) /\ NothingRuns(j) /\ OnlyTurns(j)
    BY <1>2, <1>3 DEF ReadIsOld, NothingRuns, OnlyTurns, Launching, Holding
  <1> QED
    BY <1>1, <1>4 DEF HarnessInv, LiveRuns, NamedRuns, ClosedForGood, StopsFirst, Live, Admitted

LEMMA HarnessDispatch ==
    ASSUME Assumptions, AcceptInv, AcceptInv', HarnessInv, OneAtATime,
           NEW j \in Jobs, Dispatch(j) \/ DispatchFails(j)
    PROVE  HarnessInv'
  <1>a. /\ runtime \in RuntimeState /\ runtime' \in RuntimeState
        /\ \A i \in Jobs : /\ job[i].runtime \in RuntimeState /\ job[i].runtime.revision \in Nat
                           /\ job[i].runtime.run \in Runs \union {NoRun} /\ job[i].turn \in Runs
        /\ runtime.revision \in Nat
    BY DEF AcceptInv, TypeOK, RuntimeState, JobState
  <1>b. /\ UNCHANGED <<worker, deleter>> /\ session'.phase = session.phase
        /\ \/ runtime' = runtime
           \/ /\ Claim(j) /\ ClaimOk(j)
              /\ runtime' = [revision |-> job[j].runtime.revision + 1, run |-> job[j].turn,
                             closed |-> FALSE, saved |-> job[j].runtime.saved]
        /\ \A r \in Runs : run[r] \in Stoppable => run'[r] \in Stoppable
        /\ \A r \in Runs : run[r] = "cancelling" => run'[r] = "cancelling"
        /\ Submit(j) \/ \A r \in Runs : run[r] \notin Active => run'[r] \notin Active
    BY DispatchPlatform
  <1>c. \/ StartRead(j) /\ Fetches(j)
        \/ (StartRun(j) \/ CheckLaunch(j)) /\ UNCHANGED <<runtime, run>> /\ Holds(j)
        \/ LetsGo(j)
    BY DispatchHolds
  <1>d. \A i \in Jobs \ {j} : job'[i] = job[i]
    BY DispatchAccepts DEF OnlyJob
  <1>e. \/ runtime' = runtime
        \/ /\ Claim(j) /\ ClaimOk(j) /\ ~runtime.closed /\ runtime = job[j].runtime
           /\ runtime'.revision = runtime.revision + 1 /\ runtime'.run = job[j].turn
           /\ \A r \in Runs : worker[r] \in Admitted => r = job[j].turn
    BY <1>b, ClaimIsFree
  <1>1. LiveRuns'
    BY <1>b DEF HarnessInv, LiveRuns
  <1>2. NamedRuns'
    BY <1>b, <1>e DEF HarnessInv, NamedRuns
  <1>3. ClosedForGood'
    BY <1>b, <1>e DEF HarnessInv, ClosedForGood
  <1>4. StopsFirst'
    BY <1>b DEF HarnessInv, StopsFirst
  <1>5. ~Hosted => runtime'.run \in {NoRun} \union Turns
    <2>1. Claim(j) => job[j].pc = "claim"
      BY DEF Claim
    <2> QED
      BY <1>e, <2>1 DEF HarnessInv, OnlyTurns, Launching, Holding
  <1>6. \A i \in Jobs : job[i].runtime.revision <= runtime.revision =>
            /\ job[i].runtime.revision <= runtime'.revision
            /\ job[i].runtime.revision = runtime'.revision => runtime' = runtime
    BY <1>a, <1>e
  <1>7. ASSUME NEW i \in Jobs \ {j} PROVE (ReadIsOld(i) /\ NothingRuns(i) /\ OnlyTurns(i))'
    <2>1. job'[i] = job[i] /\ ReadIsOld(i) /\ OnlyTurns(i) /\ ~OneJob
      BY <1>d DEF HarnessInv, OneJob
    <2>2. ReadIsOld(i)'
      BY <1>6, <2>1 DEF ReadIsOld
    <2> QED
      BY <2>1, <2>2 DEF NothingRuns, OneJob, OnlyTurns
  <1>8. (ReadIsOld(j) /\ NothingRuns(j) /\ OnlyTurns(j))'
    <2>a. ReadIsOld(j) /\ NothingRuns(j) /\ OnlyTurns(j)
      BY DEF HarnessInv
    <2>1. CASE StartRead(j) /\ Fetches(j)
      <3>1. runtime' = runtime /\ job[j].pc = "start"
        BY <2>1 DEF StartRead
      <3>2. OnlyTurns(j)'
        BY <2>1, <2>a, <3>1 DEF Fetches, OnlyTurns, Launching, Holding
      <3> QED
        BY <1>a, <2>1, <3>1, <3>2 DEF Fetches, ReadIsOld, NothingRuns
    <2>2. CASE (StartRun(j) \/ CheckLaunch(j)) /\ UNCHANGED <<runtime, run>> /\ Holds(j)
      <3>1. ReadIsOld(j)'
        BY <2>2, <2>a DEF Holds, ReadIsOld, Holding
      <3>2. NothingRuns(j)'
        BY <2>2, <2>a DEF Holds, NothingRuns, OneJob
      <3>3. OnlyTurns(j)'
        BY <2>2, <2>a DEF Holds, OnlyTurns, Launching, Holding
      <3> QED
        BY <3>1, <3>2, <3>3
    <2>3. CASE LetsGo(j)
      <3>1. OnlyTurns(j)'
        BY <2>3, <2>a DEF LetsGo, OnlyTurns
      <3> QED
        BY <2>3, <3>1 DEF LetsGo, ReadIsOld, NothingRuns, Holding
    <2> QED
      BY <1>c, <2>1, <2>2, <2>3
  <1> QED
    BY <1>1, <1>2, <1>3, <1>4, <1>5, <1>7, <1>8 DEF HarnessInv

LEMMA HarnessDelete ==
    ASSUME AcceptInv, AcceptInv', HarnessInv, Deletes
    PROVE  HarnessInv'
  <1>a. /\ session \in SessionState /\ runtime \in RuntimeState /\ runtime.revision \in Nat
        /\ run \in [Runs -> {"none"} \union Active \union Ended]
        /\ deleter \in [pc : {"idle", "closing", "remove", "done"}, revision : Nat]
        /\ \A j \in Jobs : /\ job[j].runtime.revision \in Nat
                           /\ job[j].runtime.run \in Runs \union {NoRun}
    BY DEF AcceptInv, TypeOK, RuntimeState, JobState
  <1>b. UNCHANGED <<worker, job>>
    BY DEF Deletes, DeleteClose, DeleteStop, DeleteRemove, DeleteFails, platform
  <1>c. /\ runtime'.run = runtime.run
        /\ runtime' = runtime \/ (runtime'.closed /\ runtime'.revision = runtime.revision + 1)
        /\ DeleteClose => runtime'.closed
    <2>1. CASE DeleteClose
      BY <1>a, <2>1 DEF DeleteClose, RuntimeState
    <2>2. CASE ~DeleteClose
      BY <2>2 DEF Deletes, DeleteStop, DeleteRemove, DeleteFails
    <2> QED
      BY <2>1, <2>2
  <1>d. \/ run' = run
        \/ DeleteStop /\ CancelRun(runtime.run) /\ runtime.run \in Runs
    <2>1. CASE DeleteStop
      BY <1>a, <2>1 DEF DeleteStop, RuntimeState
    <2>2. CASE ~DeleteStop
      BY <2>2 DEF Deletes, DeleteClose, DeleteRemove, DeleteFails, platform
    <2> QED
      BY <2>1, <2>2
  <1>e. /\ \A r \in Runs : run[r] \in Stoppable => run'[r] \in Stoppable
        /\ \A r \in Runs : run[r] = "cancelling" => run'[r] = "cancelling"
        /\ \A r \in Runs : run[r] \notin Active => run'[r] \notin Active
    BY <1>a, <1>d DEF CancelRun, Stoppable, Active
  <1>1. LiveRuns' /\ NamedRuns'
    BY <1>b, <1>c, <1>e DEF HarnessInv, LiveRuns, NamedRuns
  <1>2. ASSUME NEW j \in Jobs PROVE (ReadIsOld(j) /\ NothingRuns(j) /\ OnlyTurns(j))'
    <2>1. ReadIsOld(j) /\ NothingRuns(j) /\ OnlyTurns(j) /\ job'[j] = job[j]
      BY <1>b DEF HarnessInv
    <2>2. ReadIsOld(j)'
      BY <1>a, <1>c, <2>1 DEF ReadIsOld
    <2>3. NothingRuns(j)'
      BY <1>a, <1>e, <2>1 DEF NothingRuns, OneJob
    <2> QED
      BY <2>1, <2>2, <2>3 DEF OnlyTurns
  <1>3. ClosedForGood'
    <2>1. CASE DeleteClose
      BY <1>c, <2>1 DEF ClosedForGood
    <2>2. CASE ~DeleteClose
      <3>1. session.phase # "open" \/ deleter.pc \in {"closing", "remove"}
        BY <2>2 DEF Deletes, DeleteStop, DeleteRemove, DeleteFails
      <3> QED
        BY <1>c, <3>1 DEF HarnessInv, ClosedForGood
    <2> QED
      BY <2>1, <2>2
  <1>4. StopsFirst'
    <2>1. CASE DeleteClose
      <3>1. deleter'.pc = "closing" /\ session'.phase # "deleted"
        BY <1>a, <2>1 DEF DeleteClose, SessionState
      <3> QED
        BY <3>1 DEF StopsFirst
    <2>2. CASE DeleteStop
      <3> SUFFICES ASSUME NEW r \in Runs, worker[r] \in Admitted PROVE run'[r] = "cancelling"
        BY <1>b DEF StopsFirst
      <3>1. runtime.run = r /\ run[r] \in Stoppable
        BY DEF HarnessInv, NamedRuns, LiveRuns, Admitted, Live
      <3>2. r # NoRun
        BY FS_CardinalityType DEF Runs, NoRun, Turns, Bootstrap, AcceptInv, Assumptions
      <3>3. CancelRun(r)
        BY <2>2, <3>1, <3>2 DEF DeleteStop
      <3> QED
        BY <1>a, <3>1, <3>3 DEF CancelRun, Stoppable
    <2>3. CASE DeleteRemove \/ DeleteFails
      <3>1. /\ run' = run
            /\ deleter'.pc = "remove" \/ session'.phase = "deleted" =>
                 deleter.pc = "remove" \/ session.phase = "deleted"
        BY <1>a, <2>3 DEF DeleteRemove, DeleteFails, platform
      <3> QED
        BY <1>b, <3>1 DEF HarnessInv, StopsFirst
    <2> QED
      BY <2>1, <2>2, <2>3 DEF Deletes
  <1>5. ~Hosted => runtime'.run \in {NoRun} \union Turns
    BY <1>c DEF HarnessInv
  <1> QED
    BY <1>1, <1>2, <1>3, <1>4, <1>5 DEF HarnessInv

LEMMA HarnessNext ==
    ASSUME Assumptions, OneAtATime, AcceptInv, AcceptInv', HarnessInv, [Next]_vars
    PROVE  HarnessInv'
  <1>a. runtime.revision \in Nat /\ runtime'.revision \in Nat /\ session \in SessionState
    BY DEF AcceptInv, TypeOK, RuntimeState
  <1>1. ASSUME UNCHANGED <<runtime, run, worker, job, deleter>>, session'.phase = session.phase
        PROVE  HarnessInv'
    <2>1. LiveRuns' /\ runtime'.revision >= runtime.revision
      BY <1>a, <1>1 DEF HarnessInv, LiveRuns
    <2> QED
      BY <1>a, <1>1, <2>1, HarnessKept
  <1>2. ASSUME NEW k \in Keys, EventsRead(k) \/ EventsCommit(k) PROVE HarnessInv'
    <2>1. UNCHANGED <<runtime, run, worker, job, deleter>>
      BY <1>2 DEF EventsRead, EventsCommit, platform
    <2>2. Planned(k).phase = session.phase
      BY <1>a DEF Planned, SessionState
    <2>3. session'.phase = session.phase
      BY <1>2, <2>2 DEF EventsRead, EventsCommit
    <2> QED
      BY <1>1, <2>1, <2>3
  <1>3. CASE Deletes
    BY <1>3, HarnessDelete
  <1>4. ASSUME NEW j \in Jobs, Dispatch(j) \/ DispatchFails(j) PROVE HarnessInv'
    BY <1>4, HarnessDispatch
  <1>5. ASSUME NEW t \in Turns, CompleteTurn(t) PROVE HarnessInv'
    <2>1. UNCHANGED <<runtime, run, worker, job, deleter>> /\ session'.phase = session.phase
      BY <1>5, <1>a DEF CompleteTurn, platform, SessionState
    <2> QED
      BY <1>1, <2>1
  <1>6. ASSUME NEW r \in Runs, RunStep(r) PROVE HarnessInv'
    <2>1. UNCHANGED <<job, deleter, session>>
      BY <1>6, HarnessTypes DEF Outside
    <2>2. LiveRuns
      BY DEF HarnessInv
    <2> QED
      BY <1>6, <1>a, <2>1, <2>2, HarnessMoves, HarnessKept
  <1>7. CASE UNCHANGED vars
    BY <1>1, <1>7 DEF vars
  <1>8. CASE Next
    BY <1>2, <1>3, <1>4, <1>5, <1>6, <1>7, <1>8 DEF Next, Deletes, RunStep, Done
  <1> QED
    BY <1>7, <1>8

\* session-service.ts, run-session-execution.ts and session-runtime.ts together: one key has one
\* receipt, one Turn is open at most, one harness at most may run the Session's Turns, and a Session
\* that was deleted has none that is not being stopped; while the Session's jobs come one at a time,
\* or race for a single Run.
THEOREM OneSession ==
    ASSUME Assumptions, OneAtATime
    PROVE  Spec => []SessionIsOne
  <1>1. AcceptInv /\ HarnessInv => SessionIsOne
    <2>1. NamedRuns => OneHarness
      BY DEF NamedRuns, OneHarness, Admitted
    <2>2. StopsFirst => DeletedMeansStopped
      BY DEF StopsFirst, DeletedMeansStopped, Admitted
    <2> QED
      BY <2>1, <2>2 DEF AcceptInv, HarnessInv, SessionIsOne
  <1>2. Init => AcceptInv /\ HarnessInv
    BY AcceptInit, HarnessInit
  <1>3. AcceptInv /\ HarnessInv /\ [Next]_vars => AcceptInv' /\ HarnessInv'
    BY AcceptNext, HarnessNext
  <1> QED
    BY <1>1, <1>2, <1>3, PTL DEF Spec

-----------------------------------------------------------------------------
(* Only a refusal overwrites an outcome *)

\* What a job does with the command it works on: it leaves it as it is, ...
Stays(j) ==
    /\ job'[j].at = job[j].at /\ job'[j].turn = job[j].turn /\ job'[j].then = job[j].then
    /\ job'[j].copy = job[j].copy
Moves(j, pc) == job'[j].pc = pc /\ Stays(j)

\* ... or takes the next one of a list.
Takes(j, copy, at) ==
    LET me == job'[j]
        receipt == copy.receipts[me.at]
    IN  /\ me.at \in DOMAIN copy.receipts /\ me.at > at /\ ~receipt.dispatched
        /\ \A i \in DOMAIN copy.receipts : i > at /\ i < me.at => copy.receipts[i].dispatched
        /\ me.copy = copy /\ me.turn = receipt.turn
        /\ \/ /\ me.pc = "cancel" /\ me.then = "observe" /\ receipt.type = "start"
              /\ copy.turns[me.turn].cancelRequested
           \/ me.pc \in {"ack", "steer", "cancel"} /\ me.then = "ack"
           \/ /\ me.pc = "start" /\ me.then = "ack" /\ receipt.type = "start"
              /\ ~copy.turns[me.turn].cancelRequested

LEMMA TakesNext ==
    ASSUME AcceptInv, NEW j \in Jobs, NEW copy \in CopyState, Known(copy), NEW at \in Nat,
           Advance(j, copy, at)
    PROVE  job'[j] = NoJob \/ Takes(j, copy, at)
  <1>1. job'[j] = NextCommand(copy, at)
    BY JobMoves
  <1> DEFINE left == {i \in DOMAIN copy.receipts : i > at /\ ~copy.receipts[i].dispatched}
             first == CHOOSE n \in left : \A m \in left : n <= m
             receipt == copy.receipts[first]
             base == [NoJob EXCEPT !.copy = copy, !.at = first, !.turn = receipt.turn]
             cancelled == receipt.type = "start" /\ copy.turns[receipt.turn].cancelRequested
  <1>2. CASE left = {}
    BY <1>1, <1>2 DEF NextCommand
  <1>3. CASE left # {}
    <2>1. left \in SUBSET Nat /\ DOMAIN copy.receipts \subseteq Nat
      BY LenProperties DEF CopyState
    <2>2. first \in left /\ \A m \in left : first <= m
      BY <1>3, <2>1, LeastNumber
    <2>3. receipt \in Receipt /\ first \in Nat
      BY <2>1, <2>2, LenProperties, ElementOfSeq DEF CopyState
    <2>4. \A i \in DOMAIN copy.receipts : i > at /\ i < first => copy.receipts[i].dispatched
      BY <2>1, <2>2
    <2>5. first \in DOMAIN copy.receipts /\ first > at /\ ~receipt.dispatched
      BY <2>2
    <2>6. NextCommand(copy, at) =
            CASE cancelled -> [base EXCEPT !.pc = "cancel", !.then = "observe"]
              [] receipt.type = "none" -> [base EXCEPT !.pc = "ack"]
              [] OTHER -> [base EXCEPT !.pc = receipt.type]
      BY <1>3 DEF NextCommand
    <2>7. receipt.type \in {"start", "steer", "cancel", "none"}
      BY <2>3 DEF Receipt
    <2>8. PICK n, r : n = first /\ r = receipt
      OBVIOUS
    <2>9. r = copy.receipts[n]
      BY <2>8
    <2>10. /\ base.at = n /\ base.copy = copy /\ base.turn = r.turn /\ base.then = "ack"
           /\ {"pc", "then", "at", "copy", "turn"} \subseteq DOMAIN base
      BY <2>8 DEF NoJob
    <2>11. cancelled <=> r.type = "start" /\ copy.turns[r.turn].cancelRequested
      BY <2>8
    <2> HIDE DEF first, receipt, base, cancelled
    <2>12. \/ /\ cancelled /\ job'[j] = [base EXCEPT !.pc = "cancel", !.then = "observe"]
           \/ ~cancelled /\ r.type = "none" /\ job'[j] = [base EXCEPT !.pc = "ack"]
           \/ /\ ~cancelled /\ r.type \in {"start", "steer", "cancel"}
              /\ job'[j] = [base EXCEPT !.pc = r.type]
      BY <1>1, <2>6, <2>7, <2>8, <2>11
    <2>13. /\ job'[j].at = n /\ job'[j].copy = copy /\ job'[j].turn = r.turn
           /\ \/ cancelled /\ job'[j].pc = "cancel" /\ job'[j].then = "observe"
              \/ ~cancelled /\ job'[j].pc \in {"ack", "steer", "cancel"} /\ job'[j].then = "ack"
              \/ /\ ~cancelled /\ job'[j].pc = "start" /\ job'[j].then = "ack"
                 /\ r.type = "start"
      BY <2>10, <2>12
    <2>14. n \in DOMAIN copy.receipts /\ n > at /\ ~r.dispatched
      BY <2>5, <2>8
    <2>15. \A i \in DOMAIN copy.receipts : i > at /\ i < n => copy.receipts[i].dispatched
      BY <2>4, <2>8
    <2> QED
      BY <2>9, <2>11, <2>13, <2>14, <2>15 DEF Takes
  <1> QED
    BY <1>2, <1>3

\* Where a command may go on to.
Onward ==
    {<<"initialize", "start">>, <<"start", "run">>, <<"start", "ack">>,
     <<"run", "ack">>, <<"run", "deliver">>, <<"run", "launch">>, <<"deliver", "ack">>,
     <<"launch", "submit">>, <<"launch", "claim">>, <<"launch", "fail">>,
     <<"deliver", "fail">>, <<"claim", "submit">>, <<"submit", "ack">>, <<"submit", "fail">>,
     <<"steer", "steering">>, <<"steer", "ack">>, <<"steering", "ack">>,
     <<"cancel", "interrupt">>, <<"cancel", "observe">>, <<"cancel", "ack">>,
     <<"interrupt", "observe">>, <<"interrupt", "ack">>, <<"observe", "settle">>}

\* What can become of the command of a job: it is dropped, read, gone on with, noted in the Session,
\* revoked, or done.
Dropped(j) == job'[j] = NoJob
Reads(j) ==
    /\ session' = session /\ job[j].pc = "idle"
    /\ \/ ~Hosted /\ Takes(j, Copy(session), 0)
       \/ /\ Hosted /\ job'[j].pc = "initialize" /\ job'[j].copy = Copy(session)
          /\ job'[j].at = 0 /\ job'[j].turn = Bootstrap /\ job'[j].then = "ack"
Resumes(j) ==
    /\ session' = session
    /\ job[j].pc = "initialize" \/ (job[j].pc \in Launching /\ job[j].turn = Bootstrap)
    /\ Takes(j, job[j].copy, 0)
Continued(j) ==
    /\ session' = session /\ Stays(j) /\ <<job[j].pc, job'[j].pc>> \in Onward
    /\ job[j].pc \in Launching /\ job'[j].pc = "ack" => job[j].turn # Bootstrap
    /\ job[j].pc \in {"cancel", "interrupt"} /\ job'[j].pc # "interrupt" => job'[j].pc = job[j].then
Noted(j) ==
    /\ session'.receipts = session.receipts
    /\ job[j].pc \in {"fail", "settle"} /\ job'[j].pc = "ack"
    /\ job'[j].at = job[j].at /\ job'[j].turn = job[j].turn /\ job'[j].then = job[j].then
    /\ job'[j].copy.turns = session'.turns /\ job'[j].copy.receipts = job[j].copy.receipts
Revokes(j) ==
    /\ session' = session /\ job[j].pc = "ack" /\ job'[j].pc = "cancel" /\ job'[j].then = "idle"
    /\ job'[j].at = job[j].at /\ job'[j].turn = job[j].turn /\ job'[j].copy = job[j].copy
Done1(j, copy) ==
    /\ job[j].pc = "ack" /\ session'.turns = session.turns
    /\ copy.turns = session'.turns /\ copy.receipts = job[j].copy.receipts
    /\ DOMAIN session'.receipts = DOMAIN session.receipts
    /\ \A i \in DOMAIN session.receipts :
         /\ i = job[j].at => session'.receipts[i].dispatched
         /\ i # job[j].at => session'.receipts[i].dispatched = session.receipts[i].dispatched

\* A call of a job that succeeds, by what it does to the command.
LEMMA JobFields ==
    ASSUME TypeOK, NEW j \in Jobs
    PROVE  /\ \A pc : Goes(j, pc) => Moves(j, pc) /\ job'[j].runtime = job[j].runtime
                                     /\ job'[j].target = job[j].target
           /\ job' = [job EXCEPT ![j].pc = "run", ![j].runtime = runtime] =>
                Moves(j, "run") /\ job'[j].runtime = runtime
           /\ \A pc, r : job' = [job EXCEPT ![j].pc = pc, ![j].target = r] =>
                Moves(j, pc) /\ job'[j].runtime = job[j].runtime /\ job'[j].target = r
           /\ \A outcome : job' = [job EXCEPT ![j].pc = "settle", ![j].outcome = outcome] =>
                Moves(j, "settle") /\ job'[j].outcome = outcome
           /\ Refused(j) => Moves(j, "ack")
           /\ job' = [job EXCEPT ![j].pc = "cancel", ![j].then = "idle"] =>
                /\ job'[j].pc = "cancel" /\ job'[j].then = "idle"
                /\ job'[j].at = job[j].at /\ job'[j].turn = job[j].turn /\ job'[j].copy = job[j].copy
           /\ Throws(j) => Dropped(j)
  <1> DEFINE me == job[j]
  <1>1. me \in JobState /\ job \in [Jobs -> JobState] /\ j \in Jobs
    BY DEF TypeOK
  <1>2. {"pc", "at", "turn", "then", "copy", "runtime", "target", "outcome", "failed"} = DOMAIN me
    BY <1>1 DEF JobState
  <1> QED
    BY <1>1, <1>2 DEF Goes, Moves, Stays, Refused, Throws, Dropped

LEMMA JobNotes ==
    ASSUME TypeOK, NEW j \in Jobs, NEW turns
    PROVE  \/ job' = [job EXCEPT ![j].pc = "ack", ![j].failed = TRUE, ![j].copy.turns = turns]
           \/ job' = [job EXCEPT ![j].pc = "ack", ![j].copy.turns = turns]
           => /\ job'[j].pc = "ack"
              /\ job'[j].at = job[j].at /\ job'[j].turn = job[j].turn /\ job'[j].then = job[j].then
              /\ job'[j].copy.turns = turns /\ job'[j].copy.receipts = job[j].copy.receipts
  <1>1. job[j] \in JobState /\ job \in [Jobs -> JobState] /\ job[j].copy \in CopyState
    BY DEF TypeOK, JobState, CopyState
  <1>2. /\ {"pc", "at", "turn", "then", "copy", "runtime", "target", "outcome", "failed"}
             = DOMAIN job[j]
        /\ {"turns", "receipts"} = DOMAIN job[j].copy
    BY <1>1 DEF JobState, CopyState
  <1> QED
    BY <1>1, <1>2

LEMMA JobSteps ==
    ASSUME AcceptInv, NEW j \in Jobs, Dispatch(j) \/ DispatchFails(j)
    PROVE  \/ Dropped(j)
           \/ Reads(j) \/ Resumes(j) \/ Continued(j) \/ Noted(j) \/ Revokes(j)
           \/ \E copy : Done1(j, copy) /\ (Dropped(j) \/ Takes(j, copy, job[j].at))
  <1>a. /\ TypeOK /\ job[j] \in JobState /\ session \in SessionState
        /\ job[j].copy \in CopyState /\ job[j].turn \in Runs /\ job[j].at \in Nat /\ 0 \in Nat
        /\ Known(job[j].copy) /\ Len(job[j].copy.turns) <= Len(session.turns)
    BY DEF AcceptInv, TypeOK, JobState, CopyState, Sees
  <1>b. Copy(session) \in CopyState /\ Known(Copy(session))
    BY <1>a DEF AcceptInv, Copy, CopyState, SessionState, Known
  <1>c. Throws(j) => Dropped(j)
    BY <1>a, JobFields
  <1>d. ASSUME session' = session, StartDone(j), job[j].pc \in Launching, <<job[j].pc, "ack">> \in Onward
        PROVE  Dropped(j) \/ Resumes(j) \/ Continued(j)
    <2>1. CASE job[j].turn = Bootstrap
      <3>1. Advance(j, job[j].copy, 0)
        BY <1>d, <2>1 DEF StartDone
      <3> QED
        BY <1>a, <1>d, <2>1, <3>1, TakesNext DEF Resumes, Dropped
    <2>2. CASE job[j].turn # Bootstrap
      <3>1. Moves(j, "ack")
        BY <1>a, <1>d, <2>2, JobFields DEF StartDone
      <3>2. job[j].pc \notin {"cancel", "interrupt"}
        BY <1>d DEF Launching, Holding
      <3> QED
        BY <1>d, <2>2, <3>1, <3>2 DEF Continued, Moves
    <2> QED
      BY <2>1, <2>2
  <1>e. ASSUME session' = session, NEW pc, <<job[j].pc, pc>> \in Onward, Moves(j, pc),
               pc # "ack" \/ job[j].pc \notin Launching,
               job[j].pc \in {"cancel", "interrupt"} => pc \in {"interrupt", job[j].then}
        PROVE  Continued(j)
    BY <1>e DEF Continued, Moves
  <1>f. ASSUME session' = session, CancelDone(j), job[j].pc \in {"cancel", "interrupt"}
        PROVE  Dropped(j) \/ Continued(j)
    <2>1. CASE job[j].then = "idle"
      BY <1>c, <1>f, <2>1 DEF CancelDone
    <2>2. CASE job[j].then # "idle"
      <3>1. job[j].then \in {"ack", "observe"}
        BY <1>a, <2>2 DEF JobState
      <3>2. Moves(j, job[j].then) /\ <<job[j].pc, job[j].then>> \in Onward
        BY <1>a, <1>f, <2>2, <3>1, JobFields DEF CancelDone, Onward
      <3>3. job[j].pc \notin Launching
        BY <1>f DEF Launching, Holding
      <3> QED
        BY <1>e, <1>f, <3>2, <3>3
    <2> QED
      BY <2>1, <2>2
  <1>1. CASE DispatchRead(j)
    <2>1. CASE Hosted
      <3>1. job' = [job EXCEPT ![j] = [NoJob EXCEPT !.pc = "initialize", !.copy = Copy(session)]]
        BY <1>1, <2>1 DEF DispatchRead
      <3>2. job'[j] = [NoJob EXCEPT !.pc = "initialize", !.copy = Copy(session)]
        BY <1>a, <3>1 DEF TypeOK
      <3>3. /\ job'[j].pc = "initialize" /\ job'[j].copy = Copy(session)
            /\ job'[j].at = 0 /\ job'[j].turn = Bootstrap /\ job'[j].then = "ack"
        BY <3>2 DEF NoJob
      <3> QED
        BY <1>1, <2>1, <3>3 DEF DispatchRead, Reads
    <2>2. CASE ~Hosted
      <3>1. Advance(j, Copy(session), 0)
        BY <1>1, <2>2 DEF DispatchRead
      <3>2. Dropped(j) \/ Takes(j, Copy(session), 0)
        BY <1>a, <1>b, <3>1, TakesNext DEF Dropped
      <3> QED
        BY <1>1, <2>2, <3>2 DEF DispatchRead, Reads
    <2> QED
      BY <2>1, <2>2
  <1>2. CASE Initialize(j)
    <2>1. session' = session /\ job[j].pc = "initialize"
      BY <1>2 DEF Initialize
    <2>2. Advance(j, job[j].copy, 0) => Dropped(j) \/ Resumes(j)
      BY <1>a, <2>1, TakesNext DEF Resumes, Dropped
    <2>3. Goes(j, "start") => Continued(j)
      <3>1. <<job[j].pc, "start">> \in Onward
        BY <2>1 DEF Onward
      <3>2. Goes(j, "start") => Moves(j, "start")
        BY <1>a, JobFields
      <3> QED
        BY <1>e, <2>1, <3>1, <3>2
    <2> QED
      BY <1>2, <2>2, <2>3 DEF Initialize
  <1>3. CASE StartRead(j)
    <2>1. session' = session /\ job[j].pc = "start" /\ job[j].pc \in Launching
      BY <1>3 DEF StartRead, Launching
    <2>2. <<"start", "ack">> \in Onward /\ <<"start", "run">> \in Onward
      BY DEF Onward
    <2> QED
      BY <1>3, <1>a, <1>d, <1>e, <2>1, <2>2, JobFields DEF StartRead
  <1>4. CASE StartRun(j)
    <2>1. session' = session /\ job[j].pc = "run" /\ job[j].pc \in Launching
      BY <1>4 DEF StartRun, Launching, Holding
    <2>2. /\ <<"run", "ack">> \in Onward /\ <<"run", "deliver">> \in Onward
          /\ <<"run", "launch">> \in Onward
      BY DEF Onward
    <2>3. StartDone(j) => Dropped(j) \/ Resumes(j) \/ Continued(j)
      BY <1>d, <2>1, <2>2
    <2>4. ASSUME NEW r, job' = [job EXCEPT ![j].pc = "deliver", ![j].target = r]
          PROVE  Continued(j)
      <3>1. Moves(j, "deliver")
        BY <1>a, <2>4, JobFields
      <3> QED
        BY <1>e, <2>1, <2>2, <3>1
    <2>5. Goes(j, "launch") => Continued(j)
      <3>1. Goes(j, "launch") => Moves(j, "launch")
        BY <1>a, JobFields
      <3> QED
        BY <1>e, <2>1, <2>2, <3>1
    <2> QED
      BY <1>4, <1>c, <2>3, <2>4, <2>5 DEF StartRun
  <1>5. CASE Deliver(j) \/ Submit(j) \/ DispatchFails(j)
    <2>1. session' = session
      BY <1>5 DEF Deliver, RefuseStart, Submit, DispatchFails
    <2>2. Deliver(j) \/ Submit(j) =>
            job[j].pc \in {"deliver", "submit"} /\ \A pc \in {"ack", "fail"} : <<job[j].pc, pc>> \in Onward
      BY DEF Deliver, Submit, Onward
    <2>3. job[j].pc \in {"deliver", "submit"} => job[j].pc \in Launching
      BY DEF Launching
    <2>4. ASSUME Deliver(j) \/ Submit(j), Goes(j, "fail") PROVE Continued(j)
      <3>1. Moves(j, "fail")
        BY <1>a, <2>4, JobFields
      <3>2. <<job[j].pc, "fail">> \in Onward /\ job[j].pc \notin {"cancel", "interrupt"}
        BY <2>2, <2>4
      <3> QED
        BY <2>1, <3>1, <3>2 DEF Moves, Continued
    <2> QED
      BY <1>5, <1>c, <1>d, <2>1, <2>2, <2>3, <2>4 DEF Deliver, RefuseStart, Submit, DispatchFails
  <1>6. CASE CheckLaunch(j) \/ Claim(j)
    <2>1. session' = session
      BY <1>6 DEF CheckLaunch, RefuseStart, Claim
    <2>2. /\ CheckLaunch(j) => job[j].pc = "launch" /\
                (Throws(j) \/ \E pc \in {"submit", "claim", "fail"} : Goes(j, pc))
          /\ Claim(j) => job[j].pc = "claim" /\ (Throws(j) \/ Goes(j, "submit"))
      BY DEF CheckLaunch, RefuseStart, Claim, Answered
    <2>3. ASSUME NEW pc, Goes(j, pc), pc # "ack", <<job[j].pc, pc>> \in Onward,
                 job[j].pc \in {"launch", "claim"}
          PROVE  Continued(j)
      BY <1>a, <1>e, <2>1, <2>3, JobFields
    <2>4. /\ \A pc \in {"submit", "claim", "fail"} : <<"launch", pc>> \in Onward
          /\ <<"claim", "submit">> \in Onward
      BY DEF Onward
    <2> QED
      BY <1>6, <1>c, <2>2, <2>3, <2>4
  <1>7. CASE Steer(j) \/ SteerNative(j)
    <2>1. session' = session /\ job[j].pc \in {"steer", "steering"}
      BY <1>7 DEF Steer, SteerNative
    <2>2. \/ Throws(j)
          \/ Moves(j, "ack")
          \/ Moves(j, "steering") /\ job[j].pc = "steer"
      <3>1. \/ Throws(j) \/ Refused(j) \/ Goes(j, "ack")
            \/ /\ job[j].pc = "steer"
               /\ \E r : job' = [job EXCEPT ![j].pc = "steering", ![j].target = r]
        BY <1>7 DEF Steer, SteerNative, Answered
      <3> QED
        BY <1>a, <3>1, JobFields
    <2>3. /\ <<"steer", "ack">> \in Onward /\ <<"steering", "ack">> \in Onward
          /\ <<"steer", "steering">> \in Onward /\ job[j].pc \notin Launching
      BY <2>1 DEF Onward, Launching, Holding
    <2> QED
      BY <1>c, <1>e, <2>1, <2>2, <2>3
  <1>8. CASE Cancel(j) \/ Interrupt(j)
    <2>1. session' = session /\ job[j].pc \in {"cancel", "interrupt"} /\ job[j].pc \notin Launching
      BY <1>8 DEF Cancel, Interrupt, Launching, Holding
    <2>2. \/ Throws(j) \/ CancelDone(j)
          \/ Moves(j, "interrupt") /\ job[j].pc = "cancel"
      BY <1>8, <1>a, JobFields DEF Cancel, Interrupt
    <2>3. <<"cancel", "interrupt">> \in Onward
      BY DEF Onward
    <2> QED
      BY <1>c, <1>e, <1>f, <2>1, <2>2, <2>3
  <1>9. CASE ObserveCancelled(j)
    <2>1. session' = session /\ job[j].pc = "observe" /\ Moves(j, "settle")
      BY <1>9, <1>a, JobFields DEF ObserveCancelled
    <2>2. <<"observe", "settle">> \in Onward
      BY DEF Onward
    <2> QED
      BY <1>e, <2>1, <2>2
  <1>10. CASE FailTurn(j) \/ SettleCancelled(j)
    <2>1. job[j].pc \in {"fail", "settle"}
      BY <1>10 DEF FailTurn, SettleCancelled
    <2>2. CASE Throws(j)
      BY <1>c, <2>2
    <2>3. CASE ~Throws(j)
      <3>1. PICK turns : turns = session'.turns
        OBVIOUS
      <3>2. \/ job' = [job EXCEPT ![j].pc = "ack", ![j].failed = TRUE, ![j].copy.turns = turns]
            \/ job' = [job EXCEPT ![j].pc = "ack", ![j].copy.turns = turns]
        BY <1>10, <2>3, <3>1 DEF FailTurn, SettleCancelled
      <3>3. /\ job'[j].pc = "ack"
            /\ job'[j].at = job[j].at /\ job'[j].turn = job[j].turn /\ job'[j].then = job[j].then
            /\ job'[j].copy.turns = turns /\ job'[j].copy.receipts = job[j].copy.receipts
        BY <1>a, <3>2, JobNotes
      <3>4. session'.receipts = session.receipts
        BY <1>10, <1>a, <2>3 DEF FailTurn, SettleCancelled, SessionState
      <3> QED
        BY <2>1, <3>1, <3>3, <3>4 DEF Noted
    <2> QED
      BY <2>2, <2>3
  <1>11. CASE Acknowledge(j)
    <2>0. job[j].pc = "ack"
      BY <1>11 DEF Acknowledge
    <2>1. CASE session.phase # "open"
      <3>1. /\ session' = session
            /\ Throws(j) \/ job' = [job EXCEPT ![j].pc = "cancel", ![j].then = "idle"]
        BY <1>11, <1>a, <2>1 DEF Acknowledge, SessionState
      <3> QED
        BY <1>a, <1>c, <2>0, <3>1, JobFields DEF Revokes
    <2>2. CASE session.phase = "open"
      <3>1. PICK turns, copy :
              /\ turns = session'.turns /\ copy = [job[j].copy EXCEPT !.turns = turns]
              /\ Advance(j, copy, job[j].at)
              /\ session' = [session EXCEPT !.revision = @ + 1,
                                !.receipts[job[j].at].dispatched = TRUE,
                                !.receipts[job[j].at].failed = job[j].failed]
        BY <1>11, <2>2 DEF Acknowledge
      <3>2. turns = session.turns
        BY <1>a, <3>1 DEF SessionState
      <3>3. /\ copy \in CopyState /\ copy.turns = turns
            /\ copy.receipts = job[j].copy.receipts
        BY <1>a, <3>1, <3>2 DEF CopyState, SessionState
      <3>4. Known(copy)
        <4>1. session.turns \in Seq(Turn) /\ job[j].copy.turns \in Seq(Turn)
          BY <1>a DEF SessionState, CopyState
        <4>2. DOMAIN job[j].copy.turns \subseteq DOMAIN session.turns
          BY <1>a, <4>1, LenProperties
        <4> QED
          BY <1>a, <3>2, <3>3, <4>2 DEF Known
      <3>5. /\ DOMAIN session'.receipts = DOMAIN session.receipts
            /\ \A i \in DOMAIN session.receipts :
                 /\ i = job[j].at => session'.receipts[i].dispatched
                 /\ i # job[j].at => session'.receipts[i].dispatched = session.receipts[i].dispatched
        <4>1. \A i \in DOMAIN session.receipts : session.receipts[i] \in Receipt
          <5>1. session.receipts \in Seq(Receipt)
            BY <1>a DEF SessionState
          <5> QED
            BY <5>1, LenProperties, ElementOfSeq
        <4>2. PICK receipts : receipts = session.receipts /\ \A i \in DOMAIN receipts : receipts[i] \in Receipt
          BY <4>1
        <4>3. session'.receipts = [receipts EXCEPT ![job[j].at].dispatched = TRUE,
                                                   ![job[j].at].failed = job[j].failed]
          BY <1>a, <3>1, <4>2 DEF SessionState
        <4>4. ASSUME NEW i \in DOMAIN receipts
              PROVE  session'.receipts[i] =
                        IF i = job[j].at
                        THEN [receipts[i] EXCEPT !.dispatched = TRUE, !.failed = job[j].failed]
                        ELSE receipts[i]
          BY <4>3
        <4>5. DOMAIN session'.receipts = DOMAIN receipts
          BY <4>3
        <4>6. \A r \in Receipt : [r EXCEPT !.dispatched = TRUE, !.failed = job[j].failed].dispatched
          BY DEF Receipt
        <4>7. \A i \in DOMAIN receipts : i = job[j].at => session'.receipts[i].dispatched
          BY <4>2, <4>4, <4>6
        <4>8. \A i \in DOMAIN receipts : i # job[j].at => session'.receipts[i] = receipts[i]
          BY <4>4
        <4> QED
          BY <4>2, <4>5, <4>7, <4>8
      <3>6. Done1(j, copy)
        BY <2>0, <3>1, <3>2, <3>3, <3>5 DEF Done1
      <3> QED
        BY <1>a, <3>1, <3>3, <3>4, <3>6, TakesNext DEF Dropped
    <2> QED
      BY <2>1, <2>2
  <1> QED
    BY <1>1, <1>2, <1>3, <1>4, <1>5, <1>6, <1>7, <1>8, <1>9, <1>10, <1>11 DEF Dispatch

\* A write of one status.
Writes(t, status) == session' = [session EXCEPT !.revision = @ + 1, !.turns[t].status = status]

LEMMA StatusWritten ==
    ASSUME session \in SessionState, NEW t, NEW status,
           t \in DOMAIN session.turns => status \in TurnStatus,
           Writes(t, status)
    PROVE  /\ DOMAIN session'.turns = DOMAIN session.turns
           /\ \A u \in DOMAIN session.turns :
                session'.turns[u].status = IF u = t THEN status ELSE session.turns[u].status
  <1>1. session.turns \in Seq(Turn)
    BY DEF SessionState
  <1>2. PICK turns : turns = WithStatus(session.turns, t, status)
    OBVIOUS
  <1>3. /\ DOMAIN turns = DOMAIN session.turns
        /\ \A u \in DOMAIN session.turns :
              turns[u].status = IF u = t THEN status ELSE session.turns[u].status
    BY <1>1, <1>2, StatusChanged
  <1>4. session'.turns = turns
    BY <1>2 DEF Writes, WithStatus, SessionState
  <1> QED
    BY <1>3, <1>4

\* A start that is failed was refused.
FailsRefused(j) == job[j].pc = "fail" => job[j].turn \in refused \intersect Turns

LEMMA DispatchRefuses ==
    ASSUME AcceptInv, NEW j \in Jobs, FailsRefused(j), Dispatch(j) \/ DispatchFails(j)
    PROVE  FailsRefused(j)' /\ refused \subseteq refused'
  <1>a. TypeOK /\ job[j].turn \in Runs /\ job[j].copy \in CopyState /\ Known(job[j].copy) /\ 0 \in Nat
    BY DEF AcceptInv, TypeOK, JobState, CopyState, Sees
  <1>b. NoJob.pc # "fail"
    BY DEF NoJob
  <1>c. /\ Throws(j) => job'[j].pc # "fail"
        /\ \A pc : Goes(j, pc) => job'[j].pc = pc /\ job'[j].turn = job[j].turn
    BY <1>a, <1>b, JobFields DEF Dropped, Moves, Stays
  <1>1. refused \subseteq refused'
    BY DEF Dispatch, DispatchFails, DispatchRead, Initialize, StartRead, StartRun, Deliver,
       CheckLaunch, RefuseStart, Claim, Submit, FailTurn, Steer, SteerNative, Cancel, Interrupt,
       ObserveCancelled, SettleCancelled, Acknowledge, platform
  <1>2. CASE RefuseStart(j)
    <2>1. ASSUME job'[j].pc = "fail" PROVE job'[j].turn \in refused' \intersect Turns
      <3>1. /\ refused' = refused \union {job[j].turn} /\ Goes(j, "fail")
            /\ job[j].turn # Bootstrap
        BY <1>2, <1>c, <2>1 DEF RefuseStart
      <3> QED
        BY <1>a, <1>c, <3>1 DEF Runs
    <2> QED
      BY <1>1, <2>1 DEF FailsRefused
  <1>3. CASE ~RefuseStart(j)
    <2>1. job'[j].pc # "fail"
      <3>1. /\ Dropped(j) \/ Reads(j) \/ Resumes(j) \/ Noted(j) \/ Revokes(j) => job'[j].pc # "fail"
            /\ \A copy : Takes(j, copy, job[j].at) => job'[j].pc # "fail"
        BY DEF Dropped, NoJob, Reads, Resumes, Noted, Revokes, Takes
      <3>2. ASSUME Continued(j), job'[j].pc = "fail" PROVE FALSE
        <4>1. job[j].pc \in {"launch", "deliver", "submit"}
          BY <3>2 DEF Continued, Onward
        <4>2. Throws(j) \/ StartDone(j) \/ Goes(j, "claim") \/ Goes(j, "submit")
          BY <1>3, <4>1 DEF Dispatch, DispatchFails, DispatchRead, Initialize, StartRead, StartRun,
             Deliver, CheckLaunch, Claim, Submit, FailTurn, Steer, SteerNative, Cancel, Interrupt,
             ObserveCancelled, SettleCancelled, Acknowledge
        <4>3. Advance(j, job[j].copy, 0) => job'[j].pc # "fail"
          BY <1>a, <1>b, TakesNext DEF Takes
        <4> QED
          BY <3>2, <1>c, <4>2, <4>3 DEF StartDone
      <3> QED
        BY <3>1, <3>2, JobSteps
    <2> QED
      BY <1>1, <2>1 DEF FailsRefused
  <1> QED
    BY <1>1, <1>2, <1>3

LEMMA OthersRefuse ==
    ASSUME AcceptInv, [Next]_vars, \A j \in Jobs : FailsRefused(j)
    PROVE  \A j \in Jobs : FailsRefused(j)'
  <1>1. ASSUME NEW j \in Jobs, Dispatch(j) \/ DispatchFails(j)
        PROVE  \A i \in Jobs : FailsRefused(i)'
    <2>1. \A i \in Jobs \ {j} : job'[i] = job[i]
      BY <1>1, DispatchAccepts DEF OnlyJob
    <2>2. FailsRefused(j)' /\ refused \subseteq refused'
      BY <1>1, DispatchRefuses
    <2> QED
      BY <2>1, <2>2 DEF FailsRefused
  <1>2. ASSUME UNCHANGED <<job, refused>> PROVE \A j \in Jobs : FailsRefused(j)'
    BY <1>2 DEF FailsRefused
  <1>3. ASSUME NEW k \in Keys, EventsRead(k) \/ EventsCommit(k) PROVE UNCHANGED <<job, refused>>
    BY <1>3 DEF EventsRead, EventsCommit, platform
  <1>4. Deletes => UNCHANGED <<job, refused>>
    BY DEF Deletes, DeleteClose, DeleteStop, DeleteRemove, DeleteFails, platform
  <1>5. ASSUME NEW t \in Turns, CompleteTurn(t) PROVE UNCHANGED <<job, refused>>
    BY <1>5 DEF CompleteTurn, platform
  <1>6. ASSUME NEW r \in Runs, RunStep(r) PROVE UNCHANGED <<job, refused>>
    BY <1>6, HarnessTypes DEF Outside
  <1>7. UNCHANGED vars => UNCHANGED <<job, refused>>
    BY DEF vars
  <1> QED
    BY <1>1, <1>2, <1>3, <1>4, <1>5, <1>6, <1>7 DEF Next, Deletes, RunStep, Done

\* What each step writes of the outcomes.
LEMMA OverwriteStep ==
    ASSUME AcceptInv, [Next]_vars, \A j \in Jobs : FailsRefused(j)
    PROVE  OnlyRefusalsOverwrite
  <1>a. session \in SessionState /\ DOMAIN session.turns \subseteq Turns
    BY TurnsFit DEF AcceptInv, TypeOK
  <1>b. session'.turns = session.turns => OnlyRefusalsOverwrite
    BY DEF OnlyRefusalsOverwrite
  <1>1. ASSUME NEW k \in Keys, EventsCommit(k), session' # session PROVE OnlyRefusalsOverwrite
    <2>1. client[k].pc = "planned" /\ client[k].revision = session.revision /\ session' = Planned(k)
      BY <1>1 DEF EventsCommit
    <2>2. PICK turns, receipt :
            /\ Plans(k, turns, receipt)
            /\ session' = [phase |-> session.phase, revision |-> session.revision + 1,
                           turns |-> turns, receipts |-> Append(session.receipts, receipt)]
      BY <2>1, PlannedIsSound
    <2>3. \A t \in DOMAIN session.turns : session'.turns[t].status = client[k].turns[t]
      BY <2>2 DEF Plans
    <2> QED
      BY <2>1, <2>3 DEF AcceptInv, PlanIsCurrent, OnlyRefusalsOverwrite
  <1>2. ASSUME NEW j \in Jobs, FailTurn(j), session' # session PROVE OnlyRefusalsOverwrite
    <2>1. Writes(job[j].turn, "failed") /\ job[j].turn \in refused
      BY <1>2 DEF FailTurn, FailsRefused, Writes
    <2>2. \A u \in DOMAIN session.turns :
            session'.turns[u].status = IF u = job[j].turn THEN "failed" ELSE session.turns[u].status
      BY <1>a, <2>1, StatusWritten DEF TurnStatus, Finished
    <2> QED
      BY <2>1, <2>2 DEF OnlyRefusalsOverwrite
  <1>3. ASSUME NEW j \in Jobs, SettleCancelled(j), session' # session PROVE OnlyRefusalsOverwrite
    <2>1. PICK status :
            /\ status = IF session.turns[job[j].turn].status \in Finished
                        THEN session.turns[job[j].turn].status ELSE Cancelled(job[j].outcome)
            /\ Writes(job[j].turn, status)
      BY <1>3 DEF SettleCancelled, Writes
    <2>2. status \in TurnStatus
      BY <2>1 DEF AcceptInv, TypeOK, Cancelled, TurnStatus, JobState, Finished
    <2>3. \A u \in DOMAIN session.turns :
            session'.turns[u].status = IF u = job[j].turn THEN status ELSE session.turns[u].status
      BY <1>a, <2>1, <2>2, StatusWritten
    <2> QED
      BY <2>1, <2>3 DEF OnlyRefusalsOverwrite
  <1>4. ASSUME NEW j \in Jobs, Dispatch(j) \/ DispatchFails(j) PROVE OnlyRefusalsOverwrite
    <2>1. CASE FailTurn(j) \/ SettleCancelled(j)
      BY <1>b, <1>2, <1>3, <2>1
    <2>2. CASE Acknowledge(j)
      <3>1. session'.turns = session.turns
        BY <1>a, <2>2 DEF Acknowledge, SessionState
      <3> QED
        BY <1>b, <3>1
    <2>3. CASE ~(FailTurn(j) \/ SettleCancelled(j) \/ Acknowledge(j))
      <3>1. session' = session
        BY <1>4, <2>3 DEF Dispatch, DispatchFails, DispatchRead, Initialize, StartRead, StartRun,
           Deliver, CheckLaunch, RefuseStart, Claim, Submit, Steer, SteerNative, Cancel, Interrupt,
           ObserveCancelled
      <3> QED
        BY <1>b, <3>1
    <2> QED
      BY <2>1, <2>2, <2>3
  <1>5. ASSUME NEW t \in Turns, CompleteTurn(t) PROVE OnlyRefusalsOverwrite
    <2>1. PICK status :
            /\ status = ObservedTurns[t] /\ t \in DOMAIN session.turns
            /\ session.turns[t].status \notin Finished
            /\ Writes(t, status)
      BY <1>5 DEF CompleteTurn, Writes
    <2>2. status \in TurnStatus
      BY <1>5, <2>1 DEF CompleteTurn, TurnStatus
    <2>3. \A u \in DOMAIN session.turns :
            session'.turns[u].status = IF u = t THEN status ELSE session.turns[u].status
      BY <1>a, <2>1, <2>2, StatusWritten
    <2> QED
      BY <2>1, <2>3 DEF OnlyRefusalsOverwrite
  <1>6. CASE Deletes
    <2>1. session'.turns = session.turns
      BY <1>a, <1>6 DEF Deletes, DeleteClose, DeleteStop, DeleteRemove, DeleteFails, SessionState
    <2> QED
      BY <1>b, <2>1
  <1>7. ASSUME NEW r \in Runs, RunStep(r) PROVE OnlyRefusalsOverwrite
    BY <1>b, <1>7, HarnessTypes DEF Outside
  <1>8. ASSUME NEW k \in Keys, EventsRead(k) PROVE OnlyRefusalsOverwrite
    BY <1>b, <1>8 DEF EventsRead
  <1>9. CASE UNCHANGED vars
    BY <1>b, <1>9 DEF vars
  <1> QED
    BY <1>b, <1>1, <1>4, <1>5, <1>6, <1>7, <1>8, <1>9 DEF Next, Deletes, RunStep, Done

\* session-service.ts dispatch, events and completeTurn: however many jobs, clients and completions
\* rewrite the list of Turns from what they read earlier, an outcome stays, but for a Turn whose start
\* was refused, which fails.
THEOREM OutcomesAreKept ==
    ASSUME Assumptions
    PROVE  Spec => [][OnlyRefusalsOverwrite]_vars
  <1> DEFINE Inv == AcceptInv /\ \A j \in Jobs : FailsRefused(j)
  <1>1. Init => Inv
    <2>1. Init => \A j \in Jobs : FailsRefused(j)
      BY DEF Init, FailsRefused, NoJob
    <2> QED
      BY <2>1, AcceptInit
  <1>2. Inv /\ [Next]_vars => Inv'
    BY AcceptNext, OthersRefuse
  <1>3. Inv /\ [Next]_vars => [OnlyRefusalsOverwrite]_vars
    BY OverwriteStep
  <1> QED
    BY <1>1, <1>2, <1>3, PTL DEF Spec

-----------------------------------------------------------------------------
(* A Turn that was saved is not started *)

\* A harness knows a Turn because it started it, or from the snapshot; and it knows the snapshot.
NativeIsKnown ==
    \A r, t \in Runs : worker[r] \in Admitted /\ native[r][t] # "none" =>
        r \in started[t] \/ runtime.saved[t] # "none"
SavedIsNative ==
    \A r, t \in Runs : worker[r] \in Admitted /\ runtime.saved[t] # "none" => native[r][t] # "none"

\* A Run that has not started its own Turn finds it new.
NamedIsNew ==
    \A t \in Turns : runtime.run = t /\ t \notin started[t] => runtime.saved[t] = "none"

\* start read that its Turn is new; if it has been saved since, the harness that is named started it.
ReadIsNew(j) ==
    /\ job[j].pc \in Holding => job[j].runtime.saved[job[j].turn] = "none"
    /\ job[j].pc \in {"run", "deliver"} /\ runtime.saved[job[j].turn] # "none" =>
            runtime.run \in started[job[j].turn]

SnapshotInv ==
    /\ NativeIsKnown /\ SavedIsNative /\ NamedIsNew
    /\ \A j \in Jobs : ReadIsNew(j)

\* What steps other than claims do to the snapshot, the harnesses and what was started.
NativeGrows(r) ==
    /\ worker[r] \in Admitted
    /\ \A t \in Runs : \/ native'[r][t] = "none" <=> native[r][t] = "none"
                       \/ r \in started'[t] /\ native'[r][t] # "none"
NativeCopies(r) ==
    /\ runtime' = runtime
    /\ \A t \in Runs : native'[r][t] = "none" <=> runtime.saved[t] = "none"
SnapshotTakes(r) ==
    /\ worker[r] \in Admitted /\ Authority(r)
    /\ \A t \in Runs : /\ runtime'.saved[t] = "none" <=> native[r][t] = "none"
                       /\ native'[r][t] = "none" <=> native[r][t] = "none"
SnapshotMoves ==
    /\ runtime'.run = runtime.run
    /\ \A t \in Runs : started[t] \subseteq started'[t]
    /\ \A r \in Runs : worker'[r] \in Admitted => NativeGrows(r) \/ NativeCopies(r)
    /\ \/ \A t \in Runs : runtime'.saved[t] = "none" <=> runtime.saved[t] = "none"
       \/ \E r \in Runs : SnapshotTakes(r)

LEMMA SnapshotKept ==
    ASSUME AcceptInv, HarnessInv, SnapshotInv, SnapshotMoves
    PROVE  /\ NativeIsKnown' /\ SavedIsNative' /\ NamedIsNew'
           /\ \A j \in Jobs : job'[j] = job[j] => ReadIsNew(j)'
  <1>a. /\ runtime'.run = runtime.run /\ \A t \in Runs : started[t] \subseteq started'[t]
        /\ \A j \in Jobs : job[j].turn \in Runs
        /\ Turns \subseteq Runs
    BY DEF SnapshotMoves, AcceptInv, TypeOK, JobState, Runs
  <1>1. CASE \A t \in Runs : runtime'.saved[t] = "none" <=> runtime.saved[t] = "none"
    <2>1. ASSUME NEW r \in Runs, NEW t \in Runs, worker'[r] \in Admitted
          PROVE  /\ native'[r][t] # "none" => r \in started'[t] \/ runtime'.saved[t] # "none"
                 /\ runtime'.saved[t] # "none" => native'[r][t] # "none"
      <3>1. NativeGrows(r) \/ NativeCopies(r)
        BY <2>1 DEF SnapshotMoves
      <3>2. CASE NativeGrows(r)
        BY <1>1, <1>a, <3>2 DEF NativeGrows, SnapshotInv, NativeIsKnown, SavedIsNative
      <3>3. CASE NativeCopies(r)
        BY <1>1, <3>3 DEF NativeCopies
      <3> QED
        BY <3>1, <3>2, <3>3
    <2>2. NamedIsNew'
      BY <1>1, <1>a DEF SnapshotInv, NamedIsNew
    <2>3. \A j \in Jobs : job'[j] = job[j] => ReadIsNew(j)'
      BY <1>1, <1>a DEF SnapshotInv, ReadIsNew
    <2> QED
      BY <2>1, <2>2, <2>3 DEF NativeIsKnown, SavedIsNative
  <1>2. ASSUME NEW r \in Runs, SnapshotTakes(r)
        PROVE  /\ NativeIsKnown' /\ SavedIsNative' /\ NamedIsNew'
               /\ \A j \in Jobs : job'[j] = job[j] => ReadIsNew(j)'
    <2>1. runtime.run = r /\ \A s \in Runs : worker[s] \in Admitted => s = r
      BY <1>2 DEF SnapshotTakes, Authority, HarnessInv, NamedRuns
    <2>2. \A t \in Runs : runtime'.saved[t] # "none" => r \in started[t] \/ runtime.saved[t] # "none"
      BY <1>2 DEF SnapshotTakes, SnapshotInv, NativeIsKnown
    <2>3. ASSUME NEW s \in Runs, NEW t \in Runs, worker'[s] \in Admitted
          PROVE  /\ native'[s][t] # "none" => s \in started'[t] \/ runtime'.saved[t] # "none"
                 /\ runtime'.saved[t] # "none" => native'[s][t] # "none"
      <3>1. NativeGrows(s) \/ NativeCopies(s)
        BY <2>3 DEF SnapshotMoves
      <3>2. CASE NativeGrows(s)
        BY <1>2, <2>1, <3>2 DEF NativeGrows, SnapshotTakes
      <3>3. CASE NativeCopies(s)
        BY <3>3 DEF NativeCopies
      <3> QED
        BY <3>1, <3>2, <3>3
    <2>4. NamedIsNew'
      BY <1>a, <2>1, <2>2 DEF SnapshotInv, NamedIsNew
    <2>5. \A j \in Jobs : job'[j] = job[j] => ReadIsNew(j)'
      BY <1>a, <2>1, <2>2 DEF SnapshotInv, ReadIsNew
    <2> QED
      BY <2>3, <2>4, <2>5 DEF NativeIsKnown, SavedIsNative
  <1> QED
    BY <1>1, <1>2 DEF SnapshotMoves

\* A native start or end of one Turn.
LEMMA NativeStarts ==
    ASSUME TypeOK, NEW r \in Runs, NEW t \in Runs, UNCHANGED <<runtime, worker>>,
           \/ StartNative(r, t)
           \/ /\ UNCHANGED started /\ native[r][t] # "none"
              /\ \E status \in NativeStatus \ {"none"} : native' = [native EXCEPT ![r][t] = status]
    PROVE  SnapshotMoves
  <1>a. native \in [Runs -> [Runs -> NativeStatus]] /\ started \in [Runs -> SUBSET Runs]
    BY DEF TypeOK
  <1>1. \A u \in Runs : started[u] \subseteq started'[u]
    BY <1>a DEF StartNative
  <1>2. CASE UNCHANGED <<native, started>>
    BY <1>1, <1>2 DEF SnapshotMoves, NativeGrows
  <1>3. ASSUME NEW status \in NativeStatus \ {"none"}, native' = [native EXCEPT ![r][t] = status],
               native[r][t] # "none" \/ r \in started'[t]
        PROVE  SnapshotMoves
    <2>1. ASSUME NEW s \in Runs, NEW u \in Runs
          PROVE  native'[s][u] = IF s = r /\ u = t THEN status ELSE native[s][u]
      BY <1>a, <1>3
    <2>2. \A s \in Runs : worker'[s] \in Admitted => NativeGrows(s)
      BY <1>3, <2>1 DEF NativeGrows
    <2> QED
      BY <1>1, <2>2 DEF SnapshotMoves
  <1>4. CASE StartNative(r, t)
    <2>1. CASE r \in started[t]
      BY <1>2, <1>4, <2>1 DEF StartNative
    <2>2. CASE r \notin started[t]
      <3>1. /\ native' = [native EXCEPT ![r][t] = "in_progress"] /\ r \in started'[t]
            /\ "in_progress" \in NativeStatus \ {"none"}
        BY <1>4, <1>a, <2>2 DEF StartNative, NativeStatus
      <3> QED
        BY <1>3, <3>1
    <2> QED
      BY <2>1, <2>2
  <1> QED
    BY <1>3, <1>4

LEMMA HarnessSnapshot ==
    ASSUME AcceptInv, NEW r \in Runs, RunStep(r)
    PROVE  SnapshotMoves
  <1>a. /\ TypeOK /\ r \in Runs /\ worker \in [Runs -> {"off", "closed", "gone"} \union Live]
        /\ native \in [Runs -> [Runs -> NativeStatus]]
        /\ runtime \in RuntimeState /\ runtime.saved \in [Runs -> NativeStatus]
    BY DEF AcceptInv, TypeOK, RuntimeState
  <1>b. \A turns \in [Runs -> NativeStatus] :
            /\ Stopped(turns) \in [Runs -> NativeStatus]
            /\ \A t \in Runs : Stopped(turns)[t] = "none" <=> turns[t] = "none"
    BY DEF Stopped, NativeStatus, Finished
  <1>c. \A w : Becomes(r, w) => worker'[r] = w /\ \A s \in Runs \ {r} : worker'[s] = worker[s]
    BY <1>a DEF Becomes
  <1>d. ASSUME UNCHANGED <<runtime, native, started>>,
               \A s \in Runs : worker'[s] \in Admitted => worker[s] \in Admitted
        PROVE  SnapshotMoves
    BY <1>d DEF SnapshotMoves, NativeGrows
  \* A journal is published by a harness that has the authority.
  <1>e. ASSUME NEW turns \in [Runs -> NativeStatus], Saves(r, turns), Authority(r), worker[r] \in Admitted,
               UNCHANGED started,
               \A s \in Runs : worker'[s] \in Admitted => worker[s] \in Admitted,
               \A s \in Runs, t \in Runs : native'[s][t] = "none" <=> native[s][t] = "none",
               \A t \in Runs : turns[t] = "none" <=> native[r][t] = "none"
        PROVE  SnapshotMoves
    <2>1. runtime'.saved = turns /\ runtime'.run = runtime.run
      <3>1. CASE runtime.saved = turns
        BY <1>e, <3>1 DEF Saves
      <3>2. CASE runtime.saved # turns
        <4>1. runtime' = [runtime EXCEPT !.saved = turns, !.revision = @ + 1]
          BY <1>e, <3>2 DEF Saves
        <4> QED
          BY <1>a, <4>1 DEF RuntimeState
      <3> QED
        BY <3>1, <3>2
    <2>2. SnapshotTakes(r)
      BY <1>e, <2>1 DEF SnapshotTakes
    <2>3. \A s \in Runs : worker'[s] \in Admitted => NativeGrows(s)
      BY <1>e DEF NativeGrows
    <2> QED
      BY <1>a, <1>e, <2>1, <2>2, <2>3 DEF SnapshotMoves
  <1>1. CASE Launch(r)
    <2>1. /\ UNCHANGED <<runtime, native, started>> /\ worker'[r] = "launched"
          /\ \A s \in Runs \ {r} : worker'[s] = worker[s]
      BY <1>1, <1>c DEF Launch
    <2> QED
      BY <1>d, <2>1 DEF Admitted
  <1>2. CASE CheckAuthority(r)
    <2>1. CASE Authority(r)
      <3>1. /\ UNCHANGED <<runtime, started>> /\ \A s \in Runs \ {r} : worker'[s] = worker[s]
            /\ native' = [native EXCEPT ![r] = Stopped(runtime.saved)]
        BY <1>2, <1>c, <2>1 DEF CheckAuthority
      <3>2. /\ native'[r] = Stopped(runtime.saved)
            /\ \A s \in Runs \ {r} : native'[s] = native[s]
        BY <1>a, <3>1
      <3>3. NativeCopies(r)
        BY <1>a, <1>b, <3>1, <3>2 DEF NativeCopies
      <3>4. \A s \in Runs \ {r} : worker'[s] \in Admitted => NativeGrows(s)
        BY <3>1, <3>2 DEF NativeGrows
      <3> QED
        BY <3>1, <3>3, <3>4 DEF SnapshotMoves
    <2>2. CASE ~Authority(r)
      <3>1. /\ UNCHANGED <<runtime, native, started>> /\ worker'[r] = "gone"
            /\ \A s \in Runs \ {r} : worker'[s] = worker[s]
        BY <1>2, <1>c, <2>2 DEF CheckAuthority
      <3> QED
        BY <1>d, <3>1 DEF Admitted
    <2> QED
      BY <2>1, <2>2
  <1>3. CASE Ready(r)
    <2>1. /\ UNCHANGED <<runtime, native, started>> /\ worker[r] = "admitted"
          /\ \A s \in Runs \ {r} : worker'[s] = worker[s]
      BY <1>3, <1>c DEF Ready
    <2> QED
      BY <1>d, <2>1 DEF Admitted
  <1>4. CASE StartInitial(r)
    BY <1>4, <1>a, NativeStarts DEF StartInitial
  <1>5. CASE TurnEnds(r)
    <2>1. PICK t \in Runs, status \in {"completed", "failed"} :
            native[r][t] = "in_progress" /\ native' = [native EXCEPT ![r][t] = status]
      BY <1>5 DEF TurnEnds
    <2>2. UNCHANGED <<runtime, worker, started>> /\ native[r][t] # "none"
      BY <1>5, <2>1 DEF TurnEnds
    <2>3. status \in NativeStatus \ {"none"}
      BY <2>1 DEF NativeStatus, Finished
    <2> QED
      BY <1>a, <2>1, <2>2, <2>3, NativeStarts
  <1>6. CASE Flush(r)
    <2>1. UNCHANGED <<native, started>> /\ worker[r] \in Admitted
      BY <1>6 DEF Flush, Admitted
    <2>2. CASE Authority(r)
      BY <1>6, <1>a, <1>e, <2>1, <2>2 DEF Flush
    <2>3. CASE ~Authority(r)
      <3>1. UNCHANGED runtime /\ worker'[r] = "gone" /\ \A s \in Runs \ {r} : worker'[s] = worker[s]
        BY <1>6, <1>c, <2>3 DEF Flush
      <3> QED
        BY <1>d, <2>1, <3>1 DEF Admitted
    <2> QED
      BY <2>2, <2>3
  <1>7. CASE Close(r) \/ NativeExits(r)
    <2>1. Closes(r) /\ UNCHANGED started
      BY <1>7 DEF Close, NativeExits, Closes
    <2>2. \A s \in Runs : worker'[s] \in Admitted => worker[s] \in Admitted
      <3>1. worker'[r] \in {"closed", "gone"} /\ \A s \in Runs \ {r} : worker'[s] = worker[s]
        BY <1>c, <2>1 DEF Closes
      <3> QED
        BY <3>1 DEF Admitted
    <2>3. CASE worker[r] = "ready" /\ Authority(r)
      <3>1. PICK turns : turns = Stopped(native[r])
        OBVIOUS
      <3>2. /\ turns \in [Runs -> NativeStatus] /\ Saves(r, turns)
            /\ \A t \in Runs : turns[t] = "none" <=> native[r][t] = "none"
            /\ native' = [native EXCEPT ![r] = turns]
        BY <1>a, <1>b, <2>1, <2>3, <3>1 DEF Closes
      <3>3. \A s \in Runs, t \in Runs : native'[s][t] = "none" <=> native[s][t] = "none"
        BY <1>a, <3>2
      <3> QED
        BY <1>e, <2>1, <2>2, <2>3, <3>2, <3>3 DEF Admitted
    <2>4. CASE ~(worker[r] = "ready" /\ Authority(r))
      BY <1>d, <2>1, <2>2, <2>4 DEF Closes
    <2> QED
      BY <2>3, <2>4
  <1>8. CASE HostDies(r)
    <2>1. /\ UNCHANGED <<runtime, native, started>> /\ worker'[r] = "gone"
          /\ \A s \in Runs \ {r} : worker'[s] = worker[s]
      BY <1>8, <1>c DEF HostDies
    <2> QED
      BY <1>d, <2>1 DEF Admitted
  <1>9. CASE Finish(r) \/ RunLost(r) \/ LaunchFails(r)
    BY <1>9, <1>d DEF Finish, RunLost, LaunchFails
  <1> QED
    BY <1>1, <1>2, <1>3, <1>4, <1>5, <1>6, <1>7, <1>8, <1>9 DEF RunStep, Harness

\* Other steps than those of a job and of a harness.
LEMMA QuietSnapshot ==
    ASSUME AcceptInv,
           \/ Deletes \/ UNCHANGED vars
           \/ \E k \in Keys : EventsRead(k) \/ EventsCommit(k)
           \/ \E t \in Turns : CompleteTurn(t)
    PROVE  SnapshotMoves /\ UNCHANGED <<job, started>>
  <1>1. UNCHANGED <<job, worker, native, started>>
    BY DEF Deletes, DeleteClose, DeleteStop, DeleteRemove, DeleteFails, EventsRead, EventsCommit,
       CompleteTurn, platform, vars
  <1>2. runtime'.run = runtime.run /\ runtime'.saved = runtime.saved
    <2>1. CASE DeleteClose
      <3>1. runtime \in RuntimeState
        BY DEF AcceptInv, TypeOK
      <3> QED
        BY <2>1, <3>1 DEF DeleteClose, RuntimeState
    <2>2. CASE ~DeleteClose
      BY <2>2 DEF Deletes, DeleteStop, DeleteRemove, DeleteFails, EventsRead, EventsCommit,
         CompleteTurn, vars
    <2> QED
      BY <2>1, <2>2
  <1> QED
    BY <1>1, <1>2 DEF SnapshotMoves, NativeGrows

\* A start is delivered by a job that has just read the Runs.
LEMMA DeliverFollows ==
    ASSUME AcceptInv, NEW j \in Jobs, Dispatch(j) \/ DispatchFails(j), job'[j].pc = "deliver"
    PROVE  /\ job[j].pc = "run" /\ StartRun(j) /\ Continued(j)
           /\ UNCHANGED <<runtime, run, started>> /\ job'[j].turn = job[j].turn
  <1>a. TypeOK
    BY DEF AcceptInv
  <1>1. Continued(j)
    <2>1. ~Dropped(j) /\ ~Reads(j) /\ ~Resumes(j) /\ ~Noted(j) /\ ~Revokes(j)
      BY DEF Dropped, NoJob, Reads, Resumes, Noted, Revokes, Takes
    <2>2. \A copy : ~Takes(j, copy, job[j].at)
      BY DEF Takes
    <2> QED
      BY <2>1, <2>2, JobSteps
  <1>2. job[j].pc = "run" /\ job'[j].turn = job[j].turn
    BY <1>1 DEF Continued, Onward, Stays
  <1>3. StartRun(j)
    <2>1. ~DispatchFails(j)
      <3>1. NoJob.pc # "deliver"
        BY DEF NoJob
      <3>2. Throws(j) => job'[j] = NoJob
        BY <1>a, JobFields DEF Dropped
      <3> QED
        BY <3>1, <3>2 DEF DispatchFails
    <2> QED
      BY <1>2, <2>1 DEF Dispatch, DispatchRead, Initialize, StartRead, Deliver, CheckLaunch, RefuseStart, Claim,
         Submit, FailTurn, Steer, SteerNative, Cancel, Interrupt, ObserveCancelled, SettleCancelled,
         Acknowledge
  <1> QED
    BY <1>1, <1>2, <1>3 DEF StartRun, platform

\* What a job's step does to its own reading of the snapshot.
LEMMA DispatchReads ==
    ASSUME AcceptInv, NEW j \in Jobs, ReadIsNew(j), Dispatch(j) \/ DispatchFails(j)
    PROVE  ReadIsNew(j)'
  <1>a. TypeOK /\ job[j].copy \in CopyState /\ Known(job[j].copy) /\ 0 \in Nat
    BY DEF AcceptInv, TypeOK, JobState, CopyState, Sees
  <1>1. ASSUME job'[j].pc \in Holding
        PROVE  /\ job'[j].runtime.saved[job'[j].turn] = "none" /\ UNCHANGED runtime
               /\ job'[j].pc = "run" => runtime.saved[job'[j].turn] = "none"
    <2>1. CASE StartRead(j) /\ Fetches(j)
      <3>1. ~StartDone(j)
        <4>1. Goes(j, "ack") => job'[j].pc = "ack"
          BY <1>a, JobFields DEF Moves
        <4>2. Advance(j, job[j].copy, 0) => job'[j].pc # "run"
          BY <1>a, TakesNext DEF Takes, NoJob
        <4> QED
          BY <2>1, <4>1, <4>2 DEF StartDone, Fetches
      <3> QED
        BY <2>1, <3>1 DEF StartRead, Fetches
    <2>2. CASE UNCHANGED <<runtime, run>> /\ Holds(j)
      BY <2>2 DEF Holds, ReadIsNew, Holding
    <2> QED
      BY <1>1, <2>1, <2>2, DispatchHolds DEF LetsGo
  <1>2. CASE job'[j].pc = "deliver"
    <2>1. job[j].pc = "run" /\ UNCHANGED <<runtime, started>> /\ job'[j].turn = job[j].turn
      BY <1>2, DeliverFollows
    <2> QED
      BY <1>2, <2>1 DEF ReadIsNew, Holding
  <1>3. CASE job'[j].pc \in Holding
    <2> QED
      BY <1>1, <1>3 DEF ReadIsNew, Holding
  <1>4. CASE job'[j].pc \notin Holding \union {"deliver"}
    BY <1>4 DEF ReadIsNew, Holding
  <1> QED
    BY <1>2, <1>3, <1>4

LEMMA SnapshotDispatch ==
    ASSUME Assumptions, OneAtATime, AcceptInv, HarnessInv, SnapshotInv,
           NEW j \in Jobs, Dispatch(j) \/ DispatchFails(j)
    PROVE  SnapshotInv'
  <1>a. /\ TypeOK /\ job[j].turn \in Runs /\ job[j].target \in Runs
        /\ native \in [Runs -> [Runs -> NativeStatus]]
        /\ \A i \in Jobs : job[i].turn \in Runs
        /\ \A i \in Jobs \ {j} : job'[i] = job[i]
    BY DispatchAccepts DEF AcceptInv, TypeOK, JobState, OnlyJob
  <1>1. ReadIsNew(j)'
    BY DispatchReads DEF SnapshotInv
  <1>2. CASE Claim(j) /\ ClaimOk(j)
    <2>1. runtime = job[j].runtime /\ job[j].pc = "claim" /\ UNCHANGED <<worker, native, started>>
      BY <1>2, ClaimIsFree DEF Claim, platform
    <2>2. runtime'.saved = runtime.saved /\ runtime'.run = job[j].turn
      <3>1. \/ runtime' = runtime
            \/ runtime' = [revision |-> runtime.revision + 1, run |-> job[j].turn,
                           closed |-> FALSE, saved |-> runtime.saved]
        BY <2>1, DispatchPlatform
      <3>2. runtime' = [runtime EXCEPT !.revision = @ + 1, !.run = job[j].turn, !.closed = FALSE]
        BY <1>2, <2>1 DEF Claim
      <3> QED
        BY <1>a, <3>2 DEF TypeOK, RuntimeState
    <2>3. runtime.saved[job[j].turn] = "none"
      BY <2>1 DEF SnapshotInv, ReadIsNew, Holding
    <2>4. NativeIsKnown' /\ SavedIsNative' /\ NamedIsNew'
      BY <2>1, <2>2, <2>3 DEF SnapshotInv, NativeIsKnown, SavedIsNative, NamedIsNew
    <2>5. ASSUME NEW i \in Jobs \ {j} PROVE ReadIsNew(i)'
      <3>1. job'[i] = job[i] /\ ReadIsNew(i)
        BY <1>a DEF SnapshotInv
      <3>2. job[i].pc \in {"run", "deliver"} => job[i].turn = job[j].turn
        <4>1. ~Hosted /\ Cardinality(Messages) <= 1
          BY DEF OneAtATime, OneJob
        <4>2. job[j].turn \in Turns /\ (job[i].pc \in {"run", "deliver"} => job[i].turn \in Turns)
          BY <2>1, <4>1 DEF HarnessInv, OnlyTurns, Launching, Holding
        <4> QED
          BY <4>1, <4>2, FS_CardinalityType DEF Turns, Assumptions
      <3> QED
        BY <2>2, <2>3, <3>1, <3>2 DEF ReadIsNew, Holding
    <2> QED
      BY <1>1, <2>4, <2>5 DEF SnapshotInv
  <1>3. CASE ~(Claim(j) /\ ClaimOk(j))
    <2>1. runtime' = runtime /\ worker' = worker
      BY <1>3, DispatchPlatform
    <2>2. SnapshotMoves
      <3>1. CASE Deliver(j) /\ ~UNCHANGED <<native, started>>
        <4>1. StartNative(job[j].target, job[j].turn)
          BY <3>1 DEF Deliver, RefuseStart
        <4> QED
          BY <1>a, <2>1, <4>1, NativeStarts
      <3>2. CASE Interrupt(j) /\ native' # native
        <4>0. PICK r \in Runs, t \in Runs : r = job[j].target /\ t = job[j].turn
          BY <1>a
        <4>1. PICK status : status = IF native[r][t] = "in_progress" THEN "cancelled" ELSE native[r][t]
          OBVIOUS
        <4>2. native[r][t] # "none" /\ native' = [native EXCEPT ![r][t] = status]
          BY <1>a, <3>2, <4>0, <4>1 DEF Interrupt
        <4>3. status \in NativeStatus \ {"none"}
          BY <1>a, <4>1, <4>2 DEF NativeStatus, Finished
        <4>4. UNCHANGED started
          BY <3>2 DEF Interrupt
        <4> QED
          BY <1>a, <2>1, <4>2, <4>3, <4>4, NativeStarts
      <3>3. CASE UNCHANGED <<native, started>>
        BY <2>1, <3>3 DEF SnapshotMoves, NativeGrows
      <3>4. Deliver(j) \/ Interrupt(j) \/ UNCHANGED <<native, started>>
        BY DEF Dispatch, DispatchFails, DispatchRead, Initialize, StartRead, StartRun,
           CheckLaunch, RefuseStart, Claim, Submit, FailTurn, Steer, SteerNative, Cancel,
           ObserveCancelled, SettleCancelled, Acknowledge, platform
      <3>5. Interrupt(j) => UNCHANGED started
        BY DEF Interrupt
      <3> QED
        BY <3>1, <3>2, <3>3, <3>4, <3>5
    <2> QED
      BY <1>1, <1>a, <2>2, SnapshotKept DEF SnapshotInv
  <1> QED
    BY <1>2, <1>3

LEMMA SnapshotNext ==
    ASSUME Assumptions, OneAtATime, AcceptInv, HarnessInv, SnapshotInv, [Next]_vars
    PROVE  SnapshotInv'
  <1>1. ASSUME SnapshotMoves, UNCHANGED job PROVE SnapshotInv'
    BY <1>1, SnapshotKept DEF SnapshotInv
  <1>2. ASSUME NEW j \in Jobs, Dispatch(j) \/ DispatchFails(j) PROVE SnapshotInv'
    BY <1>2, SnapshotDispatch
  <1>3. ASSUME NEW r \in Runs, RunStep(r) PROVE SnapshotInv'
    BY <1>1, <1>3, HarnessSnapshot, HarnessTypes DEF Outside
  <1>4. CASE \/ Deletes \/ UNCHANGED vars
             \/ \E k \in Keys : EventsRead(k) \/ EventsCommit(k)
             \/ \E t \in Turns : CompleteTurn(t)
    BY <1>1, <1>4, QuietSnapshot
  <1> QED
    BY <1>2, <1>3, <1>4 DEF Next, Deletes, RunStep, Done

\* A start that is delivered is for a Turn that start found new, and nobody else started it since.
LEMMA NewStarts ==
    ASSUME AcceptInv, HarnessInv, SnapshotInv, [Next]_vars
    PROVE  StartsAreNotSaved
  <1>a. started \in [Runs -> SUBSET Runs] /\ \A j \in Jobs : job[j].turn \in Runs /\ job[j].target \in Runs
    BY DEF AcceptInv, TypeOK, JobState
  <1>b. \A r \in Runs : worker[r] = "ready" => runtime.run = r
    BY DEF HarnessInv, NamedRuns, Admitted
  <1>c. ASSUME UNCHANGED started PROVE StartsAreNotSaved
    BY <1>c DEF StartsAreNotSaved
  <1>d. ASSUME NEW r \in Runs, NEW t \in Runs, StartNative(r, t),
               r \notin started[t] => runtime.saved[t] = "none"
        PROVE  StartsAreNotSaved
    <2>1. CASE r \in started[t]
      BY <1>c, <1>d, <2>1 DEF StartNative
    <2>2. CASE r \notin started[t]
      <3>1. \A u \in Runs : u # t => started'[u] = started[u]
        BY <1>a, <1>d, <2>2 DEF StartNative
      <3> QED
        BY <1>d, <2>2, <3>1 DEF StartsAreNotSaved
    <2> QED
      BY <2>1, <2>2
  <1>1. ASSUME NEW j \in Jobs, Dispatch(j) \/ DispatchFails(j) PROVE StartsAreNotSaved
    <2>1. CASE Deliver(j) /\ started' # started
      <3>1. /\ StartNative(job[j].target, job[j].turn) /\ worker[job[j].target] = "ready"
            /\ job[j].pc = "deliver"
        BY <2>1 DEF Deliver, RefuseStart
      <3>2. job[j].target \notin started[job[j].turn] => runtime.saved[job[j].turn] = "none"
        BY <1>a, <1>b, <3>1 DEF SnapshotInv, ReadIsNew
      <3> QED
        BY <1>a, <1>d, <3>1, <3>2
    <2>2. CASE started' = started
      BY <1>c, <2>2
    <2>3. CASE ~Deliver(j)
      <3>1. started' = started
        BY <1>1, <2>3 DEF Dispatch, DispatchFails, DispatchRead, Initialize, StartRead, StartRun,
           CheckLaunch, RefuseStart, Claim, Submit, FailTurn, Steer, SteerNative, Cancel, Interrupt,
           ObserveCancelled, SettleCancelled, Acknowledge, platform
      <3> QED
        BY <1>c, <3>1
    <2> QED
      BY <2>1, <2>2, <2>3
  <1>2. ASSUME NEW r \in Runs, RunStep(r) PROVE StartsAreNotSaved
    <2>1. CASE StartInitial(r)
      BY <1>b, <1>d, <2>1 DEF StartInitial, SnapshotInv, NamedIsNew
    <2>2. CASE ~StartInitial(r)
      <3>1. started' = started
        BY <1>2, <2>2 DEF RunStep, Harness, Launch, CheckAuthority, Ready, TurnEnds, Flush, Close,
           NativeExits, Closes, Finish, RunLost, HostDies, LaunchFails
      <3> QED
        BY <1>c, <3>1
    <2> QED
      BY <2>1, <2>2
  <1>3. CASE \/ Deletes \/ UNCHANGED vars
             \/ \E k \in Keys : EventsRead(k) \/ EventsCommit(k)
             \/ \E t \in Turns : CompleteTurn(t)
    BY <1>3, <1>c, QuietSnapshot
  <1> QED
    BY <1>1, <1>2, <1>3 DEF Next, Deletes, RunStep, Done

LEMMA SnapshotInit == Init => SnapshotInv
  <1> SUFFICES ASSUME Init PROVE SnapshotInv
    OBVIOUS
  <1>1. /\ \A r \in Runs : worker[r] = "off"
        /\ \A j \in Jobs : job[j].pc = "idle"
        /\ \A t \in Runs : runtime.saved[t] = "none"
        /\ Turns \subseteq Runs
    BY DEF Init, NoJob, NoRuntime, Runs
  <1> QED
    BY <1>1 DEF SnapshotInv, NativeIsKnown, SavedIsNative, NamedIsNew, ReadIsNew, Holding, Admitted

\* run-session-execution.ts start: "A receipt retry must not replay a saved Turn after its harness has
\* stopped"; whatever answers, hosts and processes are lost, no harness starts a Turn that the snapshot
\* holds, while the Session's jobs come one at a time, or race for a single Run.
THEOREM SavedNotReplayed ==
    ASSUME Assumptions, OneAtATime
    PROVE  Spec => SavedTurnNotReplayed
  <1> DEFINE Inv == AcceptInv /\ HarnessInv /\ SnapshotInv
  <1>1. Init => Inv
    BY AcceptInit, HarnessInit, SnapshotInit
  <1>2. Inv /\ [Next]_vars => Inv'
    BY AcceptNext, HarnessNext, SnapshotNext
  <1>3. Inv /\ [Next]_vars => [StartsAreNotSaved]_vars
    BY NewStarts
  <1> QED
    BY <1>1, <1>2, <1>3, PTL DEF Spec, SavedTurnNotReplayed

=============================================================================
