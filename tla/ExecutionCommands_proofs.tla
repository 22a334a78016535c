---------------------- MODULE ExecutionCommands_proofs ----------------------
(***************************************************************************)
(* Proofs about ExecutionCommands: the mailbox delivers a command at most  *)
(* once and answers for it truly, for any commands, supervisors, page size *)
(* and deadline.                                                           *)
(***************************************************************************)
EXTENDS ExecutionCommands, FiniteSetTheorems, SequenceTheorems, TLAPS

\* Between the claim of a command and its response.
Working == {"perform", "respond"}

\* The command a supervisor is at.
HeadOf(s) == Head(sup[s].page).id

\* A row's revision says how far it got, and an unclaimed command had no effect.
RowsAreOrdered ==
    \A c \in Commands :
        /\ table[c].status = "absent" => table[c].revision = 0
        /\ table[c].status = "queued" => table[c].revision = 1
        /\ table[c].status \in {"claimed", "failed", "deleted"} => table[c].revision = 2
        /\ table[c].status \in {"absent", "queued"} => effects[c] = 0
        /\ requester[c] \in {"idle", "put"} => table[c].status = "absent"
        /\ response[c] # "none" => table[c].status = "deleted"

\* What a supervisor listed as queued was queued, and it acts on nothing else.
PageIsQueued(x) ==
    /\ \A i \in 1 .. Len(x.page) : x.page[i].status = "queued" => x.page[i].revision = 1
    /\ x.pc \in {"claim", "reject"} \union Working => x.page # << >> /\ Head(x.page).status = "queued"

PagesAreQueued == \A s \in Supervisors : PageIsQueued(sup[s])

\* A supervisor works on a command that it claimed, and what it will answer is true.
ClaimsAreHeld ==
    \A s \in Supervisors :
        /\ sup[s].pc = "perform" => table[HeadOf(s)].status = "claimed" /\ effects[HeadOf(s)] = 0
        /\ sup[s].pc = "respond" => table[HeadOf(s)].status \in {"claimed", "failed"}
        /\ sup[s].pc = "respond" /\ sup[s].answer = "completed" => effects[HeadOf(s)] = 1
        /\ sup[s].pc = "respond" /\ sup[s].answer = "expired" => effects[HeadOf(s)] = 0

\* Two supervisors never work on one command.
ClaimsAreExclusive ==
    \A s, t \in Supervisors :
        sup[s].pc \in Working /\ sup[t].pc \in Working /\ HeadOf(s) = HeadOf(t) => s = t

\* The inductive invariant: what makes the two safety properties survive every step.
MailboxInv ==
    /\ RowsAreOrdered /\ PagesAreQueued /\ ClaimsAreHeld /\ ClaimsAreExclusive
    /\ AtMostOnce /\ ResponsesAreTrue

IInv == TypeOK /\ MailboxInv

-----------------------------------------------------------------------------
(* Types *)

\* The head and the rest of a page.
LEMMA PageParts ==
    ASSUME TypeOK, NEW s \in Supervisors, sup[s].page # << >>
    PROVE  /\ HeadOf(s) \in Commands
           /\ Head(sup[s].page) = sup[s].page[1]
           /\ Head(sup[s].page) \in ListedCommand
           /\ 1 \in 1 .. Len(sup[s].page)
           /\ Tail(sup[s].page) \in Seq(ListedCommand)
           /\ Len(Tail(sup[s].page)) = Len(sup[s].page) - 1
           /\ \A i \in 1 .. Len(Tail(sup[s].page)) :
                 i + 1 \in 1 .. Len(sup[s].page) /\ Tail(sup[s].page)[i] = sup[s].page[i + 1]
  <1> DEFINE p == sup[s].page
  <1>1. p \in Seq(ListedCommand)
    BY DEF TypeOK, SupervisorState
  <1>2. p # << >>
    OBVIOUS
  <1> HIDE DEF p
  <1>3. Head(p) \in ListedCommand /\ Tail(p) \in Seq(ListedCommand) /\ Len(Tail(p)) = Len(p) - 1
    BY <1>1, <1>2, HeadTailProperties
  <1>4. \A i \in 1 .. Len(Tail(p)) : Tail(p)[i] = p[i + 1]
    BY <1>1, <1>2, HeadTailProperties
  <1>5. Len(p) \in Nat /\ Len(p) # 0
    BY <1>1, <1>2, EmptySeq, LenProperties
  <1>6. Head(p) = p[1]
    BY <1>1, <1>2
  <1> QED
    BY <1>3, <1>4, <1>5, <1>6 DEF p, HeadOf, ListedCommand

\* The page that a listing finds.
LEMMA ListingType ==
    ASSUME TypeOK, NEW s \in Supervisors, ListPage(s)
    PROVE  \E x \in SupervisorState :
              /\ sup' = [sup EXCEPT ![s] = x]
              /\ x.pc = "decide"
              /\ \A i \in 1 .. Len(x.page) : \E c \in Pending : x.page[i] = Entry(c)
  <1>1. PICK cursor \in {sup[s].cursor, 0} : \E found \in Sorted(Behind(cursor)) :
             LET more == Cardinality(Behind(cursor)) > PageLimit
                 size == IF more THEN PageLimit ELSE Cardinality(Behind(cursor))
             IN  sup' = [sup EXCEPT ![s] =
                    [pc |-> "decide", page |-> [i \in 1 .. size |-> Entry(found[i])], hasMore |-> more,
                     cursor |-> IF more THEN found[size] ELSE 0, answer |-> "none"]]
    BY DEF ListPage
  <1> DEFINE B == Behind(cursor)
             n == Cardinality(B)
             more == n > PageLimit
             size == IF more THEN PageLimit ELSE n
  <1>2. PICK found \in Sorted(B) :
             sup' = [sup EXCEPT ![s] =
                    [pc |-> "decide", page |-> [i \in 1 .. size |-> Entry(found[i])], hasMore |-> more,
                     cursor |-> IF more THEN found[size] ELSE 0, answer |-> "none"]]
    BY <1>1
  <1>3. B \subseteq Pending /\ Pending \subseteq Commands
    BY DEF Behind, Pending
  <1>4. n \in Nat
    BY <1>3, CommandsAssumption, FS_Subset, FS_CardinalityType
  <1>5. found \in [1 .. n -> B]
    BY DEF Sorted
  <1> HIDE DEF B, n
  <1>6. size \in Nat /\ size <= n /\ more \in BOOLEAN /\ (more => size \in 1 .. n)
    BY <1>4, BoundsAssumption
  <1> HIDE DEF size, more
  <1> DEFINE page == [i \in 1 .. size |-> Entry(found[i])]
             x == [pc |-> "decide", page |-> page, hasMore |-> more,
                   cursor |-> IF more THEN found[size] ELSE 0, answer |-> "none"]
  <1>7. \A c \in Pending : Entry(c) \in ListedCommand
    BY DEF ListedCommand, Pending, Entry, TypeOK, Rows
  <1>8. \A i \in 1 .. size : found[i] \in Pending
    <2> TAKE i \in 1 .. size
    <2>1. i \in 1 .. n
      BY <1>4, <1>6
    <2> QED
      BY <2>1, <1>5, <1>3
  <1>9. page \in Seq(ListedCommand) /\ Len(page) = size
    <2>1. page \in [1 .. size -> ListedCommand]
      BY <1>7, <1>8
    <2> HIDE DEF page
    <2> QED
      BY <1>6, <2>1, SeqDef
  <1>10. (IF more THEN found[size] ELSE 0) \in Commands \union {0}
    BY <1>5, <1>6, <1>3
  <1>11. \A i \in 1 .. Len(page) : \E c \in Pending : page[i] = Entry(c)
    BY <1>8, <1>9
  <1>12. sup' = [sup EXCEPT ![s] = x]
    BY <1>2
  <1> HIDE DEF page
  <1>13. x \in SupervisorState
    BY <1>6, <1>9, <1>10 DEF SupervisorState
  <1> QED
    BY <1>11, <1>12, <1>13

\* A requester's step keeps every type.
LEMMA RequesterKeepsType ==
    ASSUME TypeOK, NEW c \in Commands,
           Request(c) \/ PutCommand(c) \/ PutFails(c) \/ PollResponse(c) \/ GiveUp(c)
    PROVE  TypeOK'
  <1>1. CASE Request(c)
    <2>1. now + Patience \in 0 .. MaxTime + Patience
      BY BoundsAssumption DEF TypeOK
    <2> QED
      BY <1>1, <2>1 DEF Request, TypeOK
  <1>2. CASE PutCommand(c)
    <2>1. [status |-> "queued", revision |-> 1] \in Rows
      BY DEF Rows
    <2> QED
      BY <1>2, <2>1 DEF PutCommand, TypeOK
  <1>3. CASE PutFails(c)
    BY <1>3 DEF PutFails, TypeOK
  <1>4. CASE PollResponse(c)
    BY <1>4 DEF PollResponse, TypeOK
  <1>5. CASE GiveUp(c)
    BY <1>5 DEF GiveUp, TypeOK
  <1> QED
    BY <1>1, <1>2, <1>3, <1>4, <1>5

\* The initial and the final local state of a supervisor.
LEMMA NoPageType ==
    \A pc \in {"look", "list", "stopped"} : [NoPage EXCEPT !.pc = pc] \in SupervisorState
  <1>1. << >> \in Seq(ListedCommand)
    BY EmptySeq
  <1> QED
    BY <1>1 DEF NoPage, SupervisorState

\* A supervisor's step keeps every type; the revision that a claim writes is that of a
\* queued command.
LEMMA SupervisorKeepsType ==
    ASSUME TypeOK, PagesAreQueued, NEW s \in Supervisors, SupervisorStep(s) \/ Crash(s)
    PROVE  TypeOK'
  <1> DEFINE head == Head(sup[s].page)
  <1>a. /\ sup \in [Supervisors -> SupervisorState] /\ sup[s] \in SupervisorState
        /\ \A x \in SupervisorState : [sup EXCEPT ![s] = x] \in [Supervisors -> SupervisorState]
    BY DEF TypeOK
  <1>b. /\ \A pc \in {"look", "list", "decide", "claim", "reject", "perform", "respond", "stopped"} :
              [sup[s] EXCEPT !.pc = pc] \in SupervisorState
        /\ \A pc \in {"perform", "respond"} :
           \A answer \in {"none", "expired", "completed", "failed"} :
              [sup[s] EXCEPT !.pc = pc, !.answer = answer] \in SupervisorState
    BY <1>a DEF SupervisorState
  <1>c. ASSUME sup[s].page # << >>
        PROVE  /\ [sup[s] EXCEPT !.page = Tail(sup[s].page)] \in SupervisorState
               /\ [sup[s] EXCEPT !.pc = "decide", !.page = Tail(sup[s].page)] \in SupervisorState
               /\ [sup[s] EXCEPT !.pc = "decide", !.page = Tail(sup[s].page), !.answer = "none"] \in SupervisorState
               /\ head.id \in Commands
    BY <1>a, <1>c, PageParts DEF SupervisorState, HeadOf
  <1>1. CASE LookAtRun(s)
    BY <1>1, <1>a, NoPageType DEF LookAtRun, TypeOK
  <1>2. CASE ListPage(s)
    <2>1. sup' \in [Supervisors -> SupervisorState]
      BY <1>2, <1>a, ListingType
    <2> QED
      BY <1>2, <2>1 DEF ListPage, TypeOK
  <1>3. CASE Decide(s)
    <2>1. Decision(head) \in {"ignore", "reject", "claim"}
      BY DEF Decision
    <2>2. sup' \in [Supervisors -> SupervisorState]
      <3>1. CASE Decision(head) = "ignore"
        <4>1. sup' = [sup EXCEPT ![s] = [sup[s] EXCEPT !.page = Tail(sup[s].page)]]
          BY <1>3, <3>1 DEF Decide
        <4>2. [sup[s] EXCEPT !.page = Tail(sup[s].page)] \in SupervisorState
          BY <1>3, <1>c DEF Decide
        <4> QED
          BY <4>1, <4>2, <1>a
      <3>2. CASE Decision(head) # "ignore"
        <4>1. sup' = [sup EXCEPT ![s] = [sup[s] EXCEPT !.pc = Decision(head)]]
          BY <1>3, <3>2 DEF Decide
        <4>2. [sup[s] EXCEPT !.pc = Decision(head)] \in SupervisorState
          BY <2>1, <3>2, <1>b
        <4> QED
          BY <4>1, <4>2, <1>a
      <3> QED
        BY <3>1, <3>2
    <2> QED
      BY <1>3, <2>2 DEF Decide, TypeOK
  <1>4. CASE EndPage(s)
    <2>1. sup' = [sup EXCEPT ![s] = [sup[s] EXCEPT !.pc = IF sup[s].hasMore THEN "list" ELSE "look"]]
      BY <1>4 DEF EndPage
    <2>2. sup' \in [Supervisors -> SupervisorState]
      BY <2>1, <1>a, <1>b
    <2> QED
      BY <1>4, <2>2 DEF EndPage, TypeOK
  <1>5. CASE Claim(s)
    <2>1. sup[s].page # << >> /\ head.status = "queued" /\ head.id \in Commands
      BY <1>5, <1>c DEF Claim, PagesAreQueued, PageIsQueued, Working
    <2>2. head.revision = 1
      BY <2>1, PageParts DEF PagesAreQueued, PageIsQueued
    <2>3. sup' \in [Supervisors -> SupervisorState]
      <3>1. CASE Unchanged(head) /\ sup[s].pc = "claim"
        <4>1. sup' = [sup EXCEPT ![s] = [sup[s] EXCEPT !.pc = "perform"]]
          BY <1>5, <3>1 DEF Claim
        <4> QED
          BY <4>1, <1>a, <1>b
      <3>2. CASE Unchanged(head) /\ sup[s].pc = "reject"
        <4>1. sup[s].pc # "claim"
          BY <3>2
        <4>2. sup' = [sup EXCEPT ![s] = IF sup[s].pc = "claim" THEN [sup[s] EXCEPT !.pc = "perform"]
                                        ELSE [sup[s] EXCEPT !.pc = "respond", !.answer = "expired"]]
          BY <1>5, <3>2 DEF Claim
        <4>3. sup' = [sup EXCEPT ![s] = [sup[s] EXCEPT !.pc = "respond", !.answer = "expired"]]
          BY <4>1, <4>2
        <4> QED
          BY <4>3, <1>a, <1>b
      <3>3. CASE ~Unchanged(head)
        <4>1. sup' = [sup EXCEPT ![s] = [sup[s] EXCEPT !.pc = "decide", !.page = Tail(sup[s].page)]]
          BY <1>5, <3>3 DEF Claim
        <4> QED
          BY <4>1, <1>a, <1>c, <2>1
      <3> QED
        BY <1>5, <3>1, <3>2, <3>3 DEF Claim
    <2>4. table' \in [Commands -> Rows]
      <3>1. \A status \in {"claimed", "failed"} : [status |-> status, revision |-> head.revision + 1] \in Rows
        BY <2>2 DEF Rows
      <3>2. \/ \E status \in {"claimed", "failed"} :
                  table' = [table EXCEPT ![head.id] = [status |-> status, revision |-> head.revision + 1]]
            \/ table' = table
        BY <1>5 DEF Claim
      <3>3. table \in [Commands -> Rows]
        BY DEF TypeOK
      <3>4. CASE table' = table
        BY <3>3, <3>4
      <3>5. ASSUME NEW status \in {"claimed", "failed"},
                   table' = [table EXCEPT ![head.id] = [status |-> status, revision |-> head.revision + 1]]
            PROVE  table' \in [Commands -> Rows]
        <4>1. [status |-> status, revision |-> head.revision + 1] \in Rows
          BY <3>1
        <4> QED
          BY <4>1, <3>3, <3>5
      <3> QED
        BY <3>2, <3>4, <3>5
    <2> QED
      BY <1>5, <2>3, <2>4 DEF Claim, TypeOK
  <1>6. CASE Perform(s)
    <2>1. sup[s].page # << >> /\ head.id \in Commands
      BY <1>6, <1>c DEF Perform, PagesAreQueued, PageIsQueued, Working
    <2>2. sup' \in [Supervisors -> SupervisorState]
      BY <1>6, <1>a, <1>b DEF Perform
    <2>3. effects' \in [Commands -> Nat]
      <3>1. effects' = [effects EXCEPT ![head.id] = effects[head.id] + 1] \/ effects' = effects
        BY <1>6 DEF Perform
      <3>2. effects[head.id] + 1 \in Nat
        BY <2>1 DEF TypeOK
      <3> QED
        BY <3>1, <3>2 DEF TypeOK
    <2> QED
      BY <1>6, <2>2, <2>3 DEF Perform, TypeOK
  <1>7. CASE Respond(s)
    <2>1. sup[s].page # << >> /\ head.id \in Commands
      BY <1>7, <1>c DEF Respond, PagesAreQueued, PageIsQueued, Working
    <2>2. sup' \in [Supervisors -> SupervisorState]
      <3>1. sup' = [sup EXCEPT ![s] = [sup[s] EXCEPT !.pc = "decide", !.page = Tail(sup[s].page), !.answer = "none"]]
        BY <1>7 DEF Respond
      <3> QED
        BY <3>1, <1>a, <1>c, <2>1
    <2>3. table' \in [Commands -> Rows]
      <3>1. [status |-> "deleted", revision |-> table[head.id].revision] \in Rows
        BY <2>1 DEF TypeOK, Rows
      <3>2. table' = [table EXCEPT ![head.id] = [status |-> "deleted", revision |-> table[head.id].revision]]
        BY <1>7 DEF Respond
      <3> QED
        BY <3>1, <3>2 DEF TypeOK
    <2>4. response' \in [Commands -> {"none", "expired", "completed", "failed"}]
      BY <1>7, <1>a DEF Respond, TypeOK, SupervisorState
    <2> QED
      BY <1>7, <2>2, <2>3, <2>4 DEF Respond, TypeOK
  <1>8. CASE Crash(s)
    BY <1>8, <1>a, NoPageType DEF Crash, TypeOK
  <1> QED
    BY <1>1, <1>2, <1>3, <1>4, <1>5, <1>6, <1>7, <1>8 DEF SupervisorStep

-----------------------------------------------------------------------------
(* The invariant *)

\* A step of a supervisor that neither touches the mailbox nor starts work.
LEMMA LocalStepKeepsInv ==
    ASSUME IInv, NEW s \in Supervisors, NEW x \in SupervisorState,
           sup' = [sup EXCEPT ![s] = x], x.pc \notin Working, PageIsQueued(x),
           UNCHANGED <<table, response, requester, effects>>
    PROVE  MailboxInv'
  <1>1. sup'[s] = x /\ \A t \in Supervisors \ {s} : sup'[t] = sup[t]
    BY DEF IInv, TypeOK
  <1>2. RowsAreOrdered' /\ AtMostOnce' /\ ResponsesAreTrue'
    BY DEF IInv, MailboxInv, RowsAreOrdered, AtMostOnce, ResponsesAreTrue
  <1>3. PagesAreQueued'
    BY <1>1 DEF IInv, MailboxInv, PagesAreQueued, PageIsQueued
  <1>4. ClaimsAreHeld'
    BY <1>1 DEF IInv, MailboxInv, ClaimsAreHeld, HeadOf, Working
  <1>5. ClaimsAreExclusive'
    BY <1>1 DEF IInv, MailboxInv, ClaimsAreExclusive, HeadOf, Working
  <1> QED
    BY <1>2, <1>3, <1>4, <1>5 DEF MailboxInv

\* What the head of the page of a supervisor at work is.
LEMMA HeadFacts ==
    ASSUME IInv, NEW s \in Supervisors, sup[s].pc \in {"claim", "reject"} \union Working
    PROVE  /\ sup[s].page # << >>
           /\ HeadOf(s) \in Commands
           /\ Head(sup[s].page).revision = 1
  <1>1. sup[s].page # << >> /\ Head(sup[s].page).status = "queued"
    BY DEF IInv, MailboxInv, PagesAreQueued, PageIsQueued
  <1> QED
    BY <1>1, PageParts DEF IInv, MailboxInv, PagesAreQueued, PageIsQueued

\* Without its head a page is as well listed as before.
LEMMA RestIsQueued ==
    ASSUME IInv, NEW s \in Supervisors, sup[s].page # << >>, NEW x,
           x.page = Tail(sup[s].page), x.pc = "decide"
    PROVE  PageIsQueued(x)
  <1>1. \A i \in 1 .. Len(x.page) : i + 1 \in 1 .. Len(sup[s].page) /\ x.page[i] = sup[s].page[i + 1]
    BY PageParts DEF IInv
  <1> QED
    BY <1>1 DEF IInv, MailboxInv, PagesAreQueued, PageIsQueued, Working

\* A requester's step keeps the invariant: it writes no command but a new one.
LEMMA RequesterKeepsInv ==
    ASSUME IInv, NEW c \in Commands,
           Request(c) \/ PutCommand(c) \/ PutFails(c) \/ PollResponse(c) \/ GiveUp(c)
    PROVE  MailboxInv'
  <1>1. UNCHANGED <<sup, response, effects>>
    BY DEF Request, PutCommand, PutFails, PollResponse, GiveUp
  <1>2. PagesAreQueued' /\ ClaimsAreExclusive' /\ AtMostOnce' /\ ResponsesAreTrue'
    BY <1>1 DEF IInv, MailboxInv, PagesAreQueued, PageIsQueued, ClaimsAreExclusive, HeadOf,
                AtMostOnce, ResponsesAreTrue
  <1>3. CASE PutCommand(c)
    <2>1. /\ table'[c] = [status |-> "queued", revision |-> 1]
          /\ \A d \in Commands \ {c} : table'[d] = table[d] /\ requester'[d] = requester[d]
          /\ requester'[c] \in {"poll", "unavailable"}
          /\ table[c].status = "absent"
      BY <1>3 DEF PutCommand, IInv, TypeOK, MailboxInv, RowsAreOrdered
    <2>2. RowsAreOrdered'
      BY <1>1, <2>1 DEF IInv, MailboxInv, RowsAreOrdered
    <2>3. ASSUME NEW s \in Supervisors, sup[s].pc \in Working
          PROVE  HeadOf(s) \in Commands \ {c}
      <3>1. HeadOf(s) \in Commands
        BY <2>3, HeadFacts
      <3>2. table[HeadOf(s)].status \in {"claimed", "failed"}
        BY <2>3 DEF IInv, MailboxInv, ClaimsAreHeld, Working
      <3> QED
        BY <2>1, <3>1, <3>2
    <2>4. ClaimsAreHeld'
      BY <1>1, <2>1, <2>3 DEF IInv, MailboxInv, ClaimsAreHeld, HeadOf, Working
    <2> QED
      BY <1>2, <2>2, <2>4 DEF MailboxInv
  <1>4. CASE Request(c) \/ PutFails(c) \/ PollResponse(c) \/ GiveUp(c)
    <2>1. table' = table
      BY <1>4 DEF Request, PutFails, PollResponse, GiveUp
    <2>2. /\ \A d \in Commands \ {c} : requester'[d] = requester[d]
          /\ requester'[c] \in {"idle", "put"} => requester[c] \in {"idle", "put"}
      BY <1>4 DEF Request, PutFails, PollResponse, GiveUp, IInv, TypeOK
    <2>3. RowsAreOrdered'
      BY <1>1, <2>1, <2>2 DEF IInv, MailboxInv, RowsAreOrdered
    <2>4. ClaimsAreHeld'
      BY <1>1, <2>1 DEF IInv, MailboxInv, ClaimsAreHeld, HeadOf
    <2> QED
      BY <1>2, <2>3, <2>4 DEF MailboxInv
  <1> QED
    BY <1>3, <1>4

\* A supervisor that wins a claim is alone with it: the row was still queued.
LEMMA ClaimKeepsInv ==
    ASSUME IInv, NEW s \in Supervisors, Claim(s)
    PROVE  MailboxInv'
  <1> DEFINE saved == Head(sup[s].page)
             h == HeadOf(s)
  <1>1. sup[s].pc \in {"claim", "reject"} /\ UNCHANGED <<response, requester, effects>>
    BY DEF Claim
  <1>2. sup[s].page # << >> /\ h \in Commands /\ saved.revision = 1 /\ saved.id = h
    BY <1>1, HeadFacts DEF HeadOf
  <1>3. /\ sup \in [Supervisors -> SupervisorState] /\ sup[s] \in SupervisorState
        /\ table \in [Commands -> Rows]
    BY DEF IInv, TypeOK
  <1>4. CASE ~Unchanged(saved)
    <2> DEFINE x == [sup[s] EXCEPT !.pc = "decide", !.page = Tail(sup[s].page)]
    <2>1. sup' = [sup EXCEPT ![s] = x] /\ UNCHANGED table
      BY <1>4 DEF Claim
    <2>2. x \in SupervisorState /\ x.pc = "decide" /\ x.page = Tail(sup[s].page)
      BY <1>2, <1>3, PageParts DEF SupervisorState, IInv
    <2> HIDE DEF x
    <2>3. PageIsQueued(x)
      BY <2>2, <1>2, RestIsQueued
    <2> QED
      BY <1>1, <2>1, <2>2, <2>3, LocalStepKeepsInv DEF Working
  <1>5. CASE Unchanged(saved)
    <2>1. PICK status \in {"claimed", "failed"} :
            /\ table' = [table EXCEPT ![h] = [status |-> status, revision |-> 2]]
            /\ status = "claimed" <=> sup[s].pc = "claim"
      BY <1>5, <1>1, <1>2 DEF Claim, Unchanged
    <2>2. /\ sup[s].pc = "claim" => sup' = [sup EXCEPT ![s] = [sup[s] EXCEPT !.pc = "perform"]]
          /\ sup[s].pc = "reject" =>
                sup' = [sup EXCEPT ![s] = [sup[s] EXCEPT !.pc = "respond", !.answer = "expired"]]
      BY <1>5 DEF Claim
    <2>3. /\ \A t \in Supervisors \ {s} : sup'[t] = sup[t]
          /\ sup'[s].page = sup[s].page
          /\ sup'[s].pc = "perform" \/ (sup'[s].pc = "respond" /\ sup'[s].answer = "expired")
          /\ sup'[s].pc = "perform" => status = "claimed"
      <3>1. CASE sup[s].pc = "claim"
        BY <3>1, <1>3, <2>1, <2>2 DEF SupervisorState
      <3>2. CASE sup[s].pc = "reject"
        BY <3>2, <1>3, <2>2, ZenonT(60) DEF SupervisorState
      <3> QED
        BY <1>1, <3>1, <3>2
    <2>4. /\ table'[h] = [status |-> status, revision |-> 2]
          /\ \A c \in Commands \ {h} : table'[c] = table[c]
      BY <1>2, <1>3, <2>1
    <2>5. table[h].status = "queued" /\ effects[h] = 0
      <3>1. table[h].revision = 1 /\ table[h].status # "deleted"
        BY <1>2, <1>5 DEF Unchanged
      <3>2. table[h].status \in {"absent", "queued", "claimed", "failed", "deleted"}
        BY <1>2, <1>3 DEF Rows
      <3> QED
        BY <1>2, <3>1, <3>2 DEF IInv, MailboxInv, RowsAreOrdered
    <2>6. \A t \in Supervisors : sup[t].pc \in Working => t # s /\ HeadOf(t) \in Commands \ {h}
      <3> SUFFICES ASSUME NEW t \in Supervisors, sup[t].pc \in Working
                   PROVE  t # s /\ HeadOf(t) \in Commands \ {h}
        OBVIOUS
      <3>1. HeadOf(t) \in Commands
        BY HeadFacts
      <3>2. table[HeadOf(t)].status \in {"claimed", "failed"}
        BY DEF IInv, MailboxInv, ClaimsAreHeld, Working
      <3> QED
        BY <1>1, <2>5, <3>1, <3>2 DEF Working
    <2>7. RowsAreOrdered'
      BY <1>1, <1>2, <2>4, <2>5 DEF IInv, MailboxInv, RowsAreOrdered
    <2>8. PagesAreQueued'
      BY <1>1, <2>3 DEF IInv, MailboxInv, PagesAreQueued, PageIsQueued
    <2>9. \A t \in Supervisors : HeadOf(t)' = HeadOf(t)
      BY <2>3 DEF HeadOf
    <2>10. ClaimsAreHeld'
      <3> SUFFICES ASSUME NEW t \in Supervisors
                   PROVE  /\ sup'[t].pc = "perform" =>
                                table'[HeadOf(t)].status = "claimed" /\ effects[HeadOf(t)] = 0
                          /\ sup'[t].pc = "respond" => table'[HeadOf(t)].status \in {"claimed", "failed"}
                          /\ sup'[t].pc = "respond" /\ sup'[t].answer = "completed" => effects[HeadOf(t)] = 1
                          /\ sup'[t].pc = "respond" /\ sup'[t].answer = "expired" => effects[HeadOf(t)] = 0
        BY <1>1, <2>9 DEF ClaimsAreHeld
      <3>1. CASE t = s
        BY <3>1, <2>1, <2>3, <2>4, <2>5
      <3>2. CASE t # s
        BY <3>2, <2>3, <2>4, <2>6 DEF IInv, MailboxInv, ClaimsAreHeld, Working
      <3> QED
        BY <3>1, <3>2
    <2>11. ClaimsAreExclusive'
      BY <2>3, <2>6, <2>9 DEF IInv, MailboxInv, ClaimsAreExclusive
    <2> QED
      BY <1>1, <2>7, <2>8, <2>10, <2>11 DEF IInv, MailboxInv, AtMostOnce, ResponsesAreTrue
  <1> QED
    BY <1>4, <1>5

\* A command is performed by its holder, for the first time.
LEMMA PerformKeepsInv ==
    ASSUME IInv, NEW s \in Supervisors, Perform(s)
    PROVE  MailboxInv'
  <1> DEFINE h == HeadOf(s)
  <1>1. sup[s].pc = "perform" /\ UNCHANGED <<table, response, requester>>
    BY DEF Perform
  <1>2. h \in Commands /\ table[h].status = "claimed" /\ effects[h] = 0
    BY <1>1, HeadFacts DEF IInv, MailboxInv, ClaimsAreHeld, Working
  <1>3. /\ sup \in [Supervisors -> SupervisorState] /\ sup[s] \in SupervisorState
        /\ effects \in [Commands -> Nat]
    BY DEF IInv, TypeOK
  <1>4. PICK answer \in {"completed", "failed"} :
            /\ sup' = [sup EXCEPT ![s] = [sup[s] EXCEPT !.pc = "respond", !.answer = answer]]
            /\ \/ effects' = [effects EXCEPT ![h] = effects[h] + 1]
               \/ effects' = effects /\ answer = "failed"
    BY DEF Perform, HeadOf
  <1>5. /\ \A t \in Supervisors \ {s} : sup'[t] = sup[t]
        /\ sup'[s].page = sup[s].page /\ sup'[s].pc = "respond" /\ sup'[s].answer = answer
    BY <1>3, <1>4 DEF SupervisorState
  <1>6. /\ \A c \in Commands \ {h} : effects'[c] = effects[c]
        /\ effects'[h] \in {0, 1}
        /\ answer = "completed" => effects'[h] = 1
    BY <1>2, <1>3, <1>4
  <1>7. \A t \in Supervisors : HeadOf(t)' = HeadOf(t)
    BY <1>5 DEF HeadOf
  <1>8. \A t \in Supervisors \ {s} : sup[t].pc \in Working => HeadOf(t) \in Commands \ {h}
    BY <1>1, HeadFacts DEF IInv, MailboxInv, ClaimsAreExclusive, Working
  <1>9. RowsAreOrdered' /\ AtMostOnce' /\ ResponsesAreTrue'
    BY <1>1, <1>2, <1>6 DEF IInv, MailboxInv, RowsAreOrdered, AtMostOnce, ResponsesAreTrue
  <1>10. PagesAreQueued'
    BY <1>1, <1>5 DEF IInv, MailboxInv, PagesAreQueued, PageIsQueued, Working
  <1>11. ClaimsAreHeld'
    <2> SUFFICES ASSUME NEW t \in Supervisors
                 PROVE  /\ sup'[t].pc = "perform" =>
                              table[HeadOf(t)].status = "claimed" /\ effects'[HeadOf(t)] = 0
                        /\ sup'[t].pc = "respond" => table[HeadOf(t)].status \in {"claimed", "failed"}
                        /\ sup'[t].pc = "respond" /\ sup'[t].answer = "completed" => effects'[HeadOf(t)] = 1
                        /\ sup'[t].pc = "respond" /\ sup'[t].answer = "expired" => effects'[HeadOf(t)] = 0
      BY <1>1, <1>7 DEF ClaimsAreHeld
    <2>1. CASE t = s
      BY <2>1, <1>2, <1>5, <1>6
    <2>2. CASE t # s
      BY <2>2, <1>5, <1>6, <1>8 DEF IInv, MailboxInv, ClaimsAreHeld, Working
    <2> QED
      BY <2>1, <2>2
  <1>12. ClaimsAreExclusive'
    BY <1>1, <1>5, <1>7 DEF IInv, MailboxInv, ClaimsAreExclusive, Working
  <1> QED
    BY <1>9, <1>10, <1>11, <1>12 DEF MailboxInv

\* The answer that replaces a command is the one its holder knows to be true.
LEMMA RespondKeepsInv ==
    ASSUME IInv, NEW s \in Supervisors, Respond(s)
    PROVE  MailboxInv'
  <1> DEFINE h == HeadOf(s)
             x == [sup[s] EXCEPT !.pc = "decide", !.page = Tail(sup[s].page), !.answer = "none"]
  <1>1. sup[s].pc = "respond" /\ UNCHANGED <<requester, effects>>
    BY DEF Respond
  <1>2. /\ h \in Commands /\ table[h].status \in {"claimed", "failed"} /\ sup[s].page # << >>
        /\ sup[s].answer = "completed" => effects[h] = 1
        /\ sup[s].answer = "expired" => effects[h] = 0
    BY <1>1, HeadFacts DEF IInv, MailboxInv, ClaimsAreHeld, Working
  <1>3. /\ sup \in [Supervisors -> SupervisorState] /\ sup[s] \in SupervisorState
        /\ table \in [Commands -> Rows]
        /\ response \in [Commands -> {"none", "expired", "completed", "failed"}]
    BY DEF IInv, TypeOK
  <1>4. /\ sup' = [sup EXCEPT ![s] = x]
        /\ table' = [table EXCEPT ![h] = [status |-> "deleted", revision |-> table[h].revision]]
        /\ response' = [response EXCEPT ![h] = sup[s].answer]
    BY DEF Respond, HeadOf
  <1>5. x.pc = "decide" /\ x.page = Tail(sup[s].page)
    BY <1>3 DEF SupervisorState
  <1> HIDE DEF x
  <1>6. sup'[s] = x /\ \A t \in Supervisors \ {s} : sup'[t] = sup[t]
    BY <1>3, <1>4
  <1>7. /\ table'[h].status = "deleted" /\ table'[h].revision = table[h].revision
        /\ response'[h] = sup[s].answer
        /\ \A c \in Commands \ {h} : table'[c] = table[c] /\ response'[c] = response[c]
    BY <1>2, <1>3, <1>4
  <1>8. \A t \in Supervisors \ {s} : sup[t].pc \in Working => HeadOf(t) \in Commands \ {h}
    BY <1>1, HeadFacts DEF IInv, MailboxInv, ClaimsAreExclusive, Working
  <1>9. \A t \in Supervisors : sup'[t].pc \in Working => t # s
    BY <1>5, <1>6 DEF Working
  <1>10. RowsAreOrdered'
    BY <1>1, <1>2, <1>7 DEF IInv, MailboxInv, RowsAreOrdered
  <1>11. AtMostOnce' /\ ResponsesAreTrue'
    BY <1>1, <1>2, <1>7 DEF IInv, MailboxInv, AtMostOnce, ResponsesAreTrue
  <1>12. PagesAreQueued'
    <2>1. PageIsQueued(x)
      BY <1>2, <1>5, RestIsQueued
    <2> QED
      BY <1>6, <2>1 DEF IInv, MailboxInv, PagesAreQueued, PageIsQueued
  <1>13. ClaimsAreHeld'
    <2> SUFFICES ASSUME NEW t \in Supervisors, sup'[t].pc \in Working
                 PROVE  /\ sup'[t].pc = "perform" =>
                              table'[HeadOf(t)'].status = "claimed" /\ effects[HeadOf(t)'] = 0
                        /\ sup'[t].pc = "respond" => table'[HeadOf(t)'].status \in {"claimed", "failed"}
                        /\ sup'[t].pc = "respond" /\ sup'[t].answer = "completed" => effects[HeadOf(t)'] = 1
                        /\ sup'[t].pc = "respond" /\ sup'[t].answer = "expired" => effects[HeadOf(t)'] = 0
      BY <1>1 DEF ClaimsAreHeld, Working
    <2>1. t # s /\ sup'[t] = sup[t] /\ HeadOf(t)' = HeadOf(t)
      BY <1>6, <1>9 DEF HeadOf
    <2>2. table'[HeadOf(t)] = table[HeadOf(t)]
      BY <1>7, <1>8, <2>1
    <2> QED
      BY <2>1, <2>2 DEF IInv, MailboxInv, ClaimsAreHeld
  <1>14. ClaimsAreExclusive'
    BY <1>6, <1>9 DEF IInv, MailboxInv, ClaimsAreExclusive, HeadOf, Working
  <1> QED
    BY <1>10, <1>11, <1>12, <1>13, <1>14 DEF MailboxInv

\* The other steps of a supervisor.
LEMMA SupervisorKeepsInv ==
    ASSUME IInv, NEW s \in Supervisors, SupervisorStep(s) \/ Crash(s)
    PROVE  MailboxInv'
  <1>a. /\ sup \in [Supervisors -> SupervisorState] /\ sup[s] \in SupervisorState
        /\ PageIsQueued(sup[s])
    BY DEF IInv, TypeOK, MailboxInv, PagesAreQueued
  <1>b. ASSUME NEW pc \in {"look", "list", "stopped"}
        PROVE  /\ [NoPage EXCEPT !.pc = pc] \in SupervisorState
               /\ [NoPage EXCEPT !.pc = pc].pc \notin Working
               /\ PageIsQueued([NoPage EXCEPT !.pc = pc])
    BY NoPageType DEF NoPage, Working, PageIsQueued
  <1>1. CASE LookAtRun(s)
    BY <1>1, <1>b, LocalStepKeepsInv DEF LookAtRun
  <1>2. CASE ListPage(s)
    <2>1. PICK x \in SupervisorState :
              /\ sup' = [sup EXCEPT ![s] = x]
              /\ x.pc = "decide"
              /\ \A i \in 1 .. Len(x.page) : \E c \in Pending : x.page[i] = Entry(c)
      BY <1>2, ListingType DEF IInv
    <2>2. PageIsQueued(x)
      <3>1. \A c \in Pending : Entry(c).status = "queued" => Entry(c).revision = 1
        BY DEF Pending, Entry, IInv, MailboxInv, RowsAreOrdered
      <3>2. x.pc \notin {"claim", "reject"} \union Working
        BY <2>1 DEF Working
      <3> QED
        BY <2>1, <3>1, <3>2 DEF PageIsQueued
    <2> QED
      BY <1>2, <2>1, <2>2, LocalStepKeepsInv DEF ListPage, Working
  <1>3. CASE Decide(s)
    <2> DEFINE decision == Decision(Head(sup[s].page))
    <2>1. sup[s].pc = "decide" /\ sup[s].page # << >>
      BY <1>3 DEF Decide
    <2>2. CASE decision = "ignore"
      <3> DEFINE x == [sup[s] EXCEPT !.page = Tail(sup[s].page)]
      <3>1. sup' = [sup EXCEPT ![s] = x]
        BY <1>3, <2>2 DEF Decide
      <3>2. x \in SupervisorState /\ x.pc = "decide" /\ x.page = Tail(sup[s].page)
        BY <1>a, <2>1, PageParts DEF SupervisorState, IInv
      <3> HIDE DEF x
      <3>3. PageIsQueued(x)
        BY <2>1, <3>2, RestIsQueued
      <3> QED
        BY <1>3, <3>1, <3>2, <3>3, LocalStepKeepsInv DEF Decide, Working
    <2>3. CASE decision # "ignore"
      <3> DEFINE x == [sup[s] EXCEPT !.pc = decision]
      <3>1. sup' = [sup EXCEPT ![s] = x]
        BY <1>3, <2>3 DEF Decide
      <3>2. decision \in {"claim", "reject"} /\ Head(sup[s].page).status = "queued"
        BY <2>3 DEF Decision
      <3>3. x \in SupervisorState /\ x.pc = decision /\ x.page = sup[s].page
        BY <1>a, <3>2 DEF SupervisorState
      <3> HIDE DEF x, decision
      <3>4. PageIsQueued(x)
        BY <1>a, <2>1, <3>2, <3>3 DEF PageIsQueued
      <3> QED
        BY <1>3, <3>1, <3>2, <3>3, <3>4, LocalStepKeepsInv DEF Decide, Working
    <2> QED
      BY <2>2, <2>3
  <1>4. CASE EndPage(s)
    <2> DEFINE x == [sup[s] EXCEPT !.pc = IF sup[s].hasMore THEN "list" ELSE "look"]
    <2>1. sup' = [sup EXCEPT ![s] = x]
      BY <1>4 DEF EndPage
    <2>2. x \in SupervisorState /\ x.pc \in {"look", "list"} /\ x.page = sup[s].page
      BY <1>a DEF SupervisorState
    <2> HIDE DEF x
    <2>3. PageIsQueued(x)
      BY <1>a, <2>2 DEF PageIsQueued, Working
    <2> QED
      BY <1>4, <2>1, <2>2, <2>3, LocalStepKeepsInv DEF EndPage, Working
  <1>5. CASE Claim(s)
    BY <1>5, ClaimKeepsInv
  <1>6. CASE Perform(s)
    BY <1>6, PerformKeepsInv
  <1>7. CASE Respond(s)
    BY <1>7, RespondKeepsInv
  <1>8. CASE Crash(s)
    BY <1>8, <1>b, LocalStepKeepsInv DEF Crash
  <1> QED
    BY <1>1, <1>2, <1>3, <1>4, <1>5, <1>6, <1>7, <1>8 DEF SupervisorStep

\* The empty mailbox satisfies the invariant.
LEMMA InitIsMailbox == Init => IInv
  <1> SUFFICES ASSUME Init PROVE IInv
    OBVIOUS
  <1>1. NoPage \in SupervisorState /\ NoPage.pc = "look" /\ NoPage.page = << >>
    <2>1. [NoPage EXCEPT !.pc = "look"] = NoPage
      BY DEF NoPage
    <2> QED
      BY <2>1, NoPageType DEF NoPage
  <1>2. TypeOK
    BY <1>1, BoundsAssumption DEF Init, TypeOK, Rows
  <1>3. PagesAreQueued
    BY <1>1 DEF Init, PagesAreQueued, PageIsQueued, Working
  <1>4. RowsAreOrdered /\ AtMostOnce /\ ResponsesAreTrue
    BY DEF Init, RowsAreOrdered, AtMostOnce, ResponsesAreTrue
  <1>5. ClaimsAreHeld /\ ClaimsAreExclusive
    BY <1>1 DEF Init, ClaimsAreHeld, ClaimsAreExclusive, Working
  <1> QED
    BY <1>2, <1>3, <1>4, <1>5 DEF IInv, MailboxInv

\* Every step of requesters, supervisors, the Run and the clock keeps the invariant.
LEMMA StepKeepsMailbox == IInv /\ [Next]_vars => IInv'
  <1> SUFFICES ASSUME IInv, [Next]_vars PROVE IInv'
    OBVIOUS
  <1>a. TypeOK /\ PagesAreQueued
    BY DEF IInv, MailboxInv
  <1>1. CASE \E c \in Commands : Request(c) \/ PutCommand(c) \/ PutFails(c) \/ PollResponse(c) \/ GiveUp(c)
    BY <1>1, <1>a, RequesterKeepsType, RequesterKeepsInv DEF IInv
  <1>2. CASE \E s \in Supervisors : SupervisorStep(s) \/ Crash(s)
    BY <1>2, <1>a, SupervisorKeepsType, SupervisorKeepsInv DEF IInv
  <1>3. CASE EndRun \/ Tick \/ UNCHANGED vars
    <2>1. UNCHANGED <<table, response, requester, deadline, sup, effects>>
      BY <1>3 DEF EndRun, Tick, vars
    <2>2. TypeOK'
      BY <1>3, <1>a, BoundsAssumption DEF EndRun, Tick, vars, TypeOK
    <2>3. MailboxInv'
      BY <2>1 DEF IInv, MailboxInv, RowsAreOrdered, PagesAreQueued, PageIsQueued, ClaimsAreHeld,
                  ClaimsAreExclusive, HeadOf, AtMostOnce, ResponsesAreTrue
    <2> QED
      BY <2>2, <2>3 DEF IInv
  <1> QED
    BY <1>1, <1>2, <1>3 DEF Next, SupervisorStep

-----------------------------------------------------------------------------
(* The theorems *)

\* The invariant holds in every reachable state of the mailbox.
LEMMA MailboxIsInvariant == Spec => []IInv
  BY InitIsMailbox, StepKeepsMailbox, PTL DEF Spec

\* Requests, claims, refusals and responses keep the records of the mailbox well formed, for
\* any commands, supervisors, page size and deadline (execution-command-service.ts).
THEOREM MailboxTypes == Spec => []TypeOK
  <1>1. IInv => TypeOK
    BY DEF IInv
  <1> QED
    BY <1>1, MailboxIsInvariant, PTL

\* However many supervisors drain the mailbox, crash and are replaced, a command reaches the
\* worker at most once: the claim of drain is committed before the effect and never replayed.
THEOREM ClaimedOnce == Spec => []AtMostOnce
  <1>1. IInv => AtMostOnce
    BY DEF IInv, MailboxInv
  <1> QED
    BY <1>1, MailboxIsInvariant, PTL

\* A requester that is told "completed" had its command run exactly once, and one that is
\* told "expired before acceptance" never will have: the response of drain is its holder's.
THEOREM TrueAnswers == Spec => []ResponsesAreTrue
  <1>1. IInv => ResponsesAreTrue
    BY DEF IInv, MailboxInv
  <1> QED
    BY <1>1, MailboxIsInvariant, PTL

-----------------------------------------------------------------------------
(* No start after giving up *)

\* A requester gave up only when its deadline had passed.
PatienceInv == \A c \in Commands : requester[c] = "timedOut" => now >= deadline[c]

LEMMA InitIsPatient == Init => PatienceInv
  BY DEF Init, PatienceInv

\* Time only advances, and a deadline is computed before the wait for it begins.
LEMMA StepKeepsPatience == TypeOK /\ PatienceInv /\ [Next]_vars => PatienceInv'
  <1> SUFFICES ASSUME TypeOK, PatienceInv, [Next]_vars PROVE PatienceInv'
    OBVIOUS
  <1> USE DEF PatienceInv
  <1>1. CASE \E c \in Commands : Request(c) \/ PutCommand(c) \/ PutFails(c) \/ PollResponse(c) \/ GiveUp(c)
    <2> PICK c \in Commands : Request(c) \/ PutCommand(c) \/ PutFails(c) \/ PollResponse(c) \/ GiveUp(c)
      BY <1>1
    <2>1. CASE Request(c)
      BY <2>1 DEF Request, TypeOK
    <2>2. CASE PutCommand(c)
      BY <2>2 DEF PutCommand, TypeOK
    <2>3. CASE PutFails(c)
      BY <2>3 DEF PutFails, TypeOK
    <2>4. CASE PollResponse(c)
      \* A poll before the deadline does not give up, whatever it reads.
      <3>1. response[c] # "timedOut"
        BY DEF TypeOK
      <3> QED
        BY <2>4, <3>1 DEF PollResponse, TypeOK
    <2>5. CASE GiveUp(c)
      BY <2>5 DEF GiveUp, TypeOK
    <2> QED
      BY <2>1, <2>2, <2>3, <2>4, <2>5
  <1>2. CASE \E s \in Supervisors : SupervisorStep(s) \/ Crash(s)
    <2>1. UNCHANGED <<now, requester, deadline>>
      BY <1>2 DEF SupervisorStep, LookAtRun, ListPage, Decide, EndPage, Claim, Perform, Respond, Crash
    <2> QED
      BY <2>1
  <1>3. CASE Tick
    BY <1>3, BoundsAssumption DEF Tick, TypeOK
  <1>4. CASE EndRun \/ UNCHANGED vars
    BY <1>4 DEF EndRun, vars
  <1> QED
    BY <1>1, <1>2, <1>3, <1>4 DEF Next, SupervisorStep

\* Only Perform reaches the worker, and only before the deadline.
LEMMA EffectsAreInTime ==
    ASSUME TypeOK, PatienceInv, [Next]_vars, NEW c \in Commands, effects'[c] > effects[c]
    PROVE  requester[c] # "timedOut"
  <1>0. effects[c] \in Nat /\ ~(effects[c] > effects[c])
    BY DEF TypeOK
  <1>1. PICK s \in Supervisors : Perform(s)
    <2>1. effects' # effects
      BY <1>0
    <2> QED
      BY <2>1 DEF Next, vars, Request, PutCommand, PutFails, PollResponse, GiveUp, LookAtRun, ListPage,
                  Decide, EndPage, Claim, Respond, Crash, EndRun, Tick
  <1> DEFINE d == Head(sup[s].page).id
  <1>2. now < deadline[d] /\ effects' = [effects EXCEPT ![d] = @ + 1]
    BY <1>0, <1>1 DEF Perform
  <1>3. d = c
    BY <1>0, <1>2 DEF TypeOK
  <1>4. now < deadline[c] /\ now \in Nat /\ deadline[c] \in Nat
    BY <1>2, <1>3, BoundsAssumption DEF TypeOK
  <1> QED
    BY <1>4 DEF PatienceInv

\* A command does not start after its requester gave up: drain checks the record's deadline again
\* between the claim and the effect, however long the claim took.
THEOREM GivenUpNotStarted == Spec => NoStartAfterGivingUp
  <1>1. TypeOK /\ PatienceInv /\ [Next]_vars
          => [\A c \in Commands : effects'[c] > effects[c] => requester[c] # "timedOut"]_vars
    BY EffectsAreInTime
  <1>2. Spec => []PatienceInv
    BY MailboxTypes, InitIsPatient, StepKeepsPatience, PTL DEF Spec
  <1> QED
    BY <1>1, <1>2, MailboxTypes, PTL DEF Spec, NoStartAfterGivingUp
-----------------------------------------------------------------------------
(* The mailbox implements CommandContract. *)

\* A requester that was told an answer was told the command's.
ToldInv ==
    \A c \in Commands :
        requester[c] \in {"completed", "failed", "expired"} => response[c] = requester[c]

ContractInv == IInv /\ PatienceInv /\ ToldInv

\* Who works on a command has not answered it: the response deletes the row.
LEMMA WorkIsUnanswered ==
    ASSUME IInv, NEW s \in Supervisors, sup[s].pc \in Working
    PROVE  HeadOf(s) \in Commands /\ response[HeadOf(s)] = "none"
  <1>1. HeadOf(s) \in Commands
    BY HeadFacts
  <1>2. table[HeadOf(s)].status \in {"claimed", "failed"}
    BY DEF IInv, MailboxInv, ClaimsAreHeld, Working
  <1> QED
    BY <1>1, <1>2 DEF IInv, MailboxInv, RowsAreOrdered

\* Only the poll tells a requester an answer, and an answer is never changed.
LEMMA StepKeepsTold ==
    ASSUME IInv, ToldInv, [Next]_vars
    PROVE  ToldInv'
  <1>1. CASE \E c \in Commands : Request(c) \/ PutCommand(c) \/ PutFails(c) \/ PollResponse(c) \/ GiveUp(c)
    <2> PICK c \in Commands : Request(c) \/ PutCommand(c) \/ PutFails(c) \/ PollResponse(c) \/ GiveUp(c)
      BY <1>1
    <2>1. response' = response
      BY DEF Request, PutCommand, PutFails, PollResponse, GiveUp
    <2>2. /\ \A d \in Commands \ {c} : requester'[d] = requester[d]
          /\ requester'[c] \in {"put", "poll", "unavailable", "timedOut", response[c]}
      BY DEF Request, PutCommand, PutFails, PollResponse, GiveUp, IInv, TypeOK
    <2> QED
      BY <2>1, <2>2 DEF ToldInv
  <1>2. ASSUME NEW s \in Supervisors, Respond(s)
        PROVE  ToldInv'
    <2>1. response[HeadOf(s)] = "none" /\ HeadOf(s) \in Commands
      BY <1>2, WorkIsUnanswered DEF Respond, Working
    <2>2. /\ requester' = requester
          /\ \A d \in Commands \ {HeadOf(s)} : response'[d] = response[d]
      BY <1>2 DEF Respond, HeadOf, IInv, TypeOK
    <2> QED
      BY <2>1, <2>2 DEF ToldInv
  <1>3. CASE UNCHANGED <<requester, response>>
    BY <1>3 DEF ToldInv
  <1> QED
    BY <1>1, <1>2, <1>3 DEF Next, vars, LookAtRun, ListPage, Decide, EndPage, Claim, Perform, Crash,
       EndRun, Tick

\* A requester's step is one of the contract's, or is not seen by it.
LEMMA RequesterRefines ==
    ASSUME IInv, NEW c \in Commands,
           Request(c) \/ PutCommand(c) \/ PutFails(c) \/ PollResponse(c) \/ GiveUp(c)
    PROVE  [Contract!Next]_(Contract!contractVars)
  <1> DEFINE waiting == {"idle", "put", "poll"}
  <1>1. UNCHANGED <<response, effects>>
    BY DEF Request, PutCommand, PutFails, PollResponse, GiveUp
  <1>2. /\ requester \in [Commands -> {"idle", "put", "poll", "completed", "failed", "expired",
                                       "unavailable", "timedOut"}]
        /\ response[c] \in {"none", "expired", "completed", "failed"}
    BY DEF IInv, TypeOK
  <1>3. \A to : requester' = [requester EXCEPT ![c] = to] =>
            Caller' = [Caller EXCEPT ![c] = IF to \in waiting THEN "waiting" ELSE to]
    BY <1>2 DEF Caller
  <1>4. requester[c] \in waiting => Caller[c] = "waiting"
    BY DEF Caller
  <1>5. ASSUME requester[c] \in waiting, NEW to \in {"unavailable", "timedOut"},
               requester' = [requester EXCEPT ![c] = to]
        PROVE  Contract!Next
    <2>1. Caller' = [Caller EXCEPT ![c] = to]
      BY <1>3, <1>5
    <2>2. Contract!Leave(c)
      BY <1>1, <1>4, <1>5, <2>1 DEF Contract!Leave
    <2> QED
      BY <2>2 DEF Contract!Next
  <1>6. ASSUME requester[c] \in waiting, NEW to \in waiting,
               requester' = [requester EXCEPT ![c] = to]
        PROVE  UNCHANGED Contract!contractVars
    <2>1. Caller' = [Caller EXCEPT ![c] = "waiting"]
      BY <1>3, <1>6
    <2>2. Caller' = Caller
      BY <1>4, <1>6, <2>1 DEF Caller
    <2> QED
      BY <1>1, <2>2 DEF Contract!contractVars
  <1>7. CASE PollResponse(c)
    <2>1. requester' = [requester EXCEPT ![c] = response[c]] /\ response[c] # "none"
      BY <1>7 DEF PollResponse
    <2>2. Caller' = [Caller EXCEPT ![c] = response[c]]
      BY <1>2, <1>3, <2>1
    <2>3. Caller[c] = "waiting"
      BY <1>4, <1>7 DEF PollResponse
    <2>4. Contract!Learn(c)
      BY <1>1, <2>1, <2>2, <2>3 DEF Contract!Learn
    <2> QED
      BY <2>4 DEF Contract!Next
  <1>8. CASE Request(c) \/ PutCommand(c) \/ PutFails(c) \/ GiveUp(c)
    <2>1. PICK to \in waiting \union {"unavailable", "timedOut"} :
              requester' = [requester EXCEPT ![c] = to]
      BY <1>8 DEF Request, PutCommand, PutFails, GiveUp
    <2>2. requester[c] \in waiting
      BY <1>8 DEF Request, PutCommand, PutFails, GiveUp
    <2> QED
      BY <1>5, <1>6, <2>1, <2>2
  <1> QED
    BY <1>7, <1>8

\* A command that a supervisor performs in time has not run, is not answered, and nobody gave
\* it up: the contract allows it to run.
LEMMA PerformRefines ==
    ASSUME ContractInv, NEW s \in Supervisors, Perform(s)
    PROVE  [Contract!Next]_(Contract!contractVars)
  <1> DEFINE h == HeadOf(s)
  <1>1. sup[s].pc = "perform" /\ UNCHANGED <<now, requester, response, deadline>>
    BY DEF Perform
  <1>2. h \in Commands /\ response[h] = "none" /\ effects[h] = 0
    BY <1>1, WorkIsUnanswered DEF ContractInv, IInv, MailboxInv, ClaimsAreHeld, Working
  <1>3. Caller' = Caller
    BY <1>1 DEF Caller
  <1>4. CASE effects' = effects
    BY <1>1, <1>3, <1>4 DEF Contract!contractVars
  <1>5. CASE now < deadline[h] /\ effects' = [effects EXCEPT ![h] = @ + 1]
    <2>1. requester[h] \notin {"completed", "failed", "expired"}
      BY <1>2 DEF ContractInv, ToldInv
    <2>2. requester[h] # "timedOut"
      <3>1. now \in Nat /\ deadline[h] \in Nat
        BY <1>2, BoundsAssumption DEF ContractInv, IInv, TypeOK
      <3> QED
        BY <1>2, <1>5, <3>1 DEF ContractInv, PatienceInv
    <2>3. Caller[h] \in {"waiting", "unavailable"}
      BY <1>2, <2>1, <2>2 DEF Caller, ContractInv, IInv, TypeOK
    <2>4. effects' = [effects EXCEPT ![h] = 1]
      BY <1>2, <1>5
    <2>5. Contract!Execute(h)
      BY <1>1, <1>2, <1>3, <2>3, <2>4 DEF Contract!Execute
    <2> QED
      BY <1>2, <2>5 DEF Contract!Next
  <1> QED
    BY <1>4, <1>5 DEF Perform, HeadOf

\* The response of a supervisor is the command's only answer, and it is true.
LEMMA RespondRefines ==
    ASSUME ContractInv, NEW s \in Supervisors, Respond(s)
    PROVE  [Contract!Next]_(Contract!contractVars)
  <1> DEFINE h == HeadOf(s)
  <1>1. /\ sup[s].pc = "respond" /\ UNCHANGED <<requester, effects>>
        /\ response' = [response EXCEPT ![h] = sup[s].answer]
    BY DEF Respond, HeadOf
  <1>2. h \in Commands /\ response[h] = "none"
    BY <1>1, WorkIsUnanswered DEF ContractInv, Working
  <1>3. /\ sup[s].answer = "completed" => effects[h] = 1
        /\ sup[s].answer = "expired" => effects[h] = 0
    BY <1>1 DEF ContractInv, IInv, MailboxInv, ClaimsAreHeld
  <1>4. sup[s].answer \in {"none", "expired", "completed", "failed"}
    BY DEF ContractInv, IInv, TypeOK, SupervisorState
  <1>5. Caller' = Caller
    BY <1>1 DEF Caller
  <1>6. CASE sup[s].answer = "none"
    <2>1. response' = response
      BY <1>1, <1>2, <1>6 DEF ContractInv, IInv, TypeOK
    <2> QED
      BY <1>1, <1>5, <2>1 DEF Contract!contractVars
  <1>7. CASE sup[s].answer \in Contract!Answers
    <2>1. Contract!Answer(h, sup[s].answer)
      BY <1>1, <1>2, <1>3, <1>5 DEF Contract!Answer
    <2> QED
      BY <1>2, <1>7, <2>1 DEF Contract!Next
  <1> QED
    BY <1>4, <1>6, <1>7 DEF Contract!Answers

\* Every step of the mailbox is a step of the contract or is not seen by it.
LEMMA StepRefines ==
    ASSUME ContractInv, [Next]_vars
    PROVE  [Contract!Next]_(Contract!contractVars)
  <1>1. CASE \E c \in Commands : Request(c) \/ PutCommand(c) \/ PutFails(c) \/ PollResponse(c) \/ GiveUp(c)
    BY <1>1, RequesterRefines DEF ContractInv
  <1>2. CASE \E s \in Supervisors : Perform(s) \/ Respond(s)
    BY <1>2, PerformRefines, RespondRefines
  <1>3. CASE UNCHANGED <<requester, response, effects>>
    BY <1>3 DEF Contract!contractVars, Caller
  <1> QED
    BY <1>1, <1>2, <1>3 DEF Next, vars, LookAtRun, ListPage, Decide, EndPage, Claim, Crash, EndRun, Tick

\* The empty mailbox is the contract's.
LEMMA InitRefines == Init => Contract!Init /\ ContractInv
  <1> SUFFICES ASSUME Init PROVE Contract!Init /\ ContractInv
    OBVIOUS
  <1>1. Contract!Init
    BY DEF Init, Contract!Init, Caller
  <1>2. ContractInv
    BY InitIsMailbox, InitIsPatient DEF ContractInv, ToldInv, Init
  <1> QED
    BY <1>1, <1>2

\* For any commands, supervisors, page size and deadline the mailbox of
\* execution-command-service.ts implements CommandContract: a command runs at most once, never
\* after its answer and never after its requester gave up, and the requester is told its one
\* true answer or none.
THEOREM MailboxRefinement == Spec => RefinesContract
  <1>1. ContractInv /\ [Next]_vars => ContractInv' /\ [Contract!Next]_(Contract!contractVars)
    <2>1. ContractInv /\ [Next]_vars => IInv' /\ PatienceInv'
      BY StepKeepsMailbox, StepKeepsPatience DEF ContractInv, IInv
    <2>2. ContractInv /\ [Next]_vars => ToldInv'
      BY StepKeepsTold DEF ContractInv
    <2>3. ContractInv /\ [Next]_vars => [Contract!Next]_(Contract!contractVars)
      BY StepRefines
    <2> QED
      BY <2>1, <2>2, <2>3 DEF ContractInv
  <1> QED
    BY <1>1, InitRefines, PTL DEF Spec, RefinesContract, Contract!Spec
=============================================================================
