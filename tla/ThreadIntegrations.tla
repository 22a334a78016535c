------------------------- MODULE ThreadIntegrations -------------------------
(***************************************************************************)
(* One provider thread: webhooks deliver its events, EventCandidateService *)
(* lets a model filter those that mention nobody, and                      *)
(* SessionIntegrationService turns admitted ones into inputs of a Session, *)
(* submits them and delivers the replies.  A released, deleted, full or    *)
(* outdated Session is followed by one of the next epoch.                  *)
(*                                                                         *)
(* Reads whose revisions a commit checks are one step with the commit, and *)
(* so is the retry after a conflict.  The Session itself is not read at a  *)
(* checked revision: what is seen of its deletion may be old.  Webhook     *)
(* handlers keep nothing: one that dies, or is repeated by the provider,   *)
(* is one whose next step is not taken, or taken again.  The same holds of *)
(* submitPending.  The delivery jobs of a Session run one at a time.       *)
(* Integrations without a subscription, which older versions wrote, and    *)
(* repeated Turns are left out.                                            *)
(***************************************************************************)
EXTENDS Integers, Sequences, FiniteSets

CONSTANTS
    Occurrences,   \* provider event ids
    Pushes,        \* those that move the head of a repository
    Endings,       \* how Turns may end: with an empty reply, or another
    MaxEpoch,      \* bound on the epochs of the thread
    MaxTurns,      \* bound on the Turns of a Session
    MaxInputs,     \* MAX_THREAD_INPUTS
    MaxFaults      \* bound on failed deliveries

Assumptions ==
    /\ Pushes \subseteq Occurrences /\ IsFiniteSet(Occurrences) /\ Endings \subseteq {"empty", "other"}
    /\ {MaxEpoch, MaxTurns, MaxInputs, MaxFaults} \subseteq Nat /\ MaxInputs > 0

VARIABLES
    subscription,  \* the thread_subscriptions resource
    inputs,        \* the session_integrations resource of each epoch: its inputs
    occurrence,    \* the integration_occurrences resources: the epoch, or -1
    explicit,      \* the event_explicit_receipts
    marker,        \* explicitVersion of the event_candidate_threads resource
    candidate,     \* the event_candidates
    session,       \* the Session of each epoch
    routed,        \* events that a webhook found the thread subscribed for
    reading,       \* the marker that a webhook read for an event, or -1
    delivery,      \* deliverReady of each epoch
    awake,         \* epochs with a delivery job in the queue
    posted,        \* <<epoch, Turn>> whose outcome was posted to the thread
    faults

store == <<subscription, inputs, occurrence, awake>>
events == <<explicit, marker, candidate>>
webhooks == <<routed, reading>>
jobs == <<delivery, posted>>
vars == <<store, events, session, webhooks, jobs, faults>>

-----------------------------------------------------------------------------
(* States *)

Epochs == 0 .. MaxEpoch
Turns == 1 .. MaxTurns

Subscription == [epoch : Epochs, state : {"none", "active", "released"}]
Receipt == [o : Occurrences, admission : {"explicit", "candidate"}, turn : 0 .. MaxTurns, processed : BOOLEAN]
Candidate == [status : {"none", "pending", "decided", "settled"},
              version : Nat,                 \* explicitVersion when it was stored
              seen : SUBSET Occurrences]     \* history: the explicit receipts when it was stored
NoCandidate == [status |-> "none", version |-> 0, seen |-> {}]
Settled == [NoCandidate EXCEPT !.status = "settled"]  \* admitted or discarded

\* Replies of a Turn: none yet, or what the delivery of its outcome would say.
Replies == {"open"} \union Endings
Session == [phase : {"none", "open", "deleted"},
            replies : Seq(Replies),                   \* of its Turns
            turnOf : [Occurrences -> 0 .. MaxTurns]]  \* its event receipts
NoSession == [phase |-> "none", replies |-> <<>>, turnOf |-> [o \in Occurrences |-> 0]]

Delivery == [pc : {"idle", "post", "mark"},
             snapshot : Seq(Receipt), replies : Seq(Replies),  \* what deliverReady read
             done : SUBSET Turns, turn : 0 .. MaxTurns, silent : BOOLEAN]
IdleDelivery == [pc |-> "idle", snapshot |-> <<>>, replies |-> <<>>, done |-> {}, turn |-> 0, silent |-> FALSE]

\* Types of the resources, the handlers and the jobs.
TypeOK ==
    /\ subscription \in Subscription
    /\ inputs \in [Epochs -> Seq(Receipt)]
    /\ occurrence \in [Occurrences -> Epochs \union {-1}]
    /\ explicit \subseteq Occurrences /\ marker \in Nat
    /\ candidate \in [Occurrences -> Candidate]
    /\ session \in [Epochs -> Session]
    /\ routed \subseteq Occurrences /\ reading \in [Occurrences -> Nat \union {-1}]
    /\ delivery \in [Epochs -> Delivery]
    /\ awake \subseteq Epochs /\ posted \subseteq Epochs \X Turns
    /\ faults \in 0 .. MaxFaults

Init ==
    /\ subscription = [epoch |-> 0, state |-> "none"]
    /\ inputs = [e \in Epochs |-> <<>>]
    /\ occurrence = [o \in Occurrences |-> -1]
    /\ explicit = {} /\ marker = 0
    /\ candidate = [o \in Occurrences |-> NoCandidate]
    /\ session = [e \in Epochs |-> NoSession]
    /\ routed = {} /\ reading = [o \in Occurrences |-> -1]
    /\ delivery = [e \in Epochs |-> IdleDelivery]
    /\ awake = {} /\ posted = {}
    /\ faults = 0

Fault == faults < MaxFaults /\ faults' = faults + 1
NoFault == UNCHANGED faults

Of(receipts, t) == {i \in DOMAIN receipts : receipts[i].turn = t}
AllCandidates(receipts, t) == \A i \in Of(receipts, t) : receipts[i].admission = "candidate"

-----------------------------------------------------------------------------
(* SessionIntegrationService.accept *)

\* planThreadAdmission, of what is seen of the current Session.
Rotates(o, deleted) ==
    LET e == subscription.epoch
    IN subscription.state # "none" /\ (\/ subscription.state = "released" \/ deleted
                                       \/ o \in Pushes /\ inputs[e][1].o # o
                                       \/ Len(inputs[e]) >= MaxInputs)

\* Mutant: the occurrence is looked for in the current Session only.
MutantKnown(o) == \E i \in DOMAIN inputs[subscription.epoch] : inputs[subscription.epoch][i].o = o
Known(o) == occurrence[o] # -1

\* The subscription, the integration and the occurrence are written together; the
\* write of an integration wakes its jobs.
Admit(o, admission) ==
    \E deleted \in {FALSE, session[subscription.epoch].phase = "deleted"} :
        LET next == subscription.epoch + (IF Rotates(o, deleted) THEN 1 ELSE 0)
            receipt == [o |-> o, admission |-> admission, turn |-> 0, processed |-> FALSE]
        IN  /\ next \in Epochs
            /\ subscription' = [epoch |-> next, state |-> "active"]
            /\ inputs' = [inputs EXCEPT ![next] = Append(@, receipt)]
            /\ occurrence' = [occurrence EXCEPT ![o] = next]
            /\ awake' = awake \union {next, subscription.epoch}

\* promoteCandidateReceipt: a Turn whose empty reply was withheld is delivered again.
Promoted(e, receipt) ==
    LET withheld == /\ receipt.processed /\ session[e].phase = "open"
                    /\ session[e].replies[receipt.turn] = "empty"
                    /\ AllCandidates(inputs[e], receipt.turn)
    IN [receipt EXCEPT !.admission = "explicit", !.processed = @ /\ ~withheld]

Promote(o) ==
    LET e == occurrence[o]
        promotable == {i \in DOMAIN inputs[e] : inputs[e][i].o = o /\ inputs[e][i].admission = "candidate"}
    IN  /\ inputs' = [inputs EXCEPT ![e] =
                        [i \in DOMAIN @ |-> IF i \in promotable THEN Promoted(e, @[i]) ELSE @[i]]]
        /\ awake' = IF promotable = {} THEN awake ELSE awake \union {e}
        /\ UNCHANGED <<subscription, occurrence>>

-----------------------------------------------------------------------------
(* WebhookIngressService.receive and EventCandidateService.enqueue *)

Subscribed == subscription.state = "active" /\ session[subscription.epoch].phase # "deleted"

\* A mention is recorded first: the receipt and the marker are written together, once.
Mention(o) ==
    /\ o \notin explicit
    /\ explicit' = explicit \union {o} /\ marker' = marker + 1
    /\ UNCHANGED <<store, candidate, session, webhooks, jobs, faults>>

\* Events that mention nobody: of a subscribed thread they are accepted; of another, enqueue reads
\* the marker and then looks at the receipts again.
Receive(o) ==
    /\ o \notin explicit /\ candidate[o].status = "none"
    /\ IF Subscribed THEN routed' = routed \union {o} /\ UNCHANGED reading
                     ELSE reading' = [reading EXCEPT ![o] = marker] /\ UNCHANGED routed
    /\ UNCHANGED <<store, events, session, jobs, faults>>

\* The hourly limit may be exceeded.
Enqueue(o) ==
    /\ reading[o] # -1
    /\ candidate' = [candidate EXCEPT ![o] =
          IF @.status # "none" THEN @ ELSE [status |-> "pending", version |-> reading[o], seen |-> explicit]]
    /\ reading' = [reading EXCEPT ![o] = -1]
    /\ UNCHANGED <<store, explicit, marker, session, routed, jobs, faults>>

Accept(o) ==
    /\ o \in explicit \union routed
    /\ IF Known(o) THEN Promote(o) ELSE Admit(o, "explicit")
    /\ UNCHANGED <<events, session, webhooks, jobs, faults>>

-----------------------------------------------------------------------------
(* EventCandidateService.process *)

\* Mutant: the marker is not compared again.
MutantSuperseded(o) == FALSE
Superseded(o) == candidate[o].version # marker

\* The claim, the model's answer and the decision; one worker has the candidate.
Filter(o) ==
    /\ candidate[o].status = "pending" /\ ~Superseded(o)
    /\ candidate' = [candidate EXCEPT ![o].status = "decided"]
    /\ UNCHANGED <<store, explicit, marker, session, webhooks, jobs, faults>>

\* The candidate, the marker and the input are written together; for an occurrence that was
\* accepted meanwhile the transaction fails until the candidate is superseded or an hour old.
Settle(o) ==
    /\ candidate[o].status = "decided" /\ ~Superseded(o) /\ ~Known(o)
    /\ Admit(o, "candidate")
    /\ candidate' = [candidate EXCEPT ![o] = Settled]
    /\ UNCHANGED <<explicit, marker, session, webhooks, jobs, faults>>

\* The limit is exceeded, the model says no, the candidate is superseded or an hour old.
Discard(o) ==
    /\ candidate[o].status \in {"pending", "decided"}
    /\ candidate' = [candidate EXCEPT ![o] = Settled]
    /\ UNCHANGED <<store, explicit, marker, session, webhooks, jobs, faults>>

-----------------------------------------------------------------------------
(* submitPending: the execution group of a Session *)

\* Inputs are taken in their order.
Pending(e, i) == i \in DOMAIN inputs[e] /\ inputs[e][i].turn = 0 /\ \A k \in 1 .. i - 1 : inputs[e][k].turn # 0

\* The first input creates the Session, the others are events: an active Turn is steered, else
\* one is started.  A repeated call finds the receipt of the first.
Submit(e, i) ==
    /\ Pending(e, i) /\ session[e].phase # "deleted" /\ session[e].turnOf[inputs[e][i].o] = 0
    /\ LET replies == session[e].replies
           active == {t \in DOMAIN replies : replies[t] = "open"}
           turn == IF active # {} THEN CHOOSE t \in active : TRUE ELSE Len(replies) + 1
       IN  /\ turn \in Turns
           /\ session' = [session EXCEPT ![e] =
                 [phase |-> "open", replies |-> IF active # {} THEN replies ELSE Append(replies, "open"),
                  turnOf |-> [@.turnOf EXCEPT ![inputs[e][i].o] = turn]]]
    /\ UNCHANGED <<store, events, webhooks, jobs, faults>>

\* The integration is read again before the Turn is written.
RecordTurn(e, i) ==
    /\ Pending(e, i) /\ session[e].turnOf[inputs[e][i].o] # 0
    /\ inputs' = [inputs EXCEPT ![e][i].turn = session[e].turnOf[inputs[e][i].o]]
    /\ awake' = awake \union {e}
    /\ UNCHANGED <<subscription, occurrence, events, session, webhooks, jobs, faults>>

-----------------------------------------------------------------------------
(* deliverReady: the delivery group of a Session *)

BeginDelivery(e) ==
    /\ e \in awake /\ delivery[e] = IdleDelivery
    /\ awake' = awake \ {e}
    /\ delivery' = [delivery EXCEPT ![e] = IF session[e].phase # "open" THEN IdleDelivery
                     ELSE [IdleDelivery EXCEPT !.pc = "post", !.snapshot = inputs[e], !.replies = session[e].replies]]
    /\ UNCHANGED <<subscription, inputs, occurrence, events, session, webhooks, posted, faults>>

\* An empty reply to candidates only is withheld; any other outcome is posted.
Post(e) ==
    /\ delivery[e].pc = "post"
    /\ LET d == delivery[e]
           ready == {i \in DOMAIN d.snapshot :
                       /\ ~d.snapshot[i].processed /\ d.snapshot[i].turn \in DOMAIN d.replies \ d.done
                       /\ d.replies[d.snapshot[i].turn] # "open"}
       IN IF ready = {} THEN delivery' = [delivery EXCEPT ![e] = IdleDelivery] /\ UNCHANGED posted
          ELSE LET t == d.snapshot[CHOOSE i \in ready : \A k \in ready : i <= k].turn
                   silent == d.replies[t] = "empty" /\ AllCandidates(d.snapshot, t)
               IN  /\ delivery' = [delivery EXCEPT ![e].pc = "mark", ![e].turn = t, ![e].silent = silent]
                   /\ posted' = IF silent THEN posted ELSE posted \union {<<e, t>>}
    /\ UNCHANGED <<store, events, session, webhooks, faults>>

Marked(e, t) == [i \in DOMAIN inputs[e] |-> IF inputs[e][i].turn = t THEN [inputs[e][i] EXCEPT !.processed = TRUE]
                                            ELSE inputs[e][i]]

\* Mutant: candidates whose reply was withheld are left for the next pass.
MutantMark(e) ==
    /\ delivery[e].pc = "mark"
    /\ LET d == delivery[e]
       IN  /\ IF d.silent THEN UNCHANGED store
              ELSE /\ inputs' = [inputs EXCEPT ![e] = Marked(e, d.turn)]
                   /\ awake' = IF inputs' = inputs THEN awake ELSE awake \union {e}
                   /\ UNCHANGED <<subscription, occurrence>>
           /\ delivery' = [delivery EXCEPT ![e] = [d EXCEPT !.pc = "post", !.done = @ \union {d.turn}, !.turn = 0, !.silent = FALSE]]
    /\ UNCHANGED <<events, session, webhooks, posted, faults>>

\* markDeliveryProcessed: a withheld reply does not count for an input that is explicit by now.
Mark(e) ==
    /\ delivery[e].pc = "mark"
    /\ LET d == delivery[e]
       IN  /\ IF d.silent /\ ~AllCandidates(inputs[e], d.turn) THEN UNCHANGED store
              ELSE /\ inputs' = [inputs EXCEPT ![e] = Marked(e, d.turn)]
                   /\ awake' = IF inputs' = inputs THEN awake ELSE awake \union {e}
                   /\ UNCHANGED <<subscription, occurrence>>
           /\ delivery' = [delivery EXCEPT ![e] = [d EXCEPT !.pc = "post", !.done = @ \union {d.turn}, !.turn = 0, !.silent = FALSE]]
    /\ UNCHANGED <<events, session, webhooks, posted, faults>>

\* The job is received again.
DeliveryFails(e) ==
    /\ delivery[e] # IdleDelivery /\ Fault
    /\ delivery' = [delivery EXCEPT ![e] = IdleDelivery]
    /\ awake' = awake \union {e}
    /\ UNCHANGED <<subscription, inputs, occurrence, events, session, webhooks, posted>>

-----------------------------------------------------------------------------
(* The Session and its owner *)

TurnEnds(e, t) ==
    /\ session[e].phase = "open" /\ t \in DOMAIN session[e].replies /\ session[e].replies[t] = "open"
    /\ \E reply \in Endings : session' = [session EXCEPT ![e].replies[t] = reply]
    /\ awake' = awake \union {e}
    /\ UNCHANGED <<subscription, inputs, occurrence, events, webhooks, jobs, faults>>

\* release, by the thread's tool or by the owner: only the subscriber of the current epoch.
Release(e) ==
    /\ subscription = [epoch |-> e, state |-> "active"]
    /\ subscription' = [subscription EXCEPT !.state = "released"]
    /\ awake' = awake \union {e}
    /\ UNCHANGED <<inputs, occurrence, events, session, webhooks, jobs, faults>>

Delete(e) ==
    /\ session[e].phase = "open"
    /\ session' = [session EXCEPT ![e] = [NoSession EXCEPT !.phase = "deleted"]]
    /\ UNCHANGED <<store, events, webhooks, jobs, faults>>

Deliver(e) == BeginDelivery(e) \/ Post(e) \/ Mark(e)

Inputs == 1 .. MaxInputs
Next ==
    \/ \E o \in Occurrences : Mention(o) \/ Receive(o) \/ Enqueue(o) \/ Accept(o) \/ Filter(o) \/ Settle(o) \/ Discard(o)
    \/ \E e \in Epochs : Deliver(e) \/ DeliveryFails(e) \/ Release(e) \/ Delete(e)
                         \/ \E i \in Inputs : Submit(e, i) \/ RecordTurn(e, i)
                         \/ \E t \in Turns : TurnEnds(e, t)

\* Jobs are received again until they succeed; Turns end.
Spec ==
    /\ Init /\ [][Next]_vars
    /\ \A e \in Epochs : /\ WF_vars(Deliver(e))
                         /\ WF_vars(\E i \in Inputs : Submit(e, i) \/ RecordTurn(e, i))
                         /\ \A t \in Turns : WF_vars(TurnEnds(e, t))

-----------------------------------------------------------------------------
(* Properties *)

\* However often and in whatever roles an event is delivered, and whatever epoch the thread is in,
\* it becomes one input of one Session.
OneInputPerOccurrence ==
    \A e, f \in Epochs : \A i \in DOMAIN inputs[e], k \in DOMAIN inputs[f] :
        inputs[e][i].o = inputs[f][k].o => e = f /\ i = k

\* "An empty final response sends no channel reply" is for candidates: an explicit request counts as
\* delivered only after its Turn's outcome was posted, also when it was a candidate at first, unless
\* another explicit request of the Turn, still to be delivered, will have it posted.
ExplicitIsAnswered ==
    \A e \in Epochs : \A i \in DOMAIN inputs[e] :
        LET explicitOf(t, processed) == {k \in Of(inputs[e], t) : inputs[e][k].admission = "explicit"
                                                             /\ inputs[e][k].processed = processed}
            t == inputs[e][i].turn
        IN session[e].phase = "open" /\ i \in explicitOf(t, TRUE) => <<e, t>> \in posted \/ explicitOf(t, FALSE) # {}

\* A candidate gives way to an explicit request of its thread recorded after it, also one recorded
\* while the handler stored the candidate or while the model decided.
AdmittedAreLatest ==
    \A o \in Occurrences :
        candidate[o].status = "decided" /\ occurrence[o] = -1 /\ occurrence'[o] # -1 /\ candidate'[o] # candidate[o]
        => candidate[o].seen = explicit
CandidateYields == [][AdmittedAreLatest]_vars

\* Every input whose Session stays is submitted and its outcome delivered.
InputsAreProcessed ==
    \A e \in Epochs : \A i \in Inputs :
        LET waiting == i \in DOMAIN inputs[e] /\ ~inputs[e][i].processed
        IN waiting ~> ~waiting \/ session[e].phase = "deleted"
=============================================================================
