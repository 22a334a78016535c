------------------------------ MODULE Webhooks ------------------------------
(***************************************************************************)
(* WebhookService: the endpoints an owner subscribes, each with a signing  *)
(* secret of its own, and the deliveries of Session events to them.  A     *)
(* committed batch is a job of the outbox; fanout makes one delivery per   *)
(* endpoint and event, which is a job again; deliver claims it for a       *)
(* minute, posts and saves what came of it.  The watchdog's reporter runs  *)
(* fanout and deliver itself, beside the outbox.                           *)
(*                                                                         *)
(* A conditional put succeeds while nobody has written since the writer's  *)
(* read: seen, counted and fresh say of a reader whether that is so.        *)
(***************************************************************************)
EXTENDS Integers, FiniteSets, TLC

CONSTANTS
    Endpoints, Events,
    Admins,     \* callers of the endpoint operations
    Workers,    \* outbox handlers
    Reporters,  \* watchdog reporters
    Profiles,   \* what a run starts with: [callers, ops, kept, events]
    Limit,      \* endpoints an owner may have
    Tries,      \* registry conflicts a deletion survives
    LastSecret, \* bound: secrets created
    Lease, Horizon, \* a claim's and a delivery's length of life
    LastTick,   \* bound: the clock
    MaxFaults   \* bound: callers and handlers that end, jobs received twice

Assumptions ==
    /\ Limit \in Nat \ {0} /\ Tries \in Nat \ {0} /\ LastSecret \in Nat /\ MaxFaults \in Nat
    /\ Lease \in Nat \ {0} /\ Horizon \in Nat \ {0} /\ LastTick \in Nat
    /\ Workers \cap Reporters = {}

VARIABLES
    profile,
    endpoint, \* webhook_endpoints: state, enabled, the secret it refers to
    registry, \* webhook_registry: the ids that count
    secret,   \* Secrets Manager: "none", "live" or "revoked"
    admin,    \* a call in progress
    event,    \* a batch with one event: its state and the endpoints it is for
    steady,   \* <<event, endpoint>> listed and on ever since
    jobs,     \* the queue: <<"fanout", event>> and <<"deliver", event, endpoint>>
    delivery, \* webhook_deliveries
    handler,  \* a job in progress
    accepted, \* deliveries the receiver has answered with 2xx
    clock, faults

owned == <<endpoint, registry, secret, admin>>
sent == <<event, jobs, delivery, handler, accepted>>
vars == <<profile, owned, sent, steady, clock, faults>>

Deliveries == Events \X Endpoints
Handlers == Workers \cup Reporters
Kept == {p \in Endpoints : endpoint[p].state = "kept"}
NoDelivery == [status |-> "none", attempts |-> 0, next |-> 0, deadline |-> 0, lease |-> 0]
Ended == {"delivered", "failed", "disabled"}
Ticks == 0..LastTick + Lease + Horizon

TypeOK ==
    /\ profile \in Profiles
    /\ endpoint \in [Endpoints -> [state : {"none", "kept", "deleted"}, enabled : BOOLEAN, secret : 0..LastSecret]]
    /\ registry \subseteq Endpoints
    /\ secret \in [1..LastSecret -> {"none", "live", "revoked"}]
    /\ admin \in [Admins -> [pc : {"idle", "commit", "put", "revoke", "registry", "delete"}, op : {"", "create", "update", "rotate", "delete"},
                             at : Endpoints \cup {""}, enabled : BOOLEAN, old : 0..LastSecret, new : 0..LastSecret, tries : 0..Tries,
                             seen : BOOLEAN, counted : BOOLEAN]]
    /\ event \in [Events -> [state : {"none", "listed", "committed"}, to : SUBSET Endpoints, at : 0..LastTick]]
    /\ steady \subseteq Deliveries
    /\ jobs \subseteq ({"fanout"} \X Events) \cup ({"deliver"} \X Events \X Endpoints)
    /\ delivery \in [Deliveries -> [status : Ended \cup {"none", "pending", "delivering"},
                                    attempts : Nat, next : Ticks, deadline : Ticks, lease : Ticks]]
    /\ \A w \in Handlers : handler[w].pc \in {"idle", "next", "put", "decide", "sign", "post", "finish"}
    /\ accepted \subseteq Deliveries
    /\ clock \in 0..LastTick /\ faults \in 0..MaxFaults

NoCall == [pc |-> "idle", op |-> "", at |-> "", enabled |-> FALSE, old |-> 0, new |-> 0, tries |-> 0,
           seen |-> FALSE, counted |-> FALSE]
NoJob == [pc |-> "idle"]
\* The endpoints a run starts with were created before, one secret each.
Init ==
    /\ profile \in Profiles
    /\ \E first \in [profile.kept -> 1..LastSecret] :
          /\ \A p, q \in profile.kept : first[p] = first[q] => p = q
          /\ \A p \in profile.kept : first[p] <= Cardinality(profile.kept)
          /\ endpoint = [p \in Endpoints |-> IF p \in profile.kept
                            THEN [state |-> "kept", enabled |-> TRUE, secret |-> first[p]]
                            ELSE [state |-> "none", enabled |-> FALSE, secret |-> 0]]
    /\ registry = profile.kept
    /\ secret = [s \in 1..LastSecret |-> IF s <= Cardinality(profile.kept) THEN "live" ELSE "none"]
    /\ admin = [a \in Admins |-> NoCall]
    /\ event = [e \in Events |-> [state |-> "none", to |-> {}, at |-> 0]] /\ steady = {}
    /\ jobs = {} /\ delivery = [d \in Deliveries |-> NoDelivery]
    /\ handler = [w \in Handlers |-> NoJob]
    /\ accepted = {}
    /\ clock = 0 /\ faults = 0

Fault == faults < MaxFaults /\ faults' = faults + 1

(***************************************************************************)
(* The owner's calls.                                                      *)
(***************************************************************************)
Calls(a) == a \in profile.callers /\ admin[a].pc = "idle"
\* A new secret is nobody else's.
NewSecret(s) == secret[s] = "none" /\ \A t \in 1..(s - 1) : secret[t] # "none"
Becomes(a, call) == admin' = [admin EXCEPT ![a] = call]
\* A write of the endpoint p, or of the registry too, after which the caller goes on with call.
Rewrites(a, value, call, both) ==
    LET p == admin[a].at
    IN  /\ endpoint' = [endpoint EXCEPT ![p] = value]
        /\ steady' = IF value.enabled THEN steady ELSE {d \in steady : d[2] # p}
        /\ admin' = [b \in Admins |-> IF b = a THEN call
                                      ELSE [admin[b] EXCEPT !.seen = @ /\ admin[b].at # p, !.counted = @ /\ ~both]]

\* create: the count is read, then a secret of a new id is created.
Create(a, p) ==
    /\ Calls(a) /\ endpoint[p].state = "none" /\ \A b \in Admins : admin[b].at # p
    /\ Cardinality(registry) < Limit
    /\ \E s \in 1..LastSecret :
          /\ NewSecret(s)
          /\ secret' = [secret EXCEPT ![s] = "live"]
          /\ Becomes(a, [NoCall EXCEPT !.pc = "commit", !.op = "create", !.at = p, !.new = s, !.counted = TRUE])
    /\ UNCHANGED <<profile, endpoint, registry, sent, steady, clock, faults>>

\* The secret of a create that fails is kept: the transaction may have taken effect.
CreateCommit(a) ==
    /\ admin[a].pc = "commit"
    /\ IF admin[a].counted
       THEN /\ Rewrites(a, [state |-> "kept", enabled |-> TRUE, secret |-> admin[a].new], NoCall, TRUE)
            /\ registry' = registry \cup {admin[a].at}
       ELSE Becomes(a, NoCall) /\ UNCHANGED <<endpoint, registry, steady>>
    /\ UNCHANGED <<profile, secret, sent, clock, faults>>

\* update, rotate and delete read the endpoint first.
Ask(a, p, op) ==
    /\ Calls(a) /\ p \in Kept /\ op \in profile.ops
    /\ LET call == [NoCall EXCEPT !.op = op, !.at = p, !.enabled = endpoint[p].enabled, !.old = endpoint[p].secret, !.seen = TRUE]
       IN  IF op = "rotate"
           THEN \E s \in 1..LastSecret :
                   /\ NewSecret(s)
                   /\ secret' = [secret EXCEPT ![s] = "live"]
                   /\ Becomes(a, [call EXCEPT !.pc = "put", !.new = s])
           ELSE Becomes(a, [call EXCEPT !.pc = IF op = "delete" THEN "registry" ELSE "put"]) /\ UNCHANGED secret
    /\ UNCHANGED <<profile, endpoint, registry, sent, steady, clock, faults>>

\* What update and rotate put; update keeps the secret it read.
NewEndpoint(call) ==
    IF call.op = "update" THEN [state |-> "kept", enabled |-> ~call.enabled, secret |-> call.old]
    ELSE [state |-> "kept", enabled |-> call.enabled, secret |-> call.new]
\* Mutant: an update is put whatever has been written since its read.
MutantPut(a) ==
    LET call == admin[a]
    IN  /\ call.pc = "put"
        /\ IF call.op = "update" /\ call.at \in Kept THEN Rewrites(a, NewEndpoint(call), NoCall, FALSE)
           ELSE IF call.seen THEN Rewrites(a, NewEndpoint(call), [call EXCEPT !.pc = "revoke"], FALSE)
           ELSE Becomes(a, NoCall) /\ UNCHANGED <<endpoint, steady>>
        /\ UNCHANGED <<profile, registry, secret, sent, clock, faults>>
Put(a) ==
    LET call == admin[a]
    IN  /\ call.pc = "put"
        /\ IF call.seen THEN Rewrites(a, NewEndpoint(call), IF call.op = "rotate" THEN [call EXCEPT !.pc = "revoke"] ELSE NoCall, FALSE)
           ELSE Becomes(a, NoCall) /\ UNCHANGED <<endpoint, steady>>
        /\ UNCHANGED <<profile, registry, secret, sent, clock, faults>>

\* delete: the registry is read again after a conflict, whatever conflicted.
ReadRegistry(a) ==
    /\ admin[a].pc = "registry"
    /\ Becomes(a, [admin[a] EXCEPT !.pc = "delete", !.counted = TRUE])
    /\ UNCHANGED <<profile, endpoint, registry, secret, sent, steady, clock, faults>>
Remove(a) ==
    LET call == admin[a]
        again == IF call.tries + 1 < Tries THEN [call EXCEPT !.pc = "registry", !.tries = @ + 1] ELSE NoCall
    IN  /\ call.pc = "delete"
        /\ IF call.seen /\ call.counted
           THEN /\ Rewrites(a, [state |-> "deleted", enabled |-> FALSE, secret |-> 0], [call EXCEPT !.pc = "revoke"], TRUE)
                /\ registry' = registry \ {call.at}
           ELSE Becomes(a, again) /\ UNCHANGED <<endpoint, registry, steady>>
        /\ UNCHANGED <<profile, secret, sent, clock, faults>>

\* The last step of rotate and delete.
Revoke(a) ==
    /\ admin[a].pc = "revoke"
    /\ secret' = [secret EXCEPT ![admin[a].old] = "revoked"]
    /\ admin' = [admin EXCEPT ![a] = NoCall]
    /\ UNCHANGED <<profile, steady, endpoint, registry, sent, clock, faults>>

\* A call that ends where it is, also one whose answer is lost: nothing is undone.
CallEnds(a) ==
    /\ admin[a].pc # "idle" /\ Fault
    /\ admin' = [admin EXCEPT ![a] = NoCall]
    /\ UNCHANGED <<profile, steady, endpoint, registry, secret, sent, clock>>

(***************************************************************************)
(* A batch, fanned out.                                                    *)
(***************************************************************************)
\* The endpoints are listed, at most Limit of them, before the transaction of the batch.
List(e) ==
    /\ e \in profile.events /\ event[e].state = "none"
    /\ event' = [event EXCEPT ![e] = [state |-> "listed", to |-> {p \in Kept : endpoint[p].enabled}, at |-> clock]]
    /\ UNCHANGED <<profile, steady, owned, jobs, delivery, handler, accepted, clock, faults>>
\* The stream turns the new batch, and every new delivery, into a job.
CommitBatch(e) ==
    /\ event[e].state = "listed"
    /\ event' = [event EXCEPT ![e].state = "committed"]
    /\ steady' = steady \cup {<<e, p>> : p \in {q \in event[e].to : q \in Kept /\ endpoint[q].enabled}}
    /\ jobs' = jobs \cup {<<"fanout", e>>}
    /\ UNCHANGED <<profile, owned, delivery, handler, accepted, clock, faults>>

To(w, next) == handler' = [handler EXCEPT ![w] = next]
\* A handler ends: the queue drops the job only when nothing is left to do.
Drops(w) == jobs' = IF w \in Workers THEN jobs \ {handler[w].job} ELSE jobs
Finishes(w) == To(w, NoJob) /\ Drops(w)
Leaves(w) == To(w, NoJob) /\ UNCHANGED jobs

\* A queued job is received again only when its visibility timeout has passed.
Held(job) == \E w \in Workers : handler[w] # NoJob /\ handler[w].job = job
Receives(w, job) ==
    IF w \in Reporters THEN UNCHANGED faults
    ELSE job \in jobs /\ IF Held(job) THEN Fault ELSE UNCHANGED faults

Fanout(w, e) ==
    /\ handler[w] = NoJob /\ event[e].state = "committed" /\ Receives(w, <<"fanout", e>>)
    /\ To(w, [pc |-> "next", job |-> <<"fanout", e>>, left |-> event[e].to])
    /\ UNCHANGED <<profile, steady, owned, event, jobs, delivery, accepted, clock>>

\* An endpoint that is gone, off or already served is passed over.
FanoutNext(w) ==
    /\ handler[w].pc = "next"
    /\ IF handler[w].left = {} THEN Finishes(w)
       ELSE \E p \in handler[w].left :
               /\ To(w, LET next == [handler[w] EXCEPT !.left = @ \ {p}]
                        IN  IF p \in Kept /\ endpoint[p].enabled /\ delivery[handler[w].job[2], p] = NoDelivery
                            THEN [next EXCEPT !.pc = "put"] @@ [p |-> p] ELSE next)
               /\ UNCHANGED jobs
    /\ UNCHANGED <<profile, steady, owned, event, delivery, accepted, clock, faults>>

\* The put expects no delivery of that id; a conflict means it is there.
FanoutPut(w) ==
    LET d == <<handler[w].job[2], handler[w].p>>
    IN  /\ handler[w].pc = "put"
        /\ IF delivery[d] # NoDelivery THEN UNCHANGED <<delivery, jobs>>
           ELSE /\ delivery' = [delivery EXCEPT ![d] = [status |-> "pending", attempts |-> 0, next |-> event[d[1]].at,
                                                        deadline |-> event[d[1]].at + Horizon, lease |-> 0]]
                /\ jobs' = jobs \cup {<<"deliver", d[1], d[2]>>}
        /\ To(w, [pc |-> "next", job |-> handler[w].job, left |-> handler[w].left])
        /\ UNCHANGED <<profile, steady, owned, event, accepted, clock, faults>>

(***************************************************************************)
(* A delivery.                                                             *)
(***************************************************************************)
Deliver(w, d) ==
    /\ handler[w] = NoJob /\ delivery[d] # NoDelivery /\ Receives(w, <<"deliver", d[1], d[2]>>)
    /\ To(w, [pc |-> "decide", job |-> <<"deliver", d[1], d[2]>>, d |-> d, copy |-> delivery[d], fresh |-> TRUE])
    /\ UNCHANGED <<profile, owned, event, steady, jobs, delivery, accepted, clock>>

\* save: a conditional put, which makes every other read of the delivery stale.
Delivering == {"decide", "sign", "post", "finish"}
Save(w, value, next) ==
    LET d == handler[w].d
    IN  /\ delivery' = [delivery EXCEPT ![d] = value]
        /\ handler' = [v \in Handlers |->
              IF v = w THEN next
              ELSE IF handler[v].pc \in Delivering /\ handler[v].d = d THEN [handler[v] EXCEPT !.fresh = FALSE] ELSE handler[v]]

Over(w) ==
    /\ handler[w].pc = "decide" /\ handler[w].copy.status \in Ended
    /\ Finishes(w)
    /\ UNCHANGED <<profile, steady, owned, event, delivery, accepted, clock, faults>>
Expired(w) == clock >= handler[w].copy.deadline
Unready(w) == ~Expired(w) /\ (clock < handler[w].copy.next \/ clock < handler[w].copy.lease)
Decides(w) == handler[w].pc = "decide" /\ handler[w].copy.status \notin Ended
Waits(w) ==
    /\ Decides(w) /\ Unready(w)
    /\ Leaves(w)
    /\ UNCHANGED <<profile, steady, owned, event, delivery, accepted, clock, faults>>
\* Too late, or the endpoint no longer wants it.
GivesUp(w) ==
    LET why == IF Expired(w) THEN "failed" ELSE "disabled"
        p == handler[w].d[2]
    IN  /\ Decides(w) /\ ~Unready(w) /\ (why = "disabled" => ~(p \in Kept /\ endpoint[p].enabled))
        /\ IF handler[w].fresh THEN Save(w, [handler[w].copy EXCEPT !.status = why], NoJob) /\ Drops(w)
           ELSE Leaves(w) /\ UNCHANGED delivery
        /\ UNCHANGED <<profile, steady, owned, event, accepted, clock, faults>>

\* The claim, with the reference to the secret the endpoint had.
Claimed(w) == [handler[w].copy EXCEPT !.status = "delivering", !.lease = clock + Lease, !.attempts = @ + 1]
Claims(w) == Save(w, Claimed(w), [handler[w] EXCEPT !.pc = "sign", !.copy = Claimed(w)] @@ [secret |-> endpoint[handler[w].d[2]].secret])
Claimable(w) == LET p == handler[w].d[2] IN Decides(w) /\ ~Expired(w) /\ ~Unready(w) /\ p \in Kept /\ endpoint[p].enabled
Claim(w) ==
    /\ Claimable(w)
    /\ IF handler[w].fresh THEN Claims(w) /\ UNCHANGED jobs ELSE Leaves(w) /\ UNCHANGED delivery
    /\ UNCHANGED <<profile, owned, event, steady, accepted, clock, faults>>

\* A secret that has been revoked cannot be read; the post is not made.
ReadSecret(w) ==
    /\ handler[w].pc = "sign"
    /\ To(w, [handler[w] EXCEPT !.pc = IF secret[handler[w].secret] = "live" THEN "post" ELSE "finish"] @@ [ok |-> FALSE])
    /\ UNCHANGED <<profile, steady, owned, event, jobs, delivery, accepted, clock, faults>>
\* The receiver accepts or not; the answer arrives within five seconds or is taken for a failure.
Post(w) ==
    /\ handler[w].pc = "post"
    /\ \E took, heard \in BOOLEAN :
          /\ accepted' = IF took THEN accepted \cup {handler[w].d} ELSE accepted
          /\ To(w, [handler[w] EXCEPT !.pc = "finish", !.ok = took /\ heard])
    /\ UNCHANGED <<profile, steady, owned, event, jobs, delivery, clock, faults>>

\* webhookRetry: later, but never past the deadline.
webhookRetry(copy) ==
    IF clock >= copy.deadline THEN [copy EXCEPT !.status = "failed", !.next = copy.deadline, !.lease = 0]
    ELSE [copy EXCEPT !.status = "pending", !.next = IF clock + 1 < copy.deadline THEN clock + 1 ELSE copy.deadline, !.lease = 0]
Finish(w) ==
    LET copy == handler[w].copy
        next == IF handler[w].ok THEN [copy EXCEPT !.status = "delivered", !.next = clock, !.lease = 0] ELSE webhookRetry(copy)
    IN  /\ handler[w].pc = "finish"
        /\ IF handler[w].fresh THEN Save(w, next, NoJob) /\ IF next.status = "pending" THEN UNCHANGED jobs ELSE Drops(w)
           ELSE Leaves(w) /\ UNCHANGED delivery
        /\ UNCHANGED <<profile, steady, owned, event, accepted, clock, faults>>

\* A handler that ends leaves its job to the queue.
HandlerEnds(w) ==
    /\ handler[w] # NoJob /\ Fault
    /\ Leaves(w)
    /\ UNCHANGED <<profile, steady, owned, event, delivery, accepted, clock>>
Tick == profile.events # {} /\ clock < LastTick /\ clock' = clock + 1 /\ UNCHANGED <<profile, steady, owned, sent, faults>>

Next ==
    \/ \E a \in Admins :
          \/ \E p \in Endpoints : Create(a, p) \/ \E op \in {"update", "rotate", "delete"} : Ask(a, p, op)
          \/ CreateCommit(a) \/ Put(a) \/ ReadRegistry(a) \/ Remove(a) \/ Revoke(a) \/ CallEnds(a)
    \/ \E e \in Events : List(e) \/ CommitBatch(e)
    \/ \E w \in Handlers :
          \/ \E e \in Events : Fanout(w, e)
          \/ \E d \in Deliveries : Deliver(w, d)
          \/ FanoutNext(w) \/ FanoutPut(w) \/ Over(w) \/ Waits(w) \/ GivesUp(w) \/ Claim(w) \/ ReadSecret(w)
          \/ Post(w) \/ Finish(w) \/ HandlerEnds(w)
    \/ Tick

Spec == Init /\ [][Next]_vars

\* An endpoint that exists can sign: no interleaving of rotations, deletions and creations revokes
\* the secret it refers to, and the registry lists exactly the endpoints, never more than Limit.
EndpointsAreWhole ==
    /\ \A p \in Kept : secret[endpoint[p].secret] = "live"
    /\ registry = Kept /\ Cardinality(Kept) <= Limit

\* A delivery that has not ended has a job; an endpoint that was listed and has been on ever since
\* has its delivery or the batch still has a job, and is not given up as disabled: no lost
\* acknowledgement, failing receiver or handler forgets an event (fanout, deliver).
NothingIsForgotten ==
    /\ \A d \in Deliveries : delivery[d].status \in {"pending", "delivering"} => <<"deliver", d[1], d[2]>> \in jobs
    /\ \A d \in steady : /\ delivery[d] = NoDelivery => <<"fanout", d[1]>> \in jobs
                         /\ delivery[d].status # "disabled"

\* Two handlers post the same event at once only when one's claim has run out, and what is
\* marked delivered was accepted (deliver).
PostsAreClaimed ==
    /\ \A v, w \in Handlers : v # w /\ handler[v].pc = "post" /\ handler[w].pc = "post" /\ handler[v].d = handler[w].d =>
          clock >= handler[v].copy.lease \/ clock >= handler[w].copy.lease
    /\ \A d \in Deliveries : delivery[d].status = "delivered" => d \in accepted

WebhooksAreKept == EndpointsAreWhole /\ NothingIsForgotten /\ PostsAreClaimed
=============================================================================
