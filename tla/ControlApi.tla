----------------------------- MODULE ControlApi -----------------------------
(* The HTTP API of the control plane. Three doors lead to it: the control   *)
(* Lambda (lambdas/control.ts) and the streaming Lambda (agents-api.ts),    *)
(* both of which AWS IAM guards, and a streaming server that admits API     *)
(* tokens (adapters/agents-http-server.ts). Behind them a request is routed *)
(* (agents-router.ts) and checked against the scopes of its principal       *)
(* (api-permissions.ts); what makes an agent work is charged to its owner's *)
(* rate (core/owner-rate-limiter.ts). Every API instance charges the same   *)
(* counter, by a clock of its own.                                          *)
EXTENDS Naturals, FiniteSets, FiniteSetsExt, TLC

CONSTANTS Requests, \* requests under way at a time
          Sample,   \* the calls that are made, records of Call
          Ops,      \* identities of the operations that are charged
          Limit,    \* charges per minute
          Attempts, \* commits of a charge (20 in the code)
          Uploads,  \* large requests at a time (2 in the code)
          LastMinute, MaxFaults

Scopes == {"agents.read", "agents.write", "responses.write",
           "vaults.read", "vaults.write", "traces.read"}
Methods == {"GET", "POST", "DELETE"}

VARIABLES tokens,  \* per token: whether it was issued and has expired
          request, \* each request: the call, its phase and what it has read
          clock,   \* the minute
          counter, \* the owner's counter: minute, requests, revision
          receipt, \* per operation: the minute and the requests it was charged
          ran,     \* the operations that were carried out, with their principal
          faults

vars == <<tokens, request, clock, counter, receipt, ran, faults>>

-----------------------------------------------------------------------------
(* Routes: for each path of the API, what each method asks of a service.    *)
(* "read" and "write" are of the path's own resource; "infer" makes an      *)
(* agent work when the body carries input; "trace" is read by a scope of    *)
(* its own; "copy" reads one Session to make another.                       *)
On(get, post, delete) ==
    [m \in {x \in Methods : [GET |-> get, POST |-> post, DELETE |-> delete][x] # "-"} |->
        [GET |-> get, POST |-> post, DELETE |-> delete][m]]
ReadOnly == On("read", "-", "-")

\* routeUploadedFiles, routeSkills
FileRoutes ==
    "files" :> On("read", "write", "-") @@ "file" :> On("read", "-", "write")
    @@ "file content" :> ReadOnly
    @@ "skills" :> On("read", "write", "-") @@ "skill" :> On("read", "write", "write")
    @@ "skill content" :> ReadOnly @@ "versions" :> On("read", "write", "-")
    @@ "version" :> On("read", "-", "write")
\* routeWebhook, routeTemplate, the environments and the agents themselves
AgentRoutes ==
    "agents" :> On("read", "write", "-") @@ "agent" :> On("read", "write", "write")
    @@ "webhooks" :> On("read", "write", "-") @@ "webhook" :> On("read", "write", "write")
    @@ "rotate-secret" :> On("-", "write", "-")
    @@ "templates" :> On("read", "write", "-") @@ "template" :> On("read", "write", "write")
    @@ "environment" :> ReadOnly @@ "connection" :> On("-", "write", "-")
    @@ "environment files" :> On("read", "write", "-")
    @@ "models" :> ReadOnly @@ "agent models" :> ReadOnly
\* routeVault
VaultRoutes ==
    "vaults" :> On("read", "write", "-") @@ "vault" :> On("read", "-", "write")
    @@ "credentials" :> On("read", "write", "-") @@ "credential" :> On("read", "write", "write")
\* routeSession
SessionRoutes ==
    "sessions" :> On("read", "infer", "-") @@ "session" :> On("read", "write", "write")
    @@ "import" :> On("read", "write", "-") @@ "fork" :> On("-", "copy", "-")
    @@ "events" :> On("read", "infer", "-") @@ "traces" :> On("trace", "-", "-")
    @@ "runtime" :> ReadOnly @@ "lineage" :> ReadOnly @@ "subagents" :> ReadOnly
    @@ "turns" :> ReadOnly @@ "items" :> ReadOnly @@ "artifacts" :> ReadOnly
    @@ "artifact" :> On("read", "-", "write")
Routes == FileRoutes @@ AgentRoutes @@ VaultRoutes @@ SessionRoutes
\* The control Lambda alone: plugins, connections and their grants,
\* connection sets, source bindings, thread subscriptions, schedules and
\* publications, all owned by whoever signed the request.
OperatorRoutes ==
    "plugins" :> ReadOnly @@ "profiles" :> ReadOnly @@ "consumers" :> ReadOnly
    @@ "integrations" :> On("read", "write", "-") @@ "authorizations" :> On("-", "write", "-")
    @@ "bindings" :> On("read", "write", "-") @@ "subscriptions" :> On("read", "write", "-")
    @@ "schedules" :> On("read", "write", "write") @@ "publications" :> On("-", "write", "-")
\* Without a principal: discovery, schemas, the OAuth callback, shares.
PublicRoutes == {"health", "discovery", "openapi", "schemas", "callback", "share"}

VaultPaths == DOMAIN VaultRoutes
Streams(c) == c.stream /\ c.path \in {"sessions", "events"}
Infers(c) == c.input /\ Routes[c.path][c.method] \in {"infer", "copy"}

\* requireRoutePermission: by the method and the segments of the path, before
\* the call is dispatched. Of each set one scope must be held.
RoutePermission(path, method) ==
    IF path = "traces" /\ method = "GET" THEN {{"traces.read", "agents.read"}}
    ELSE IF path = "models" THEN {{"agents.read"}}
    ELSE {{IF path \in VaultPaths
           THEN IF method = "GET" THEN "vaults.read" ELSE "vaults.write"
           ELSE IF method = "GET" THEN "agents.read" ELSE "agents.write"}}
         \cup IF path = "fork" /\ method = "POST" THEN {{"agents.read"}} ELSE {}
\* requireInferencePermission, by the body of a creation, a fork or events.
InferencePermission(c) == IF Infers(c) THEN {{"responses.write"}} ELSE {}
Holds(scopes, demands) == \A d \in demands : d \cap scopes # {}

\* What the token door lets a principal with these scopes do.
Lets(scopes, c) ==
    /\ Holds(scopes, RoutePermission(c.path, c.method))
    /\ c.method \in DOMAIN Routes[c.path]
    /\ Holds(scopes, InferencePermission(c))

Call == [door : {"control", "function", "server"}, path : DOMAIN Routes \cup DOMAIN OperatorRoutes,
         method : Methods, input : BOOLEAN, stream : BOOLEAN, large : BOOLEAN, valid : BOOLEAN]
Tokens == SUBSET Scopes \ {{}}

Assumptions ==
    /\ Sample \subseteq Call
    /\ {Limit, Attempts, Uploads, LastMinute, MaxFaults} \subseteq Nat

Idle == [phase |-> "idle", call |-> "none", op |-> "none", tries |-> 0,
         read |-> [minute |-> 0, requests |-> 0, revision |-> 0], now |-> 0, slot |-> FALSE, n |-> 1]
Uncharged == [minute |-> 0, n |-> 0]

TypeOK ==
    /\ tokens \in {"none", "valid", "expired"}
    /\ \A r \in Requests : request[r].phase \in {"idle", "receipt", "counter", "commit",
                                                 "check", "run", "streaming"}
    /\ clock \in 1 .. LastMinute
    /\ counter.minute \in 0 .. LastMinute /\ counter.requests \in 0 .. Limit
    /\ receipt \in [Ops -> [minute : 0 .. LastMinute, n : 0 .. Limit]] /\ ran \subseteq Ops
    /\ faults \in 0 .. MaxFaults

Init ==
    /\ tokens = "none" /\ request = [r \in Requests |-> Idle] /\ clock = 1
    /\ counter = [minute |-> 0, requests |-> 0, revision |-> 0]
    /\ receipt = [o \in Ops |-> Uncharged] /\ ran = {} /\ faults = 0

Fault == faults < MaxFaults /\ faults' = faults + 1
Set(r, value) == request' = [request EXCEPT ![r] = value]
Goto(r, phase) == request' = [request EXCEPT ![r].phase = phase]
Answer(r) == Set(r, Idle)

\* issue: IAM authenticates it; the token lasts fifteen minutes.
Issue == /\ tokens # "valid" /\ tokens' = "valid"
         /\ UNCHANGED <<request, clock, counter, receipt, ran, faults>>
Expire == /\ tokens = "valid" /\ tokens' = "expired"
          /\ UNCHANGED <<request, clock, counter, receipt, ran, faults>>
Tick == /\ clock < LastMinute /\ clock' = clock + 1
        /\ UNCHANGED <<tokens, request, counter, receipt, ran, faults>>

\* authenticate, principal: IAM holds every scope, a token those it was
\* issued with, all of them at most, while it has not expired.
Authenticates(c) == c.door = "server" => tokens = "valid"

\* Two large requests at a time: a multipart parser holds copies of a file.
Reserved == {r \in Requests : request[r].slot}
HasCapacity(c) == c.large => Cardinality(Reserved) < Uploads

\* A new Session, also a fork or an import, is charged, and so are messages.
Charged(c) ==
    /\ c.method = "POST"
    /\ c.path \in {"sessions", "fork", "import"} \/ (c.path = "events" /\ c.input)
\* A request comes in and is routed; it is answered at once when no route,
\* scope, capacity or body lets it go on. Streams need a door that streams.
Admissible(c) ==
    /\ IF c.path \in DOMAIN OperatorRoutes
       THEN c.door = "control" /\ c.method \in DOMAIN OperatorRoutes[c.path]
       ELSE /\ Authenticates(c) /\ Lets(Scopes, c)
            /\ Streams(c) => c.door # "control"
    /\ c.door = "server" => HasCapacity(c)
    /\ c.valid
Arrive(r, c, op, n) ==
    /\ request[r].phase = "idle" /\ Admissible(c)
    /\ LET arrived == [Idle EXCEPT !.call = c, !.slot = c.large /\ c.door = "server"] IN
       Set(r, IF Charged(c) THEN [arrived EXCEPT !.phase = "receipt", !.op = op, !.n = n]
              ELSE [arrived EXCEPT !.phase = "run"])
    /\ UNCHANGED <<tokens, clock, counter, receipt, ran, faults>>

-----------------------------------------------------------------------------
(* admit *)

\* same: a receipt admits the repetition of the same request only.
Repeats(r) == receipt[request[r].op] # Uncharged
Admitted(r) == IF receipt[request[r].op].n = request[r].n THEN Goto(r, "run") ELSE Answer(r)
ReadReceipt(r) ==
    /\ request[r].phase = "receipt"
    /\ IF Repeats(r) THEN Admitted(r) ELSE Goto(r, "counter")
    /\ UNCHANGED <<tokens, clock, counter, receipt, ran, faults>>
\* The counter, read with this instance's clock, which may be a minute behind.
ReadCounter(r, now) ==
    /\ request[r].phase = "counter" /\ now \in {clock - 1, clock} \ {0}
    /\ request' = [request EXCEPT ![r].phase = "commit", ![r].read = counter, ![r].now = now]
    /\ UNCHANGED <<tokens, clock, counter, receipt, ran, faults>>

\* Mutant: the minute is this clock's, also when another's is ahead.
MutantMinute(read, now) == now
\* Clock skew must not reset a newer counter backwards.
Minute(read, now) == IF read.minute > now THEN read.minute ELSE now
Total(q, minute) == (IF q.read.minute = minute THEN q.read.requests ELSE 0) + q.n
\* Mutant: what is charged now is not counted.
MutantExceeds(q, minute) == Total(q, minute) - q.n >= Limit
Exceeds(q, minute) == Total(q, minute) > Limit

\* The counter and the receipt change together, if neither changed since it
\* was read; the answer can be lost.
Commit(r) ==
    LET q == request[r]
        minute == Minute(q.read, q.now)
        total == Total(q, minute)
    IN  /\ q.phase = "commit"
        /\ IF Exceeds(q, minute)
           THEN Answer(r) /\ UNCHANGED <<counter, receipt, faults>>
           ELSE \/ /\ counter.revision = q.read.revision /\ ~Repeats(r)
                   /\ counter' = [minute |-> minute, requests |-> total,
                                  revision |-> counter.revision + 1]
                   /\ receipt' = [receipt EXCEPT ![q.op] = [minute |-> minute, n |-> q.n]]
                   /\ \/ Goto(r, "run") /\ UNCHANGED faults
                      \/ Fault /\ request' = [request EXCEPT ![r].phase = "check",
                                                             ![r].tries = Attempts]
                \/ /\ counter.revision # q.read.revision \/ Repeats(r)
                   /\ request' = [request EXCEPT ![r].phase = "check", ![r].tries = @ + 1]
                   /\ UNCHANGED <<counter, receipt, faults>>
        /\ UNCHANGED <<tokens, clock, ran>>
\* After a failed commit: it may have been made, by this attempt or by a
\* repetition of the request; only a conflict is tried again.
Check(r) ==
    LET q == request[r] IN
    /\ q.phase = "check"
    /\ IF Repeats(r) THEN Admitted(r)
       ELSE IF q.tries >= Attempts THEN Answer(r) ELSE Goto(r, "receipt")
    /\ UNCHANGED <<tokens, clock, counter, receipt, ran, faults>>

\* The service does what was asked.
Run(r) ==
    LET q == request[r] IN
    /\ q.phase = "run"
    /\ ran' = IF Charged(q.call) THEN ran \cup {q.op} ELSE ran
    /\ IF q.call.path \notin DOMAIN OperatorRoutes /\ Streams(q.call)
       THEN Goto(r, "streaming") ELSE Answer(r)
    /\ UNCHANGED <<tokens, clock, counter, receipt, faults>>
\* The stream ends, or its reader goes away: cleanup either way.
EndStream(r) ==
    /\ request[r].phase = "streaming" /\ Answer(r)
    /\ UNCHANGED <<tokens, clock, counter, receipt, ran, faults>>
\* A service throws: the slot is given back with the error.
Fail(r) ==
    /\ request[r].phase # "idle" /\ Fault /\ Answer(r)
    /\ UNCHANGED <<tokens, clock, counter, receipt, ran>>

Serve(r) ==
    \/ \E c \in Sample, op \in Ops, n \in 1 .. 2 : Arrive(r, c, op, n)
    \/ ReadReceipt(r) \/ (\E now \in 1 .. LastMinute : ReadCounter(r, now))
    \/ Commit(r) \/ Check(r) \/ Run(r) \/ EndStream(r) \/ Fail(r)
Next == Issue \/ Expire \/ Tick \/ \E r \in Requests : Serve(r)
Spec == Init /\ [][Next]_vars

-----------------------------------------------------------------------------
\* Between them the table of permissions, which sees methods and paths, and
\* the routers, which decide what is called, leave no way around a scope:
\* without a scope to write nothing is changed, without responses.write no
\* agent works, and who may only read traces reads nothing else.
ScopesHold ==
    \A path \in DOMAIN Routes, method \in Methods, input \in BOOLEAN, scopes \in Tokens :
      LET c == [path |-> path, method |-> method, input |-> input] IN
      Lets(scopes, c) =>
        /\ {"agents.write", "vaults.write"} \cap scopes = {} => Routes[path][method] \in {"read", "trace"}
        /\ "responses.write" \notin scopes => ~Infers(c)
        /\ scopes = {"traces.read"} => Routes[path][method] = "trace"

\* The counter is the sum of the receipts of its minute, and no minute, past
\* ones included, was charged more than the limit, whichever instances'
\* clocks did it and however often a request was repeated; nothing that is
\* charged runs without a receipt.
ChargesAreTrue ==
    LET Of(m) == MapThenSumSet(LAMBDA o : receipt[o].n, {o \in Ops : receipt[o].minute = m}) IN
    /\ \A m \in 1 .. LastMinute : Of(m) <= Limit
    /\ counter.requests = Of(counter.minute)
    /\ \A o \in Ops : receipt[o].minute <= counter.minute
    /\ \A o \in ran : receipt[o] # Uncharged
=============================================================================
