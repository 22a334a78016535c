--------------------------- MODULE ConnectionAdmin ---------------------------
(***************************************************************************)
(* The commands that set up integrations: rat-things slack-events,         *)
(* connect --oauth --wait, connection reconnect --oauth --wait and         *)
(* set-source-event-policy, the requests of the control API they send, the *)
(* OAuth authorizations and their callbacks, and the rows that              *)
(* DynamoIntegrationStore keeps for one owner and one Slack workspace.     *)
(*                                                                         *)
(* A command sends one request at a time and gives up on it after thirty   *)
(* seconds; the request may take effect later (late).  A step ends where a *)
(* command awaits an answer or a handler awaits the table.  Rows that are  *)
(* never deleted or changed once written (sets, a binding's agent and set) *)
(* are read together.  The two writes of a revocation, and a test or a     *)
(* rotation that writes back a row it read, are IntegrationConnections'.   *)
(***************************************************************************)
EXTENDS Integers, FiniteSets

CONSTANTS
    Clis,          \* commands under way on operators' machines
    Handlers,      \* invocations of the callback
    Connections,   \* Slack connections of the workspace: ids that may be drawn
    Accounts,      \* provider accounts of the workspace
    Agents,
    Free,          \* none of these
    LastCommand,   \* bound on the commands that are started
    LastAuth,      \* bound on the authorizations
    Ttl, LastTick, \* life of an authorization, bound on the clock
    LastPolicy,    \* bound on the event policies
    Profiles,      \* the commands that are used together
    MaxFaults      \* bound on lost requests and crashed callbacks

Assumptions ==
    /\ Free \notin Connections \union Accounts \union Agents
    /\ {LastCommand, LastAuth, Ttl, LastTick, LastPolicy, MaxFaults} \subseteq Nat

VARIABLES
    uses,       \* the commands of this behaviour
    row,        \* CONNECTION# items with their grants and health
    sets,       \* SET# and SET_NAME# items
    owned,      \* the SOURCE# item of the owner's partition
    routed,     \* the BINDING# item that incoming mentions are matched with
    auths,      \* OAUTH# items
    cli,        \* the command each operator runs
    late,       \* requests that their command no longer waits for
    callback,   \* invocations of GET /v1/integrations/oauth/callback
    installs,   \* history: the connections an authorization installed or renewed
    clock, started, faults

vars == <<uses, row, sets, owned, routed, auths, cli, late, callback, installs, clock, started, faults>>
tables == <<uses, row, sets, owned, routed, auths>>

-----------------------------------------------------------------------------
(* States *)

Statuses == {"none", "active", "expired", "revoked"}
Row == [status : Statuses, account : Accounts \union {Free}, preset : {"read-only", "read-write"}, healthy : BOOLEAN]
NoRow == [status |-> "none", account |-> Free, preset |-> "read-only", healthy |-> FALSE]

SetNames == {"slack-events", "other"}
Binding == [set : SetNames, agent : Agents, policy : 0 .. LastPolicy]

Auth == [open : BOOLEAN, target : Connections \union {Free}, expires : Nat]

\* grant, set, bind and policy change rows; start opens an authorization.
Request == [kind : {"none", "grant", "set", "bind", "read", "policy", "start"},
            c : Connections \union {Free}, agent : Agents \union {Free},
            policy : 0 .. LastPolicy, seen : SUBSET Binding]
NoRequest == [kind |-> "none", c |-> Free, agent |-> Free, policy |-> 0, seen |-> {}]

Commands == {"none", "slack-events", "connect", "reconnect", "policy"}
Cli == [cmd : Commands, pc : {"idle", "list", "bindings", "send", "answer", "wait"},
        c : Connections \union {Free}, agent : Agents \union {Free},
        preset : {"read-only", "read-write"},       \* as listed
        found : BOOLEAN,                            \* a binding to reuse was listed
        known : SUBSET Connections,                 \* the ids listed before the authorization was opened
        auth : 0 .. LastAuth,                       \* the authorization opened
        changed : BOOLEAN,                          \* the connection was written since its detail was read
        lowered : BOOLEAN,                          \* its grant was lowered since the command began
        own : BOOLEAN,                              \* no request of the command failed to answer
        request : Request,
        said : {"none", "enabled", "failed", "printed", "expired", "changed"}]
NoCli == [cmd |-> "none", pc |-> "idle", c |-> Free, agent |-> Free, preset |-> "read-only",
          found |-> FALSE, known |-> {},
          auth |-> 0, changed |-> FALSE, lowered |-> FALSE, own |-> TRUE, request |-> NoRequest, said |-> "none"]

Callback == [pc : {"idle", "store"}, auth : 0 .. LastAuth, account : Accounts \union {Free}]
NoCallback == [pc |-> "idle", auth |-> 0, account |-> Free]

\* Types of the rows, the commands and the callbacks.
TypeOK ==
    /\ uses \in Profiles
    /\ row \in [Connections -> Row]
    /\ sets \in SUBSET [name : SetNames, c : Connections]
    /\ owned \in SUBSET Binding /\ routed \in SUBSET Binding
    /\ DOMAIN auths \subseteq 1 .. LastAuth /\ \A n \in DOMAIN auths : auths[n] \in Auth
    /\ cli \in [Clis -> Cli]
    /\ late \subseteq Request
    /\ callback \in [Handlers -> Callback]
    /\ installs \in [1 .. LastAuth -> 0 .. Cardinality(Handlers)]
    /\ clock \in 0 .. LastTick /\ started \in 0 .. LastCommand /\ faults \in 0 .. MaxFaults

\* One connection or, for slack-events, each is installed; a set of another
\* name may hold one already, where a command reads sets (connect and reconnect read none).
Init ==
    /\ uses \in Profiles
    /\ LET c == CHOOSE d \in Connections : TRUE
           account == CHOOSE a \in Accounts : TRUE
       IN /\ row = [d \in Connections |-> IF d # c /\ "slack-events" \notin uses THEN NoRow
                       ELSE [status |-> "active", account |-> account, preset |-> "read-only", healthy |-> TRUE]]
          /\ sets \in {{}} \union {{[name |-> "other", c |-> c]} : u \in uses \cap {"slack-events", "policy"}}
          /\ owned = {}
    /\ routed = owned /\ auths = <<>>
    /\ cli = [p \in Clis |-> NoCli] /\ late = {}
    /\ callback = [h \in Handlers |-> NoCallback]
    /\ installs = [n \in 1 .. LastAuth |-> 0]
    /\ clock = 0 /\ started = 0 /\ faults = 0

Fault == faults < MaxFaults /\ faults' = faults + 1
At(p, pc) == cli[p].pc = pc
Installed(c) == row[c].status # "none"
Ended(command, said) ==
    [NoCli EXCEPT !.cmd = command.cmd, !.c = command.c, !.agent = command.agent,
                  !.lowered = command.lowered, !.own = command.own, !.said = said]
Says(p, said) == cli' = [cli EXCEPT ![p] = Ended(cli[p], said)]
Sends(p, request) == cli' = [cli EXCEPT ![p].pc = "answer", ![p].request = request]
Post(kind, c, agent) == [NoRequest EXCEPT !.kind = kind, !.c = c, !.agent = agent]

\* Whoever reads the connection's detail again finds other timestamps.
Touched(commands, c) ==
    [p \in Clis |-> IF commands[p].cmd = "reconnect" /\ commands[p].c = c THEN [commands[p] EXCEPT !.changed = TRUE] ELSE commands[p]]

-----------------------------------------------------------------------------
(* slack-events *)

Start(p, cmd, c, agent) ==
    /\ At(p, "idle") /\ cmd \in uses /\ started < LastCommand
    /\ started' = started + 1
    /\ cli' = [cli EXCEPT ![p] = [NoCli EXCEPT !.cmd = cmd, !.pc = "list", !.c = c, !.agent = agent]]
    /\ UNCHANGED <<tables, late, callback, installs, clock, faults>>

StartCommand(p) ==
    \/ \E c \in Connections, agent \in Agents : Installed(c) /\ Start(p, "slack-events", c, agent)
    \/ \E c \in Connections : Installed(c) /\ Start(p, "reconnect", c, Free)
    \/ Start(p, "connect", Free, Free)
    \/ owned # {} /\ Start(p, "policy", Free, Free)

\* The connection is looked up in the owner's list.
ListConnections(p) ==
    /\ At(p, "list") /\ cli[p].cmd = "slack-events"
    /\ IF row[cli[p].c].status = "active"
         THEN cli' = [cli EXCEPT ![p].pc = "bindings", ![p].preset = row[cli[p].c].preset]
         ELSE Says(p, "failed")
    /\ UNCHANGED <<tables, late, callback, installs, clock, started, faults>>

SetHolds(name, c) == [name |-> name, c |-> c] \in sets

\* A binding is reused when its set holds the connection and its Agent is the one asked for.
Reusable(p, binding) == SetHolds(binding.set, cli[p].c) /\ binding.agent = cli[p].agent


ListBindings(p) ==
    /\ At(p, "bindings")
    /\ LET me == [cli[p] EXCEPT !.found = owned # {}]
       IN IF \E binding \in owned : ~Reusable(p, binding) THEN Says(p, "failed")
          ELSE IF me.preset = "read-only"
            THEN cli' = [cli EXCEPT ![p] = [me EXCEPT !.pc = "answer", !.request = Post("grant", me.c, me.agent)]]
          ELSE IF me.found THEN Says(p, "enabled")
          ELSE Sends(p, Post("set", me.c, me.agent))
    /\ UNCHANGED <<tables, late, callback, installs, clock, started, faults>>

\* What an answered request is followed by.
Follow(p) ==
    CASE cli[p].request.kind = "grant" /\ ~cli[p].found -> Sends(p, Post("set", cli[p].c, cli[p].agent))
      [] cli[p].request.kind = "set" -> Sends(p, Post("bind", cli[p].c, cli[p].agent))
      [] cli[p].request.kind = "policy" -> Says(p, "changed")
      [] OTHER -> Says(p, "enabled")

-----------------------------------------------------------------------------
(* connect and connection reconnect, with --oauth --wait; set-source-event-policy *)

\* The ids that exist, or the detail of the connection; then the authorization is opened.
ListForOAuth(p) ==
    /\ At(p, "list") /\ cli[p].cmd \in {"connect", "reconnect"}
    /\ cli' = [cli EXCEPT ![p].pc = "answer", ![p].known = {c \in Connections : Installed(c)},
                          ![p].changed = FALSE, ![p].request = Post("start", cli[p].c, Free)]
    /\ UNCHANGED <<tables, late, callback, installs, clock, started, faults>>

SendPolicy(p) ==
    /\ At(p, "list") /\ cli[p].cmd = "policy"
    /\ \E v \in 1 .. LastPolicy : Sends(p, [Post("read", Free, Free) EXCEPT !.policy = v])
    /\ UNCHANGED <<tables, late, callback, installs, clock, started, faults>>

\* Polled every two seconds until the authorization expires.
Found(p) ==
    IF cli[p].cmd = "connect" THEN \E c \in Connections : Installed(c) /\ c \notin cli[p].known
    ELSE cli[p].changed /\ row[cli[p].c].status = "active" /\ row[cli[p].c].healthy

Poll(p) ==
    /\ At(p, "wait")
    /\ \/ clock < auths[cli[p].auth].expires /\ Found(p) /\ Says(p, "printed")
       \/ clock >= auths[cli[p].auth].expires /\ Says(p, "expired")
    /\ UNCHANGED <<tables, late, callback, installs, clock, started, faults>>

-----------------------------------------------------------------------------
(* The control API *)

\* replaceGrant keeps the grant's id; the last writer wins.
ReplaceGrant(request) ==
    /\ row' = [row EXCEPT ![request.c].preset = "read-write"]
    /\ UNCHANGED <<uses, sets, owned, routed, auths, started>>

\* SET_NAME# of putConnectionSet: every createSet draws an id of its own.
NameFree(name) == \A set \in sets : set.name # name

CreateSet(request) ==
    /\ NameFree("slack-events")
    /\ sets' = sets \union {[name |-> "slack-events", c |-> request.c]}
    /\ UNCHANGED <<uses, row, owned, routed, auths, started>>

\* CLAIM# of putSourceBinding: one binding for the workspace, whoever owns it.
SelectorFree == routed = {}

CreateBinding(request) ==
    /\ SelectorFree
    /\ LET binding == [set |-> "slack-events", agent |-> request.agent, policy |-> 0]
       IN owned' = owned \union {binding} /\ routed' = routed \union {binding}
    /\ UNCHANGED <<uses, row, sets, auths, started>>

\* updateSourceEventPolicy replaces both items if each still holds what was read.
UpdatePolicy(request) ==
    /\ owned = request.seen /\ routed = request.seen
    /\ owned' = {[binding EXCEPT !.policy = request.policy] : binding \in owned}
    /\ routed' = owned'
    /\ UNCHANGED <<uses, row, sets, auths, started>>

Latest == Cardinality(DOMAIN auths) + 1

\* startAuthorization: server-side state, bound to the connection it may renew.
OpenAuthorization(request) ==
    /\ Latest <= LastAuth
    /\ (request.c # Free => row[request.c].status # "revoked")
    /\ auths' = [n \in 1 .. Latest |-> IF n < Latest THEN auths[n]
                     ELSE [open |-> TRUE, target |-> request.c, expires |-> clock + Ttl]]
    /\ UNCHANGED <<uses, row, sets, owned, routed, started>>

Effect(request) ==
    \/ request.kind = "grant" /\ ReplaceGrant(request)
    \/ request.kind = "set" /\ CreateSet(request)
    \/ request.kind = "bind" /\ CreateBinding(request)
    \/ request.kind = "policy" /\ UpdatePolicy(request)
    \/ request.kind = "start" /\ OpenAuthorization(request)

Refused(request) ==
    CASE request.kind = "set" -> ~NameFree("slack-events")
      [] request.kind = "bind" -> ~SelectorFree
      [] request.kind = "policy" -> owned # request.seen \/ routed # request.seen
      [] request.kind = "start" -> request.c # Free /\ row[request.c].status = "revoked"
      [] OTHER -> FALSE

\* The handler of the policy reads the binding before it writes both items.
ReadPolicy(p) ==
    /\ At(p, "answer") /\ cli[p].request.kind = "read"
    /\ Sends(p, [cli[p].request EXCEPT !.kind = "policy", !.seen = owned])
    /\ UNCHANGED <<tables, late, callback, installs, clock, started, faults>>

Serve(p) ==
    /\ At(p, "answer") /\ cli[p].request.kind # "read"
    /\ LET request == cli[p].request
       IN \/ /\ Effect(request)
             /\ IF request.kind = "start" THEN cli' = [cli EXCEPT ![p].pc = "wait", ![p].auth = Latest]
                ELSE Follow(p)
          \/ Refused(request) /\ Says(p, "failed") /\ UNCHANGED <<tables, started>>
    /\ UNCHANGED <<late, callback, installs, clock, faults>>

\* The command ends without an answer; the handler may still be at work.
GiveUp(p) ==
    /\ At(p, "answer") /\ Fault
    /\ cli' = [cli EXCEPT ![p] = [Ended(cli[p], "failed") EXCEPT !.own = FALSE]]
    /\ late' = late \union {cli[p].request}
    /\ UNCHANGED <<tables, callback, installs, clock, started>>

ServeLate ==
    /\ \E request \in late : Effect(request) /\ late' = late \ {request}
    /\ UNCHANGED <<cli, callback, installs, clock, faults>>

-----------------------------------------------------------------------------
(* OAuthAuthorizationService.complete *)

\* consume deletes the item and returns what it held.
Consumed(n) == [auths EXCEPT ![n].open = FALSE]

\* The browser may deliver a callback twice.
Consume(h) ==
    /\ callback[h].pc = "idle"
    /\ \E n \in DOMAIN auths, account \in Accounts :
         /\ auths[n].open
         /\ auths' = Consumed(n)
         /\ callback' = [callback EXCEPT ![h] =
              IF clock < auths[n].expires THEN [pc |-> "store", auth |-> n, account |-> account] ELSE NoCallback]
    /\ UNCHANGED <<uses, row, sets, owned, routed, cli, late, installs, clock, started, faults>>

SameAccount(c, account) == row[c].account = account

Active(account, preset) == [status |-> "active", account |-> account, preset |-> preset, healthy |-> TRUE]

\* The code is exchanged, then the connection the authorization is bound to is renewed, or a
\* new one created with the access that was asked for.
Store(h) ==
    /\ callback[h].pc = "store"
    /\ LET n == callback[h].auth
           account == callback[h].account
           c == auths[n].target
           Writes(d, preset) ==
             /\ row' = [row EXCEPT ![d] = Active(account, preset)]
             /\ installs' = [installs EXCEPT ![n] = @ + 1]
             /\ cli' = Touched(cli, d)
       IN \/ c # Free /\ row[c].status # "revoked" /\ SameAccount(c, account) /\ Writes(c, row[c].preset)
          \/ c = Free /\ \E d \in Connections, preset \in {"read-only", "read-write"} :
               ~Installed(d) /\ Writes(d, preset)
          \/ UNCHANGED <<row, installs, cli>>
    /\ callback' = [callback EXCEPT ![h] = NoCallback]
    /\ UNCHANGED <<uses, sets, owned, routed, auths, late, clock, started, faults>>

-----------------------------------------------------------------------------
(* Other requests of the owner, and time *)

\* rename, test, revoke and grant, each served at once.  A rename or a test matters to a reconnect.
Administer(c) ==
    /\ Installed(c)
    /\ \/ "reconnect" \in uses /\ cli' = Touched(cli, c) /\ UNCHANGED row        \* rename
       \/ /\ "reconnect" \in uses /\ row[c].status # "revoked"                   \* test
          /\ cli' = Touched(cli, c)
          /\ \/ row' = [row EXCEPT ![c].status = "active", ![c].healthy = TRUE]
             \/ row' = [row EXCEPT ![c].status = "expired", ![c].healthy = FALSE]
             \/ row' = [row EXCEPT ![c].healthy = FALSE]
       \/ row' = [row EXCEPT ![c].status = "revoked"] /\ cli' = Touched(cli, c)  \* revoke
       \/ /\ row' = [row EXCEPT ![c].preset = "read-only"]                       \* grant --file
          /\ cli' = [p \in Clis |-> IF cli[p].c = c THEN [cli[p] EXCEPT !.lowered = TRUE] ELSE cli[p]]
    /\ UNCHANGED <<uses, sets, owned, routed, auths, late, callback, installs, clock, started, faults>>

\* bind-source --file with a set that was made by hand.
BindSource ==
    /\ SelectorFree /\ \E set \in sets : set.name = "other"
    /\ \E agent \in Agents : owned' = owned \union {[set |-> "other", agent |-> agent, policy |-> 0]}
    /\ routed' = owned'
    /\ UNCHANGED <<uses, row, sets, auths, cli, late, callback, installs, clock, started, faults>>

Tick ==
    /\ DOMAIN auths # {} /\ clock < LastTick /\ clock' = clock + 1
    /\ UNCHANGED <<tables, cli, late, callback, installs, started, faults>>

Next ==
    \/ \E p \in Clis : StartCommand(p) \/ ListConnections(p) \/ ListBindings(p) \/ ListForOAuth(p) \/ SendPolicy(p)
    \/ \E p \in Clis : Poll(p) \/ ReadPolicy(p) \/ Serve(p) \/ GiveUp(p)
    \/ \E h \in Handlers : Consume(h) \/ Store(h)
    \/ \E c \in Connections : Administer(c)
    \/ BindSource \/ ServeLate \/ Tick

Spec == Init /\ [][Next]_vars

-----------------------------------------------------------------------------
(* Properties *)

\* A command that reported "enabled" left the workspace's mentions routed to its Agent through a set
\* that holds its connection, whatever other commands and late requests did meanwhile; and its grant
\* is high unless somebody lowered it.
EventsAreRouted ==
    \A p \in Clis : cli[p].said = "enabled" =>
        /\ \E binding \in routed : binding.agent = cli[p].agent /\ SetHolds(binding.set, cli[p].c)
        /\ row[cli[p].c].preset = "read-write" \/ cli[p].lowered

\* One binding at most serves the workspace, it is the one its owner sees, and its set exists once.
BindingIsOne ==
    /\ owned = routed /\ Cardinality(routed) <= 1
    /\ \A binding \in routed : Cardinality({set \in sets : set.name = binding.set}) = 1

\* However often a browser delivers its callback, an authorization installs or renews one connection.
AuthorizedOnce == \A n \in 1 .. LastAuth : installs[n] <= 1

\* docs/api.md: slack-events "creates or reuses the owner Connection Set/source binding".  So a
\* command that fails although each of its requests was answered, and its connection is active,
\* found the workspace routed otherwise.
\* It does not hold: README.md, section 7.
FailsForAReason ==
    \A p \in Clis : cli[p].cmd = "slack-events" /\ cli[p].said = "failed" /\ cli[p].own =>
        row[cli[p].c].status # "active" \/ \E binding \in owned : ~Reusable(p, binding)

AdminIsSafe == EventsAreRouted /\ BindingIsOne /\ AuthorizedOnce
=============================================================================
