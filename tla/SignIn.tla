------------------------------ MODULE SignIn ------------------------------
(***************************************************************************)
(* The ChatGPT sign-in of the local workspace and the processes around it: *)
(* the local service keeps at most one sign-in open (LocalSubscription),   *)
(* the desktop's console server forwards the window's requests and         *)
(* remembers what it must cancel before it exits (console-server.ts),      *)
(* `rat-things login` talks to the service itself, and each of the two     *)
(* either finds a running service or starts one it then owns               *)
(* (connectLocalWorkspace).                                                *)
(*                                                                         *)
(* A sign-in's id is a number the window takes for each new flow; 0 is the *)
(* command's own.  A request is a record of link; the service may read the *)
(* requests in any order, and an answer may be given up by whoever waits.  *)
(* Polling of the account, URLs and the codex process behind a sign-in     *)
(* are abstracted to whether the sign-in is starting or open.              *)
(***************************************************************************)
EXTENDS Integers, FiniteSets

CONSTANTS
    LastId,      \* bound: sign-in flows the window begins
    LastPost,    \* bound: sign-in requests the window sends
    LastService, \* bound: local services started one after another
    MaxFaults    \* bound: requests given up, starts failing, services stopped, signals

Assumptions == {LastId, LastPost, LastService, MaxFaults} \subseteq Nat

VARIABLES
    service,   \* n counts the services started, by is who owns the running one
    login,     \* the service's sign-in: {} or {[id, open]}
    failing,   \* ids of closed starts whose own failure is still to run
    signed,    \* the account is signed in
    console,   \* the console server
    window,    \* the desktop's LoginFlow
    link,      \* the requests between them
    posts,     \* sign-in requests the window has sent: the last record's number
    cli,       \* `rat-things login`
    overtaken, \* ids cancelled while a request to open them was still unread
    faults

vars == <<service, login, failing, signed, console, window, link, posts, cli, overtaken, faults>>

CliId == 0
Request == [kind : {"post", "delete"}, from : {"window", "proxy", "nobody", "stop", "cli"},
            id : 0..LastId, rec : 0..LastPost, already : BOOLEAN, n : 1..LastService,
            at : {"reading", "sent", "joined", "ok", "refused", "failed"}]
Record == [id : 1..LastId, rec : 1..LastPost, n : 1..LastService]
Lookup == [at : {"none", "looked", "got"}, n : 0..LastService, owned : BOOLEAN]
NoLookup == [at |-> "none", n |-> 0, owned |-> FALSE]
NoFlow == [id |-> 0, pending |-> "none", url |-> FALSE]

TypeOK ==
    /\ service \in [n : 0..LastService, by : {"none", "console", "cli", "serve"}]
    /\ login \subseteq [id : 0..LastId, open : BOOLEAN] /\ Cardinality(login) <= 1
    /\ failing \subseteq 0..LastId
    /\ signed \in BOOLEAN
    /\ console.phase \in {"up", "stopping", "cleaning", "closed"}
    /\ console.n \in 0..LastService /\ console.owned \in 0..LastService
    /\ console.lookup \in Lookup /\ console.tracked \subseteq Record /\ console.code \in {0, 1}
    /\ window.flow \in [id : 0..LastId, pending : {"none", "post", "delete"}, url : BOOLEAN]
    /\ window.last \in 0..LastId
    /\ link \subseteq Request
    /\ posts \in 0..LastPost
    /\ cli.pc \in {"idle", "lookup", "asking", "posting", "polling", "deleting", "closing", "done"}
    /\ cli.lookup \in Lookup /\ cli.cut \in BOOLEAN
    /\ overtaken \subseteq 0..LastId
    /\ faults \in 0..MaxFaults

Init ==
    /\ service = [n |-> 0, by |-> "none"]
    /\ login = {} /\ failing = {} /\ signed = FALSE
    /\ console = [phase |-> "up", n |-> 0, owned |-> 0, lookup |-> NoLookup, tracked |-> {}, code |-> 0]
    /\ window = [flow |-> NoFlow, last |-> 0]
    /\ link = {} /\ posts = 0
    /\ cli = [pc |-> "idle", lookup |-> NoLookup, cut |-> FALSE]
    /\ overtaken = {} /\ faults = 0

Fault == faults < MaxFaults /\ faults' = faults + 1
Flow == window.flow
LoginIds == {l.id : l \in login}
Running(n) == service.by # "none" /\ service.n = n

\* A request whose answer nobody waits for any more leaves no trace.
Answered(q, at) == IF q.from = "nobody" THEN {} ELSE {[q EXCEPT !.at = at]}
Settle(qs, which, at) == UNION {IF q \in which THEN Answered(q, at) ELSE {q} : q \in qs}
Joined(id) == {q \in link : q.at = "joined" /\ q.id = id}

(***************************************************************************)
(* The service.                                                            *)
(***************************************************************************)
\* cancelSignIn: only the sign-in of that id is closed.  The start it cuts off runs its own
\* catch later, and that cancels whatever sign-in then has the id.
Closes(id) == id \in LoginIds
CancelSignIn(id) ==
    /\ login' = IF Closes(id) THEN {} ELSE login
    /\ failing' = IF \E l \in login : l.id = id /\ ~l.open THEN failing \cup {id} ELSE failing

\* Unread requests to open the sign-in that a DELETE overtakes.  At shutdown the console has
\* waited for its own; only those whose wait ran out can remain.
Overtakes(q) == \E p \in link : p.kind = "post" /\ p.id = q.id /\ p.at = "sent"
                                /\ (q.from = "stop" => p.from = "nobody")

\* signIn: the same id joins, another id is refused, otherwise the start begins.
HandlePost(q) ==
    /\ q.kind = "post" /\ q.at = "sent" /\ Running(q.n)
    /\ LET at == CASE login = {} -> "joined"
                   [] q.id \in LoginIds -> IF \E l \in login : l.open THEN "ok" ELSE "joined"
                   [] OTHER -> "refused"
       IN  link' = Settle(link, {q}, at) \cup (IF at = "joined" THEN {[q EXCEPT !.at = at]} ELSE {})
    /\ login' = IF login = {} THEN {[id |-> q.id, open |-> FALSE]} ELSE login
    /\ UNCHANGED <<service, failing, signed, console, window, posts, cli, overtaken, faults>>

HandleDelete(q) ==
    /\ q.kind = "delete" /\ q.at = "sent" /\ Running(q.n)
    /\ CancelSignIn(q.id)
    /\ link' = Settle(Settle(link, Joined(q.id), "failed"), {q}, "ok")
    /\ overtaken' = IF Overtakes(q) THEN overtaken \cup {q.id} ELSE overtaken
    /\ UNCHANGED <<service, signed, console, window, posts, cli, faults>>

\* The request reaches no service: its instance has ended.
Unreachable(q) ==
    /\ q.at \in {"sent", "joined"} /\ ~Running(q.n)
    /\ link' = Settle(link, {q}, "failed")
    /\ UNCHANGED <<service, login, failing, signed, console, window, posts, cli, overtaken, faults>>

StartEnds(opened) ==
    /\ \E l \in login :
          /\ ~l.open
          /\ login' = IF opened THEN {[l EXCEPT !.open = TRUE]} ELSE {}
          /\ link' = Settle(link, Joined(l.id), IF opened THEN "ok" ELSE "failed")
    /\ IF opened THEN UNCHANGED faults ELSE Fault
    /\ UNCHANGED <<service, failing, signed, console, window, posts, cli, overtaken>>

\* The catch of a start that was cut off.
StaleFailure(id) ==
    /\ id \in failing
    /\ login' = IF Closes(id) THEN {} ELSE login
    /\ failing' = IF \E l \in login : l.id = id /\ ~l.open THEN failing ELSE failing \ {id}
    /\ link' = Settle(link, Joined(id), "failed")
    /\ UNCHANGED <<service, signed, console, window, posts, cli, overtaken, faults>>

\* account/login/completed, or ten minutes without it.
LoginEnds(done) ==
    /\ \E l \in login : l.open
    /\ login' = {} /\ signed' = (signed \/ done)
    /\ UNCHANGED <<service, failing, console, window, link, posts, cli, overtaken, faults>>

\* startLocalServer under the workspace's lease, and its close(): the sign-in goes with it.
Starts(by) == service.by = "none" /\ service.n < LastService /\ service' = [n |-> service.n + 1, by |-> by]
Ends == service' = [service EXCEPT !.by = "none"] /\ login' = {} /\ failing' = {}

Serve ==
    /\ Starts("serve")
    /\ UNCHANGED <<login, failing, signed, console, window, link, posts, cli, overtaken, faults>>
ServeEnds ==
    /\ service.by = "serve" /\ Ends /\ Fault
    /\ UNCHANGED <<signed, console, window, link, posts, cli, overtaken>>

(***************************************************************************)
(* connectLocalWorkspace: a reachable service is used as it is; without    *)
(* one a service is started, and losing that race finds the winner's.      *)
(***************************************************************************)
Looked == [at |-> "looked", n |-> IF service.by = "none" THEN 0 ELSE service.n, owned |-> FALSE]
Connects(look, by, got) ==
    /\ look.at = "looked"
    /\ \/ look.n # 0 /\ got = [look EXCEPT !.at = "got"] /\ UNCHANGED service
       \/ look.n = 0 /\ service.by # "none" /\ got = [at |-> "got", n |-> service.n, owned |-> FALSE]
          /\ UNCHANGED service
       \/ look.n = 0 /\ Starts(by) /\ got = [at |-> "got", n |-> service.n + 1, owned |-> TRUE]

(***************************************************************************)
(* The console server.                                                     *)
(***************************************************************************)
SwitchLocal ==
    /\ console.phase = "up" /\ console.lookup = NoLookup /\ Flow.id = 0 /\ console.n = 0
    /\ console' = [console EXCEPT !.lookup = Looked]
    /\ UNCHANGED <<service, login, failing, signed, window, link, posts, cli, overtaken, faults>>

SwitchConnects ==
    /\ \E got \in Lookup : Connects(console.lookup, "console", got)
                           /\ console' = [console EXCEPT !.lookup = got]
    /\ UNCHANGED <<login, failing, signed, window, link, posts, cli, overtaken, faults>>

\* useLocal after its await: a console that is stopping closes what it has just connected;
\* a service the console owns is never forgotten for one it does not.
SwitchEnds ==
    /\ console.lookup.at = "got"
    /\ IF console.phase = "up"
       THEN /\ console' = [console EXCEPT !.lookup = NoLookup, !.n = console.lookup.n,
                             !.owned = IF console.lookup.owned THEN console.lookup.n ELSE @]
            /\ UNCHANGED <<service, login, failing>>
       ELSE /\ console' = [console EXCEPT !.lookup = NoLookup]
            /\ IF console.lookup.owned THEN Ends ELSE UNCHANGED <<service, login, failing>>
    /\ UNCHANGED <<signed, window, link, posts, cli, overtaken, faults>>

SwitchCloud ==
    /\ console.phase = "up" /\ Flow.id = 0 /\ console.n # 0
    /\ console' = [console EXCEPT !.n = 0]
    /\ UNCHANGED <<service, login, failing, signed, window, link, posts, cli, overtaken, faults>>

\* The window's requests: one at a time, and a retry keeps the flow's id.
SignIn ==
    /\ console.phase = "up" /\ console.n # 0 /\ posts < LastPost
    /\ Flow.pending = "none" /\ ~Flow.url
    /\ IF Flow.id = 0 THEN window.last < LastId ELSE TRUE
    /\ LET id == IF Flow.id = 0 THEN window.last + 1 ELSE Flow.id
       IN  /\ window' = [flow |-> [id |-> id, pending |-> "post", url |-> FALSE],
                         last |-> IF Flow.id = 0 THEN id ELSE window.last]
           /\ link' = link \cup {[kind |-> "post", from |-> "window", id |-> id, rec |-> posts + 1,
                                  already |-> FALSE, n |-> console.n, at |-> "reading"]}
    /\ posts' = posts + 1
    /\ UNCHANGED <<service, login, failing, signed, console, cli, overtaken, faults>>

CancelLogin ==
    /\ console.phase = "up" /\ console.n # 0 /\ Flow.id # 0 /\ Flow.pending = "none"
    /\ window' = [window EXCEPT !.flow.pending = "delete"]
    /\ link' = link \cup {[kind |-> "delete", from |-> "window", id |-> Flow.id,
          rec |-> IF \E t \in console.tracked : t.id = Flow.id
                  THEN (CHOOSE t \in console.tracked : t.id = Flow.id).rec ELSE 0,
          already |-> FALSE, n |-> console.n, at |-> "sent"]}
    /\ UNCHANGED <<service, login, failing, signed, console, posts, cli, overtaken, faults>>

Recorded(q) == {t \in console.tracked : t.id # q.id} \cup {[id |-> q.id, rec |-> q.rec, n |-> q.n]}
\* proxy once the body is read: nothing is sent for a console that is stopping, and what is
\* sent is recorded before its answer.
Forward(q) ==
    /\ q.at = "reading"
    /\ IF console.phase = "up"
       THEN /\ link' = (link \ {q}) \cup
                 {[q EXCEPT !.at = "sent", !.already = \E t \in console.tracked : t.id = q.id]}
            /\ console' = [console EXCEPT !.tracked = Recorded(q)]
       ELSE link' = link \ {q} /\ UNCHANGED console
    /\ UNCHANGED <<service, login, failing, signed, window, posts, cli, overtaken, faults>>

\* What an answer lets the console forget: a first request that was refused, a cancellation that
\* was carried out; and only the record that request itself left or found.
Untracked(q) == \/ q.kind = "post" /\ q.at = "refused" /\ ~q.already
                \/ q.kind = "delete" /\ q.at = "ok"
Forgets(q) == IF Untracked(q) THEN {t \in console.tracked : t.id = q.id /\ t.rec = q.rec} ELSE {}

FlowAfter(q) ==
    IF q.from # "window" \/ Flow.id # q.id THEN Flow
    ELSE CASE q.kind = "delete" /\ q.at = "ok" -> NoFlow
           [] q.kind = "post" /\ q.at = "ok" -> [Flow EXCEPT !.pending = "none", !.url = TRUE]
           [] OTHER -> [Flow EXCEPT !.pending = "none"]

Receive(q) ==
    /\ q.from \in {"window", "proxy"} /\ q.at \in {"ok", "refused", "failed"}
    /\ link' = link \ {q}
    /\ console' = [console EXCEPT !.tracked = @ \ Forgets(q)]
    /\ window' = [window EXCEPT !.flow = FlowAfter(q)]
    /\ UNCHANGED <<service, login, failing, signed, posts, cli, overtaken, faults>>

\* Thirty seconds without an answer: the record stays.
ProxyTimesOut(q) ==
    /\ q.from \in {"window", "proxy"} /\ q.at \in {"sent", "joined"} /\ Fault
    /\ link' = (link \ {q}) \cup {[q EXCEPT !.from = "nobody"]}
    /\ window' = [window EXCEPT !.flow = FlowAfter([q EXCEPT !.at = "failed"])]
    /\ UNCHANGED <<service, login, failing, signed, console, posts, cli, overtaken>>

\* The window hangs up: a DELETE is aborted with it, a sign-in request is not.
WindowGivesUp(q) ==
    /\ q.from = "window" /\ q.at \in {"sent", "joined"} /\ Fault
    /\ link' = (link \ {q}) \cup {[q EXCEPT !.from = IF q.kind = "post" THEN "proxy" ELSE "nobody"]}
    /\ window' = [window EXCEPT !.flow.pending = "none"]
    /\ UNCHANGED <<service, login, failing, signed, console, posts, cli, overtaken>>

\* The account view says the sign-in is complete.
WindowSeesAccount ==
    /\ console.phase = "up" /\ console.n # 0 /\ Running(console.n) /\ signed /\ Flow.id # 0
    /\ window' = [window EXCEPT !.flow = NoFlow]
    /\ UNCHANGED <<service, login, failing, signed, console, link, posts, cli, overtaken, faults>>

\* shutdown: the window's connections are closed at once.
Stop ==
    /\ console.phase = "up"
    /\ console' = [console EXCEPT !.phase = "stopping"]
    /\ window' = [window EXCEPT !.flow = NoFlow]
    /\ link' = {IF q.from # "window" THEN q
                ELSE [q EXCEPT !.from = IF q.kind = "post" THEN "proxy" ELSE "nobody"] :
                q \in {p \in link : ~(p.kind = "delete" /\ p.from = "window"
                                      /\ p.at \in {"ok", "refused", "failed"})}}
    /\ UNCHANGED <<service, login, failing, signed, posts, cli, overtaken, faults>>

\* The sign-in requests still on their way.
Submissions == {q \in link : q.kind = "post" /\ q.from = "proxy" /\ q.at # "reading"}
Clean ==
    /\ console.phase = "stopping" /\ Submissions = {}
    /\ console' = [console EXCEPT !.phase = "cleaning"]
    /\ link' = link \cup {[kind |-> "delete", from |-> "stop", id |-> t.id, rec |-> t.rec,
                           already |-> FALSE, n |-> t.n, at |-> "sent"] : t \in console.tracked}
    /\ UNCHANGED <<service, login, failing, signed, window, posts, cli, overtaken, faults>>

Cleanups == {q \in link : q.from = "stop"}
CleanupTimesOut(q) ==
    /\ q \in Cleanups /\ q.at = "sent" /\ Fault
    /\ link' = (link \ {q}) \cup {[q EXCEPT !.at = "failed"]}
    /\ UNCHANGED <<service, login, failing, signed, console, window, posts, cli, overtaken>>

\* Whatever the cancellations said, the service the console owns is closed.
Closed ==
    /\ console.phase = "cleaning" /\ \A q \in Cleanups : q.at \in {"ok", "failed"}
    /\ console' = [console EXCEPT !.phase = "closed", !.owned = 0,
                     !.code = IF \E q \in Cleanups : q.at = "failed" THEN 1 ELSE 0]
    /\ link' = link \ Cleanups
    /\ IF console.owned # 0 THEN Ends ELSE UNCHANGED <<service, login, failing>>
    /\ UNCHANGED <<signed, window, posts, cli, overtaken, faults>>

(***************************************************************************)
(* rat-things login.                                                       *)
(***************************************************************************)
CliRequest(kind) == [kind |-> kind, from |-> "cli", id |-> CliId, rec |-> 0, already |-> FALSE,
                     n |-> cli.lookup.n, at |-> "sent"]
CliBegins ==
    /\ cli.pc = "idle"
    /\ cli' = [cli EXCEPT !.pc = "lookup", !.lookup = Looked]
    /\ UNCHANGED <<service, login, failing, signed, console, window, link, posts, overtaken, faults>>

CliConnects ==
    /\ cli.pc = "lookup"
    /\ \E got \in Lookup : Connects(cli.lookup, "cli", got)
                           /\ cli' = [cli EXCEPT !.pc = "asking", !.lookup = got]
    /\ UNCHANGED <<login, failing, signed, console, window, link, posts, overtaken, faults>>

\* An account already signed in, or a service that no longer answers, needs no sign-in.
CliAsks ==
    /\ cli.pc = "asking"
    /\ IF signed \/ ~Running(cli.lookup.n) THEN cli' = [cli EXCEPT !.pc = "closing"] /\ UNCHANGED link
       ELSE cli' = [cli EXCEPT !.pc = "posting"] /\ link' = link \cup {CliRequest("post")}
    /\ UNCHANGED <<service, login, failing, signed, console, window, posts, overtaken, faults>>

CliReceives(q) ==
    /\ q.from = "cli" /\ q.at \in {"ok", "refused", "failed"}
    /\ link' = link \ {q}
    /\ cli' = [cli EXCEPT !.pc = IF q.kind = "post" /\ q.at = "ok" THEN "polling" ELSE "closing",
                          !.cut = @ \/ (q.kind = "delete" /\ q.at = "failed")]
    /\ UNCHANGED <<service, login, failing, signed, console, window, posts, overtaken, faults>>

\* A signal, or an answer that never comes: before the sign-in's id is known to be open there is
\* no finally to cancel it; the cancellation itself is given ten seconds.
CliCutOff(q) ==
    /\ q.from = "cli" /\ q.at \in {"sent", "joined"} /\ Fault
    /\ link' = (link \ {q}) \cup {[q EXCEPT !.from = "nobody"]}
    /\ cli' = [cli EXCEPT !.pc = "closing", !.cut = TRUE]
    /\ UNCHANGED <<service, login, failing, signed, console, window, posts, overtaken>>

\* Signed in, expired, interrupted: the finally cancels the command's own sign-in.
CliPolled ==
    /\ cli.pc = "polling"
    /\ cli' = [cli EXCEPT !.pc = "deleting"] /\ link' = link \cup {CliRequest("delete")}
    /\ UNCHANGED <<service, login, failing, signed, console, window, posts, overtaken, faults>>

CliCloses ==
    /\ cli.pc = "closing"
    /\ cli' = [cli EXCEPT !.pc = "done", !.lookup = NoLookup]
    /\ IF cli.lookup.owned THEN Ends ELSE UNCHANGED <<service, login, failing>>
    /\ UNCHANGED <<signed, console, window, link, posts, overtaken, faults>>

Next ==
    \/ \E q \in link :
          \/ HandlePost(q) \/ HandleDelete(q) \/ Unreachable(q) \/ Forward(q) \/ Receive(q)
          \/ ProxyTimesOut(q) \/ WindowGivesUp(q) \/ CleanupTimesOut(q) \/ CliReceives(q) \/ CliCutOff(q)
    \/ \E b \in BOOLEAN : StartEnds(b) \/ LoginEnds(b)
    \/ \E id \in failing : StaleFailure(id)
    \/ Serve \/ ServeEnds \/ SwitchLocal \/ SwitchConnects \/ SwitchEnds \/ SwitchCloud
    \/ SignIn \/ CancelLogin \/ WindowSeesAccount \/ Stop \/ Clean \/ Closed
    \/ CliBegins \/ CliConnects \/ CliAsks \/ CliPolled \/ CliCloses

Spec == Init /\ [][Next]_vars

\* While the console lives it knows every sign-in it asked for that is open at the service, so
\* that it can cancel it; unless the cancellation overtook the request (console-server.ts proxy).
OpenIsKnown ==
    \A l \in login : (l.id # CliId /\ console.phase # "closed" /\ l.id \notin overtaken) =>
        \E t \in console.tracked : t.id = l.id /\ t.n = service.n

\* A console that exits without an error leaves none of its sign-ins open (shutdown).
StoppedIsQuiet ==
    (console.phase = "closed" /\ console.code = 0) => LoginIds \subseteq {CliId} \cup overtaken

\* The command leaves its sign-in open only when it was cut off (workspace-cli.ts login).
CommandIsQuiet == (cli.pc = "done" /\ ~cli.cut) => CliId \notin LoginIds

\* A service ends with the process that owns it, even one it connected to while it was stopping.
OwnedIsClosed ==
    /\ (console.phase = "closed" /\ console.lookup = NoLookup) => service.by # "console"
    /\ cli.pc = "done" => service.by # "cli"

\* No sign-in is left behind by the process that opened it (local-subscription.ts, console-server.ts,
\* workspace-cli.ts): the conjunction of the above.
SignInsAreClosed == OpenIsKnown /\ StoppedIsQuiet /\ CommandIsQuiet /\ OwnedIsClosed
============================================================================
