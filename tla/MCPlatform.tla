----------------------------- MODULE MCPlatform ------------------------------
(* Small instances of the components around the Agents API: the API        *)
(* itself, publications, transfers, sign-in, events, hooks, the creation   *)
(* of Sessions, vaults and schedules.  A behaviour is that of one of them, *)
(* the focus.  Schedules is the module extended; the others take turns on  *)
(* the registers v1, v2, ...; "lines" has one state, in which what depends *)
(* on no state is checked.                                                 *)
EXTENDS Schedules, TLC

VARIABLES focus,
          v1, v2, v3, v4, v5, v6, v7, v8, v9, v10, v11, v12, v13

\* Calls of the HTTP API: an input, a stream and a large upload.
Call(path, input, large) ==
    [door |-> "server", path |-> path, method |-> "POST", input |-> input, stream |-> input,
     large |-> large, valid |-> TRUE]
Calls == {Call("sessions", TRUE, FALSE), Call("files", FALSE, TRUE)}

\* A profile a deployment installs, narrower than the built-in ones.
Ceilings ==
    "closed" :> [sandbox |-> "workspace-write", network |-> FALSE, search |-> "cached",
                 browser |-> TRUE, access |-> "read-only", skills |-> {"a"}]

\* What a Session is asked to publish: a video with its poster, a site and a file.
File(output, path) == [output |-> output, path |-> path]
Request(kind, path, poster, root, entry, files) ==
    [spec |-> [kind |-> kind, path |-> path, poster |-> poster, root |-> root, entry |-> entry],
     files |-> files]
Published ==
    {Request("video", <<"a", "clip">>, <<"still">>, <<>>, <<>>,
             {File("clip", <<"a", "clip">>), File("still", <<"still">>)}),
     Request("site", <<>>, <<>>, <<"web">>, <<"main">>,
             {File("clip", <<"web", "main">>), File("still", <<"web", "_rat", "manifest.json">>)}),
     Request("file", <<"still">>, <<>>, <<>>, <<>>, {File("still", <<"still">>)})}

\* Workspaces that are transferred: links that stay inside, links that leave, a folder of rat's own.
Entry(path, kind, to, open) == [path |-> path, kind |-> kind, to |-> to, open |-> open]
Workspaces ==
    {{Entry(<<"a">>, "directory", <<>>, FALSE), Entry(<<"a", "b">>, "file", <<>>, TRUE),
      Entry(<<"c">>, "link", <<"a", "b">>, TRUE)},
     {Entry(<<"a">>, "directory", <<>>, TRUE), Entry(<<"a", "b">>, "directory", <<>>, FALSE),
      Entry(<<"a", "b", "l">>, "link", <<"..", "..", "a">>, TRUE),
      Entry(<<".rat-transfer">>, "directory", <<>>, TRUE)},
     {Entry(<<"l">>, "link", <<"..", "a">>, TRUE)},
     {Entry(<<"l">>, "link", <<"/", "a">>, TRUE)},
     {}}

\* Who administers webhooks, with which operations, the endpoints and the events there are.
HookProfile(callers, ops, kept, events) ==
    [callers |-> callers, ops |-> ops, kept |-> kept, events |-> events]
HookProfiles ==
    {HookProfile({"a1", "a2"}, {"update", "rotate", "delete"}, kept, {}) : kept \in {{}, {"p1"}}}
    \cup {HookProfile({"a1"}, {op}, {"p1"}, {"e1"}) : op \in {"update", "rotate"}}
PreparationProfiles ==
    {[who |-> {"c1", "c2", "d"}, faults |-> 1], [who |-> {"c1", "d", "o"}, faults |-> 1]}
EventProfiles ==
    {[last |-> 3, faults |-> 1, streams |-> TRUE], [last |-> 4, faults |-> 0, streams |-> FALSE]}
ScheduleProfiles ==
    {[who |-> {"i1", "i2"}, changes |-> 0, faults |-> 0], [who |-> {"i1"}, changes |-> 1, faults |-> 1]}
ForkProfiles ==
    {[who |-> {"f1"}, turn |-> 0, faults |-> 2], [who |-> {"f1", "f2"}, turn |-> 2, faults |-> 0]}

Api == INSTANCE ControlApi
    WITH Requests <- {"r1", "r2"}, Sample <- Calls, Ops <- {"o1", "o2"}, Limit <- 2, Attempts <- 2,
         Uploads <- 1, LastMinute <- 2, MaxFaults <- 1, tokens <- v1, request <- v2, clock <- v3,
         counter <- v4, receipt <- v5, ran <- v6, faults <- v7
Lines == INSTANCE Requests
    WITH Length <- 4, Profiles <- Ceilings
Pages == INSTANCE Publications
    WITH Publishers <- {"p1", "p2"}, Requests <- Published,
         Media <- [clip |-> "video", still |-> "image"], Streams <- {0, 1, 2, 3, 5},
         Profiles <- {"publish", "upload", "capture"}, Chunks <- 2, LastVersion <- 2, Ttl <- 2,
         LastTick <- 3, LastShare <- 2, MaxFaults <- 1, uses <- v1, live <- v2, capture <- v3,
         listed <- v4, deleted <- v5, public <- v6, publisher <- v7, shares <- v8, access <- v9,
         clock <- v10, upload <- v11, faults <- v12
Transfer == INSTANCE LocalTransfer
    WITH LastProcess <- 2, Attempts <- 1, Bytes <- 3, Chunk <- 2, LastTurn <- 1, LastWrite <- 1,
         LastTick <- 1, Trees <- Workspaces, MaxFaults <- 1, proc <- v1, left <- v2, lease <- v3,
         link <- v4, source <- v5, clock <- v6, hosted <- v7, plan <- v8, task <- v9, cloud <- v10,
         faults <- v11
Login == INSTANCE SignIn
    WITH LastId <- 1, LastPost <- 2, LastService <- 2, MaxFaults <- 1, service <- v1, login <- v2,
         failing <- v3, signed <- v4, console <- v5, window <- v6, link <- v7, posts <- v8,
         cli <- v9, overtaken <- v10, faults <- v11
Observations == INSTANCE SessionEvents
    WITH Writers <- {"w1"}, Harnesses <- {"h1"}, Profiles <- EventProfiles, session <- v1,
         runtime <- v2, obs <- v3, log <- v4, batch <- v5, writer <- v6, reader <- v7, judged <- v8,
         faults <- v9, profile <- v10
Outgoing == INSTANCE Webhooks
    WITH Endpoints <- {"p1", "p2"}, Events <- {"e1"}, Admins <- {"a1", "a2"}, Workers <- {"w1"},
         Reporters <- {"r1"}, Profiles <- HookProfiles, Limit <- 1, Tries <- 2, LastSecret <- 3,
         Lease <- 1, Horizon <- 2, LastTick <- 2, MaxFaults <- 1, profile <- v1, endpoint <- v2,
         registry <- v3, secret <- v4, admin <- v5, event <- v6, steady <- v7, jobs <- v8,
         delivery <- v9, handler <- v10, accepted <- v11, clock <- v12, faults <- v13
Preparation == INSTANCE SessionPreparation
    WITH Creators <- {"c1", "c2"}, Closers <- {"d"}, Outbox <- {"o"}, Cleanups <- {"x1", "x2"},
         Tombstones <- TRUE, AttemptLife <- 1, PreparationLife <- 2, LastTick <- 2,
         Profiles <- PreparationProfiles, preparation <- v1, session <- v2, bindings <- v3,
         attempt <- v4, secret <- v5, proc <- v6, clock <- v7, faults <- v8
Fork == INSTANCE SessionFork
    WITH Forkers <- {"f1", "f2"}, LastTurn <- 2, Life <- 1, LastTick <- 2, Profiles <- ForkProfiles,
         source <- v1, env <- v2, root <- v3, forker <- v4, fresh <- v5, preparation <- v6,
         child <- v7, clock <- v8, faults <- v9
Vault == INSTANCE Vaults
    WITH Refreshers <- {"r1", "r2"}, Admins <- {"a1", "a2"}, LastSecret <- 4,
         Slow <- {{"r1", "r2"}}, Profiles <- {{"r1", "r2"}, {"r1", "r2", "a1"}, {"r1", "a1", "a2"}},
         MaxFaults <- 1, vault <- v1, row <- v2, fresh <- v3, secret <- v4, grant <- v5,
         spent <- v6, kept <- v7, resent <- v8, refresher <- v9, admin <- v10, slow <- v11,
         faults <- v12

ASSUME
    /\ Assumptions
    /\ Api!Assumptions
    /\ Pages!Assumptions
    /\ Transfer!Assumptions
    /\ Login!Assumptions
    /\ Observations!Assumptions
    /\ Outgoing!Assumptions
    /\ Preparation!Assumptions
    /\ Fork!Assumptions
    /\ Vault!Assumptions

registers == <<v1, v2, v3, v4, v5, v6, v7, v8, v9, v10, v11, v12, v13>>
mcvars == <<focus, vars, registers>>

\* One initial state of a schedule while another component acts.
Resting == Init /\ schedule.skip /\ faults = 0

Registers ==
    \/ /\ focus = "api" /\ Api!Init
       /\ v8 = 0 /\ v9 = 0 /\ v10 = 0 /\ v11 = 0 /\ v12 = 0 /\ v13 = 0
    \/ /\ focus = "publications" /\ Pages!Init
       /\ v13 = 0
    \/ /\ focus = "transfer" /\ Transfer!Init
       /\ v12 = 0 /\ v13 = 0
    \/ /\ focus = "sign-in" /\ Login!Init
       /\ v12 = 0 /\ v13 = 0
    \/ /\ focus = "events" /\ Observations!Init
       /\ v11 = 0 /\ v12 = 0 /\ v13 = 0
    \/ /\ focus = "webhooks" /\ Outgoing!Init
    \/ /\ focus = "preparation" /\ Preparation!Init
       /\ v9 = 0 /\ v10 = 0 /\ v11 = 0 /\ v12 = 0 /\ v13 = 0
    \/ /\ focus = "fork" /\ Fork!Init
       /\ v10 = 0 /\ v11 = 0 /\ v12 = 0 /\ v13 = 0
    \/ /\ focus = "vault" /\ Vault!Init
       /\ v13 = 0

Zero ==
    /\ v1 = 0 /\ v2 = 0 /\ v3 = 0 /\ v4 = 0 /\ v5 = 0 /\ v6 = 0 /\ v7 = 0 /\ v8 = 0 /\ v9 = 0
    /\ v10 = 0 /\ v11 = 0 /\ v12 = 0 /\ v13 = 0

MCInit ==
    \/ Registers /\ Resting
    \/ focus \in {"schedule", "lines"} /\ Zero /\ Init /\ (focus = "lines" => Resting)

OthersNext ==
    \/ focus = "api" /\ Api!Next /\ UNCHANGED <<focus, v8, v9, v10, v11, v12, v13>>
    \/ focus = "publications" /\ Pages!Next /\ UNCHANGED <<focus, v13>>
    \/ focus = "transfer" /\ Transfer!Next /\ UNCHANGED <<focus, v12, v13>>
    \/ focus = "sign-in" /\ Login!Next /\ UNCHANGED <<focus, v12, v13>>
    \/ focus = "events" /\ Observations!Next /\ UNCHANGED <<focus, v11, v12, v13>>
    \/ focus = "webhooks" /\ Outgoing!Next /\ UNCHANGED focus
    \/ focus = "preparation" /\ Preparation!Next /\ UNCHANGED <<focus, v9, v10, v11, v12, v13>>
    \/ focus = "fork" /\ Fork!Next /\ UNCHANGED <<focus, v10, v11, v12, v13>>
    \/ focus = "vault" /\ Vault!Next /\ UNCHANGED <<focus, v13>>

MCNext ==
    \/ focus = "schedule" /\ Next /\ UNCHANGED <<focus, registers>>
    \/ OthersNext /\ UNCHANGED vars

MCSpec == MCInit /\ [][MCNext]_mcvars

-----------------------------------------------------------------------------

\* The types of the component that acts.
TypesOK ==
    /\ focus = "schedule" => TypeOK
    /\ focus = "api" => Api!TypeOK
    /\ focus = "publications" => Pages!TypeOK
    /\ focus = "transfer" => Transfer!TypeOK
    /\ focus = "sign-in" => Login!TypeOK
    /\ focus = "events" => Observations!TypeOK
    /\ focus = "webhooks" => Outgoing!TypeOK
    /\ focus = "preparation" => Preparation!TypeOK
    /\ focus = "fork" => Fork!TypeOK
    /\ focus = "vault" => Vault!TypeOK

\* ControlApi and Requests: no request does more than its principal, its profile and its
\* owner's rate allow.
RequestsAreBounded ==
    /\ focus = "api" => Api!ChargesAreTrue
    /\ focus = "lines" => Api!ScopesHold /\ Lines!RequestsAreNarrowed
\* Publications: what is public is complete and was of one version.
PublishingIsSafe == focus = "publications" => Pages!PublishingIsSafe
\* LocalTransfer and SignIn: a workspace arrives as it left, one service runs, and a sign-in
\* that nobody waits for is closed.
LocalServiceIsSafe ==
    /\ focus = "transfer" => Transfer!TransferIsSafe
    /\ focus = "sign-in" => Login!SignInsAreClosed
\* SessionEvents and Webhooks: what followers and endpoints are sent is what was observed.
DeliveriesAreTrue ==
    /\ focus = "events" => Observations!EventsAreTrue
    /\ focus = "webhooks" => Outgoing!WebhooksAreKept
\* SessionPreparation and SessionFork: a Session is made whole or not at all.
SessionsAreMadeWhole ==
    /\ focus = "preparation" => Preparation!PreparationIsSafe
    /\ focus = "fork" => Fork!ForksAreTrue
\* Vaults: a stored secret is live, a grant the row has a successor of is not sent again and
\* no secret leaks.
VaultsAreSound == focus = "vault" => Vault!VaultsAreSound
=============================================================================
