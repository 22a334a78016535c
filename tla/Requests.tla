------------------------------ MODULE Requests ------------------------------
(* From the words of a command line to what an agent may do.                *)
(*                                                                          *)
(* The command line is read (cli.ts), becomes a Run request or a call of    *)
(* the control API, is validated (domain/validation.ts), is bounded by a    *)
(* capability profile (plugins/capability-profiles.ts), and each operation  *)
(* of a connected account is authorised against the provider's own          *)
(* authorisation, the stored grant, the request and the profile             *)
(* (domain/capabilities.ts, plugins/integration-runtime.ts). All of it is   *)
(* functions of values: this module has no state. A word is one token; its  *)
(* spelling is left out. Names: "id" and "alias" select the same account.   *)
EXTENDS Naturals, FiniteSets, Sequences, SequencesExt, FiniteSetsExt, TLC

CONSTANTS Length,   \* words of a command line, after the command
          Profiles  \* profiles that a deployment installs besides the built-in ones

None == "none"

-----------------------------------------------------------------------------
(* Reading the line. A token stands for every word of its class: two flags, *)
(* an option with a value, one that may be repeated, an unknown option, the *)
(* end of the options, two short options, and a plain word.                 *)
Flags == {"--json", "--help"}
Repeatable == {"--skill"}
Valued == {"--alias"} \cup Repeatable
Long == Flags \cup Valued \cup {"--", "--colour"}
Tokens == Long \cup {"-h", "-x", "word"}
Lines == UNION {[1 .. n -> Tokens] : n \in 0 .. Length}

Empty == [flags |-> {}, values |-> <<>>, words |-> <<>>, option |-> None, over |-> FALSE, ok |-> TRUE]
Refuse(s) == [s EXCEPT !.ok = FALSE]
\* The values of --alias and --skill, in the order they were given.
Given(values, option) == SelectSeq(values, LAMBDA v : v[1] = option)

\* A value is the next word unless that starts with two dashes; an option
\* that may not be repeated is refused the second time.
Value(s, t) ==
    IF t \in Long \/ (s.option \notin Repeatable /\ Given(s.values, s.option) # <<>>) THEN Refuse(s)
    ELSE [s EXCEPT !.values = Append(@, <<s.option, t>>), !.option = None]
Read(s, t) ==
    IF ~s.ok THEN s
    ELSE IF s.over \/ (s.option = None /\ t = "word") THEN [s EXCEPT !.words = Append(@, t)]
    ELSE IF s.option # None THEN Value(s, t)
    ELSE IF t = "--" THEN [s EXCEPT !.over = TRUE]
    ELSE IF t \in Flags \cup {"-h"} THEN [s EXCEPT !.flags = @ \cup {IF t = "-h" THEN "--help" ELSE t}]
    ELSE IF t \in Valued THEN [s EXCEPT !.option = t] ELSE Refuse(s)
\* parseArguments
Parse(line) == LET s == FoldLeft(Read, Empty, line) IN IF s.option = None THEN s ELSE Refuse(s)

\* The same line read at once: some positions hold values of the option
\* before them, and what comes after the first "--" that is not a value is
\* plain words.
ValuesAt(line) ==
    CHOOSE V \in SUBSET (1 .. Len(line)) :
        \A i \in 1 .. Len(line) :
            i \in V <=> /\ i > 1 /\ line[i - 1] \in Valued /\ (i - 1) \notin V
                        /\ line[i] \notin Long
                        /\ \A j \in 1 .. i - 1 : line[j] = "--" => j \in V
EndOf(line) == LET E == {i \in DOMAIN line : line[i] = "--"}
               IN IF E = {} THEN Len(line) + 1 ELSE Min(E)
\* The line says what was read from it.
ReadsAs(line, s) ==
    LET V == ValuesAt(line)
        end == EndOf(line)
        own == {i \in 1 .. end - 1 : i \notin V}
        At(t) == {i \in own : line[i] = t}
    IN  /\ s.ok <=> /\ At("-x") = {} /\ At("--colour") = {}
                    /\ \A i \in own : line[i] \in Valued => (i + 1) \in V
                    /\ Cardinality(At("--alias")) <= 1
        /\ s.ok => /\ s.flags = {IF line[i] = "-h" THEN "--help" ELSE line[i] :
                                    i \in {j \in own : line[j] \in Flags \cup {"-h"}}}
                   /\ Len(s.values) = Cardinality(V)
                   /\ \A i \in V : <<line[i - 1], line[i]>> \in {s.values[k] : k \in DOMAIN s.values}
                   /\ Len(s.words) = Cardinality(At("word")) + (IF end > Len(line) THEN 0 ELSE Len(line) - end)

-----------------------------------------------------------------------------
(* What a command does. *)
Removed == {"submit", "things"}
ApiCommands == {"revoke", "connections"}
Commands == ApiCommands \cup {"local", "connect", "help"}
\* normalizeArguments: a line without a command is a prompt for this computer.
Normalise(argv) ==
    IF argv = <<>> THEN <<"help">>
    ELSE IF argv[1] \in {"--help", "-h"} THEN <<"help">> \o Tail(argv)
    ELSE IF argv[1] \in Commands THEN argv ELSE <<"local">> \o argv
\* validateRootPositionals: the fewest and the most words a command takes.
Takes == "revoke" :> <<1, 1>> @@ "connections" :> <<0, 0>> @@ "connect" :> <<1, 1>> @@ "help" :> <<0, 0>>
\* validateCommandOptions, which commands of one API call do not ask.
Allowed == "local" :> {"--skill"} @@ "connect" :> {"--alias", "--json"}
Options(s) == {v[1] : v \in Range(s.values)} \cup (s.flags \ {"--help"})
\* main, without the groups that other files read
Dispatch(argv) ==
    LET n == Normalise(argv)
        s == Parse(Tail(n))
        command == n[1]
    IN  IF (argv # <<>> /\ argv[1] \in Removed) \/ ~s.ok THEN "refused"
        ELSE IF "--help" \in s.flags THEN "help"
        ELSE IF command \in DOMAIN Takes /\ ~(Len(s.words) \in Takes[command][1] .. Takes[command][2])
             THEN "refused"
        ELSE IF command \in DOMAIN Allowed /\ ~(Options(s) \subseteq Allowed[command]) THEN "refused"
        ELSE IF command = "local" /\ s.words = <<>> THEN "refused"
        ELSE command

\* The commands of one API call: the method, the path, and what the control
\* Lambda answers (lambdas/control.ts). {id} is a connection, a binding or a
\* schedule, by its own id or, of a connection, its alias.
Calls ==
    {<<"plugins", "GET", "plugins">>, <<"profiles", "GET", "capability-profiles">>,
     <<"connections", "GET", "connections">>, <<"grant", "POST", "connections {id} grant">>,
     <<"revoke", "POST", "connections {id} revoke">>, <<"rotate", "POST", "connections {id} credential">>,
     <<"connection-sets", "GET", "connection-sets">>, <<"connection-set", "POST", "connection-sets">>,
     <<"source-bindings", "GET", "source-bindings">>, <<"bind-source", "POST", "source-bindings">>,
     <<"set-source-event-policy", "PUT", "source-bindings {id} event-policy">>}
Schedules == {<<"list", "GET", "schedules">>, <<"create", "POST", "schedules">>, <<"get", "GET", "schedules {id}">>,
              <<"update", "PUT", "schedules {id}">>, <<"delete", "DELETE", "schedules {id}">>,
              <<"pause", "POST", "schedules {id} pause">>, <<"resume", "POST", "schedules {id} resume">>}
ConnectionCalls == {<<"show", "GET", "connections {id}">>, <<"test", "POST", "connections {id} test">>,
                    <<"consumers", "GET", "connections {id} consumers">>, <<"rename", "PATCH", "connections {id}">>,
                    <<"reconnect", "POST", "connections {id} oauth reconnect">>}
Publication == {<<"create", "POST", "sessions {id} publications">>}
Served ==
    {"GET"} \X {"plugins", "capability-profiles", "connections", "connections {id}", "connections {id} consumers",
                "connection-sets", "source-bindings", "schedules", "schedules {id}"}
    \cup {"POST"} \X {"connections", "connections {id} test", "connections {id} grant",
                      "connections {id} oauth reconnect", "connections {id} credential",
                      "connections {id} revoke", "connection-sets", "source-bindings", "schedules",
                      "schedules {id} pause", "schedules {id} resume", "sessions {id} publications"}
    \cup {<<"PATCH", "connections {id}">>, <<"PUT", "source-bindings {id} event-policy">>,
          <<"PUT", "schedules {id}">>, <<"DELETE", "schedules {id}">>}

-----------------------------------------------------------------------------
(* The agent of a local Run and its profile. *)
Order(list, x) == CHOOSE i \in DOMAIN list : list[i] = x
Lesser(list, a, b) == IF b = None THEN a ELSE IF Order(list, a) <= Order(list, b) THEN a ELSE b
Sandboxes == <<"read-only", "workspace-write", "danger-full-access">>
Searches == <<"disabled", "cached", "indexed", "live">>
Presets == <<"read-only", "read-write", "full">>
\* createBuiltinCapabilityProfiles; `skills` is "any" or the skills it allows
Profile(sandbox, network, search, browser, access, skills) ==
    [sandbox |-> sandbox, network |-> network, search |-> search, browser |-> browser, access |-> access,
     skills |-> skills]
Installed ==
    "read-only" :> Profile("read-only", TRUE, "live", FALSE, "read-only", {"any"})
    @@ "small-business" :> Profile("danger-full-access", TRUE, "live", TRUE, "read-write", {"any"})
    @@ "microvm-full" :> Profile("danger-full-access", TRUE, "live", TRUE, "full", {"any"}) @@ Profiles

Agents == [profile : DOMAIN Installed \cup {None}, network : {"on", "off", "both", None},
           browser : {"on", "off", "both", None}, sandbox : Range(Sandboxes),
           search : {"cached", "live", None}, skills : {{}, {"a"}, {"b"}}]
\* agentFromArguments and parseAgentCapabilities
Acceptable(a) == "both" \notin {a.network, a.browser} /\ ~(a.browser = "on" /\ a.network = "off")
\* resolveAgentProfile, which refuses a skill outside the profile
Fits(a) == a.profile = None \/ (Installed[a.profile].skills # {"any"} => a.skills \subseteq Installed[a.profile].skills)
Resolve(a) ==
    IF a.profile = None THEN a
    ELSE LET p == Installed[a.profile]
             network == p.network /\ a.network # "off"
         IN  [a EXCEPT !.network = IF network THEN "on" ELSE "off",
                       !.browser = IF network /\ p.browser /\ @ # "off" THEN "on" ELSE "off",
                       !.search = Lesser(Searches, p.search, @), !.sandbox = Lesser(Sandboxes, p.sandbox, @)]
\* local refuses the browser, which only a MicroVM has
RunsHere(a) == Acceptable(a) /\ Fits(a) /\ Resolve(a).browser # "on"

-----------------------------------------------------------------------------
(* Accounts on the command line: --connection NAME[=PRESET], and            *)
(* --allow-operation and --deny-operation NAME=OPERATION.                   *)
Names == {"alias", "id", "home"}
AccountOf(name) == IF name = "home" THEN "y" ELSE "x"
Operations == {"read", "post"}
Spec == Names \X {None, "read-only", "custom"}
Policy == {{}} \cup {{p} : p \in Names \X Operations}
Accounts == [specs : UNION {[1 .. n -> Spec] : n \in 0 .. 2}, allow : Policy, deny : Policy]

OperationsOf(policy, name) == {p[2] : p \in {q \in policy : q[1] = name}}
FirstOf(specs, i) == \A j \in 1 .. i - 1 : specs[j][1] # specs[i][1]
\* withIntegrations takes an account's policies for its first mention.
Entry(a, i) ==
    LET name == a.specs[i][1] Of(policy) == IF FirstOf(a.specs, i) THEN OperationsOf(policy, name) ELSE {}
    IN  [connection |-> name, preset |-> a.specs[i][2], allow |-> Of(a.allow), deny |-> Of(a.deny)]
Entries(a) == [i \in DOMAIN a.specs |-> Entry(a, i)]
Declared(a) == \A p \in a.allow \cup a.deny : p[1] \in {s[1] : s \in Range(a.specs)}
\* ... which parseIntegrations refuses, as it does an operation that is both
\* allowed and denied, and a custom preset that allows nothing.
Valid(a) ==
    /\ Declared(a) /\ \A i \in DOMAIN a.specs : FirstOf(a.specs, i)
    /\ \A e \in Range(Entries(a)) : e.allow \cap e.deny = {} /\ (e.preset = "custom" => e.allow # {})
\* selectedConnections: the accounts of the set, then those that are named;
\* of two names of one account the later one counts.
Selected(set, entries) ==
    LET Of(x) == {i \in DOMAIN entries : AccountOf(entries[i].connection) = x}
    IN  [x \in set \cup {AccountOf(e.connection) : e \in Range(entries)} |->
            IF Of(x) = {} THEN {} ELSE {entries[Max(Of(x))]}]
OneNameEach(entries) ==
    \A e, f \in Range(entries) : AccountOf(e.connection) = AccountOf(f.connection) => e.connection = f.connection

-----------------------------------------------------------------------------
(* Authorising one operation of one account. *)
Levels == <<"read", "write", "full">>
PresetAccess == "read-only" :> "read" @@ "read-write" :> "write" @@ "full" :> "full"
Includes(granted, required) == Order(Levels, granted) >= Order(Levels, required)
\* An absent allow list is {None}; it is there when a policy lists one.
Permits(policy, op) ==
    /\ op.id \notin policy.deny
    /\ policy.allow # {None} => op.id \in policy.allow
    /\ IF policy.preset = "custom" THEN op.id \in policy.allow
       ELSE Includes(PresetAccess[policy.preset], op.access)
PolicyOf(preset, allow, deny) == [preset |-> preset, allow |-> allow, deny |-> deny]
Widest == PolicyOf("full", {None}, {})
\* Of a request without a preset, the widest one; a profile is a preset.
Requested(r) == [r EXCEPT !.preset = IF @ = None THEN "full" ELSE @]
Ceiling(preset) == PolicyOf(IF preset = None THEN "full" ELSE preset, {None}, {})
ProviderLets(c, op) == Includes(c.access, op.access) /\ (c.granular /\ op.scoped => c.scoped)

\* authorizeConnectionOperation, of an active account with a grant in force
Authorised(c, grant, request, maximum, op) ==
    Permits(grant, op) /\ ProviderLets(c, op) /\ Permits(Requested(request), op) /\ Permits(Ceiling(maximum), op)

Providers == [access : Range(Levels), granular : BOOLEAN, scoped : BOOLEAN]
Free == [access |-> "full", granular |-> FALSE, scoped |-> FALSE]
Grants == {PolicyOf(p, a, d) : p \in {"read-only", "read-write", "full"}, a \in {{None}, {"post"}}, d \in {{}, {"post"}}}
          \cup {PolicyOf("custom", {"read"}, {}), PolicyOf("custom", {None}, {})}
Requests == {Widest, PolicyOf(None, {None}, {"post"}), PolicyOf("read-only", {None}, {}), PolicyOf("custom", {"post"}, {})}
Definitions == [id : Operations, access : Range(Levels), scoped : BOOLEAN]

\* The account a tool uses when the call names none: the default of the
\* operation, or of the plugin, or the only default among those allowed, or
\* the only account allowed.
Keys == <<"operation", "plugin", "other">>
DefaultOf(allowed, defaults) ==
    LET keys == SelectSeq(Keys, LAMBDA k : k # "other" /\ defaults[k] # None)
        known == allowed \cap Range(defaults)
    IN  IF keys # <<>> THEN allowed \cap {defaults[keys[1]]}
        ELSE IF Cardinality(known) = 1 THEN known
        ELSE IF Cardinality(allowed) = 1 THEN allowed ELSE {}
\* resolveToolCall: the account of a call, {} when it is refused
Resolved(allowed, defaults, account) ==
    IF account = None THEN DefaultOf(allowed, defaults) ELSE allowed \cap {account}
Defaults == [Range(Keys) -> {"x", "y", "z", None}]

-----------------------------------------------------------------------------
(* Properties *)

\* Every line is read as its options say, whatever words follow an option,
\* and a line that asks for help, before the end of its options, runs nothing.
LineIsRead ==
    /\ \A line \in Lines : ReadsAs(line, Parse(line))
    /\ \A line \in Lines, c \in Commands \cup Removed :
        LET argv == <<c>> \o line
            asks == {i \in 1 .. EndOf(line) - 1 : line[i] \in {"-h", "--help"} /\ i \notin ValuesAt(line)}
        IN  asks # {} => Dispatch(argv) \in {"help", "refused"}

\* Every command of the operator is a route that the control API serves.
EveryCallIsServed == {<<c[2], c[3]>> : c \in Calls \cup Schedules \cup ConnectionCalls \cup Publication} \subseteq Served

\* A profile is a ceiling: what an agent gets is never more than its profile
\* and never more than it asked for, a browser comes with the network, and
\* what validation refuses of a request is not what a profile produces.
ProfileIsACeiling ==
    \A a \in Agents : Acceptable(a) /\ Fits(a) /\ a.profile # None =>
        LET p == Installed[a.profile] r == Resolve(a) IN
        /\ Acceptable(r)
        /\ Order(Sandboxes, r.sandbox) <= Order(Sandboxes, p.sandbox)
        /\ Order(Sandboxes, r.sandbox) <= Order(Sandboxes, a.sandbox)
        /\ Order(Searches, r.search) <= Order(Searches, p.search)
        /\ a.search # None => Order(Searches, r.search) <= Order(Searches, a.search)
        /\ r.network = "on" => p.network /\ a.network # "off"
        /\ r.browser = "on" => p.browser /\ a.browser # "off" /\ r.network = "on"

\* A policy given for an account on the command line is in force for that
\* account, however often and in whatever order the accounts are listed,
\* unless the line is refused; an account that is named twice under one name
\* is refused, under two names it keeps the later one (OneNameEach).
PoliciesReachTheirAccount ==
    \A a \in Accounts, set \in SUBSET {"x", "y"} :
        Valid(a) /\ OneNameEach(Entries(a)) =>
            LET selected == Selected(set, Entries(a)) IN
            /\ \A p \in a.deny : \E r \in selected[AccountOf(p[1])] : p[2] \in r.deny
            /\ \A p \in a.allow : \E r \in selected[AccountOf(p[1])] : p[2] \in r.allow
            /\ \A s \in Range(a.specs) : \E r \in selected[AccountOf(s[1])] : r.preset = s[2]

\* The operations of an account are the intersection of what its provider,
\* its grant, the request and the profile let it do, each taken alone: no
\* layer widens another and a deny at any layer wins.
OperationsIntersect ==
    \A c \in Providers, g \in Grants, r \in Requests, m \in {None, "read-only", "read-write"}, op \in Definitions :
        Authorised(c, g, r, m, op) <=> /\ Authorised(c, Widest, Widest, None, op)
                                       /\ Authorised(Free, g, Widest, None, op)
                                       /\ Authorised(Free, Widest, r, None, op)
                                       /\ Authorised(Free, Widest, Widest, m, op)

\* A call without an account uses one that the operation is authorised for,
\* never another than the default that was configured for it, and only where
\* there is no doubt.
DefaultsAreAuthorised ==
    \A allowed \in SUBSET {"x", "y", "z"}, defaults \in Defaults :
        LET r == Resolved(allowed, defaults, None) IN
        /\ Cardinality(r) <= 1 /\ r \subseteq allowed
        /\ defaults["operation"] # None => r \subseteq {defaults["operation"]}
        /\ Cardinality(allowed) = 1 /\ Range(defaults) \subseteq allowed \cup {None} => r = allowed

RequestsAreNarrowed ==
    /\ LineIsRead /\ EveryCallIsServed /\ ProfileIsACeiling
    /\ PoliciesReachTheirAccount /\ OperationsIntersect /\ DefaultsAreAuthorised
=============================================================================
