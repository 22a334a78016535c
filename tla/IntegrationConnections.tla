----------------------- MODULE IntegrationConnections -----------------------
(***************************************************************************)
(* Integration connections: ConnectionService keeps a row per connection,  *)
(* an alias row and a secret in the vault; OAuthRefreshingCredentialBroker *)
(* refreshes an expiring credential behind a lease; IntegrationRuntime     *)
(* calls a provider with it.  API handlers, the health monitor and running *)
(* agents do so at the same time.                                          *)
(*                                                                         *)
(* A step ends at each call of the store, the vault or the provider's      *)
(* token endpoint.  Reads and checks that follow one another with nothing  *)
(* written between are one step.  A credential is a number: issued[n] says *)
(* what the provider thinks of it.  Grants, health observations, binding   *)
(* timestamps and connection sets are left out: no step here reads them.   *)
(***************************************************************************)
EXTENDS Integers, Sequences

CONSTANTS
    Procs,           \* handlers, monitors and agents
    Connections,     \* connection ids that may be drawn
    Names,           \* aliases
    Accounts,        \* provider accounts
    Free,            \* no process, no account, no alias, no connection
    MaxCredentials,  \* bound on the credentials a provider issues
    MaxFaults        \* bound on crashes, failed calls and lease expiries in use

Assumptions ==
    /\ Free \notin Procs \union Connections \union Names \union Accounts
    /\ MaxCredentials \in Nat /\ MaxFaults \in Nat

VARIABLES
    row,      \* CONNECTION# items
    aliases,  \* ALIAS# items
    secret,   \* the vault: the number of the credential stored for a connection
    lock,     \* OAUTH_REFRESH# items that have not expired
    issued,   \* the credentials the provider issued
    proc,     \* the operation each process is in
    wanted,   \* connections whose owner wants them revoked
    faults

vars == <<row, aliases, secret, lock, issued, proc, wanted, faults>>

-----------------------------------------------------------------------------
(* States *)

Absent == 0
Deleted == -1

Credential == [account : Accounts, access : {"fresh", "old"}, refresh : {"live", "spent", "none"}]

Row == [status : {"none", "active", "expired", "revoked"}, account : Accounts \union {Free},
        alias : Names \union {Free}]
NoRow == [status |-> "none", account |-> Free, alias |-> Free]

Proc == [pc : {"idle", "create", "bundle", "cleanup", "read", "lock", "wait", "exchange", "replace", "release",
               "verify", "store", "save", "mark", "delete"},
         kind : {"none", "create", "test", "rotate", "revoke", "call"},
         c : Connections \union {Free},
         row : Row,                               \* the row the operation read, or will write
         cred : 0 .. MaxCredentials,              \* the credential it holds
         result : {"ok", "rejected", "error"},    \* of a refresh
         lapsed : BOOLEAN]                        \* its lease expired while it was refreshing
Idle == [pc |-> "idle", kind |-> "none", c |-> Free, row |-> NoRow, cred |-> 0, result |-> "ok", lapsed |-> FALSE]

\* Types of the rows, the vault, the provider and the operations.
TypeOK ==
    /\ row \in [Connections -> Row]
    /\ aliases \in [Names -> Connections \union {Free}]
    /\ secret \in [Connections -> Deleted .. MaxCredentials]
    /\ lock \in [Connections -> Procs \union {Free}]
    /\ issued \in Seq(Credential) /\ Len(issued) <= MaxCredentials
    /\ proc \in [Procs -> Proc]
    /\ wanted \subseteq Connections
    /\ faults \in 0 .. MaxFaults

Init ==
    /\ row = [c \in Connections |-> NoRow]
    /\ aliases = [a \in Names |-> Free]
    /\ secret = [c \in Connections |-> Absent]
    /\ lock = [c \in Connections |-> Free]
    /\ issued = <<>>
    /\ proc = [p \in Procs |-> Idle]
    /\ wanted = {} /\ faults = 0

Fault == faults < MaxFaults /\ faults' = faults + 1
NoFault == UNCHANGED faults

At(p, pc) == proc[p].pc = pc
Goes(p, pc) == proc' = [proc EXCEPT ![p].pc = pc]
Ends(p) == proc' = [proc EXCEPT ![p] = Idle]
Saves(p, status) ==
    proc' = [proc EXCEPT ![p] = [Idle EXCEPT !.pc = "save", !.c = proc[p].c, !.row = [proc[p].row EXCEPT !.status = status]]]

\* The provider issues a credential to whoever signs in.
Issue(credential) == Len(issued) < MaxCredentials /\ issued' = Append(issued, credential)
SignsIn(account) == \E refresh \in {"live", "none"} :
    Issue([account |-> account, access |-> "fresh", refresh |-> refresh])
Latest == Len(issued) + 1

-----------------------------------------------------------------------------
(* ConnectionService.create *)

\* The credential is verified and a free alias chosen before anything is written.
BeginCreate(p, c, account, alias) ==
    /\ At(p, "idle")
    /\ row[c] = NoRow /\ secret[c] = Absent /\ \A q \in Procs : proc[q].c # c
    /\ aliases[alias] = Free
    /\ SignsIn(account)
    /\ proc' = [proc EXCEPT ![p] = [Idle EXCEPT !.pc = "create", !.kind = "create", !.c = c, !.cred = Latest,
                                       !.row = [status |-> "active", account |-> account, alias |-> alias]]]
    /\ UNCHANGED <<row, aliases, secret, lock, wanted, faults>>

CreateSecret(p) ==
    /\ At(p, "create")
    /\ secret' = [secret EXCEPT ![proc[p].c] = proc[p].cred]
    /\ Goes(p, "bundle")
    /\ UNCHANGED <<row, aliases, lock, issued, wanted, faults>>

\* The conditions of putConnectionBundle's transaction.
BundleAllowed(p) == row[proc[p].c] = NoRow /\ aliases[proc[p].row.alias] = Free

\* Mutant: a refused bundle ends the request.
MutantPutBundle(p) ==
    /\ At(p, "bundle")
    /\ IF BundleAllowed(p)
         THEN /\ row' = [row EXCEPT ![proc[p].c] = proc[p].row]
              /\ aliases' = [aliases EXCEPT ![proc[p].row.alias] = proc[p].c]
         ELSE UNCHANGED <<row, aliases>>
    /\ Ends(p) /\ NoFault
    /\ UNCHANGED <<secret, lock, issued, wanted>>

\* A transaction that fails, or whose answer is lost, is followed by the cleanup.
PutBundle(p) ==
    /\ At(p, "bundle")
    /\ \/ /\ BundleAllowed(p)
          /\ row' = [row EXCEPT ![proc[p].c] = proc[p].row]
          /\ aliases' = [aliases EXCEPT ![proc[p].row.alias] = proc[p].c]
          /\ \/ Ends(p) /\ NoFault
             \/ Goes(p, "cleanup") /\ Fault
       \/ /\ UNCHANGED <<row, aliases>>
          /\ Goes(p, "cleanup")
          /\ IF BundleAllowed(p) THEN Fault ELSE NoFault
    /\ UNCHANGED <<secret, lock, issued, wanted>>

Cleanup(p) ==
    /\ At(p, "cleanup")
    /\ \/ secret' = [secret EXCEPT ![proc[p].c] = Deleted] /\ NoFault
       \/ UNCHANGED secret /\ Fault
    /\ Ends(p)
    /\ UNCHANGED <<row, aliases, lock, issued, wanted>>

-----------------------------------------------------------------------------
(* test, rename, rotate, revoke and calls: the row is read first *)

Begins(p, c, kind, pc, cred) ==
    /\ At(p, "idle") /\ row[c] # NoRow
    /\ proc' = [proc EXCEPT ![p] = [Idle EXCEPT !.pc = pc, !.kind = kind, !.c = c, !.row = row[c], !.cred = cred]]
    /\ UNCHANGED <<row, aliases, secret, lock, wanted, faults>>

BeginTest(p, c) == row[c].status # "revoked" /\ Begins(p, c, "test", "read", 0) /\ UNCHANGED issued
BeginCall(p, c) == row[c].status = "active" /\ Begins(p, c, "call", "read", 0) /\ UNCHANGED issued
BeginRename(p, c) == Begins(p, c, "none", "save", 0) /\ UNCHANGED issued

\* sameProviderIdentity
SameIdentity(c, account) == row[c].account = account

\* rotate, directly or by a reconnect: the new credential's identity is verified before it is stored.
BeginRotate(p, c, account) ==
    /\ row[c].status # "revoked" /\ SameIdentity(c, account)
    /\ SignsIn(account)
    /\ Begins(p, c, "rotate", "store", Latest)

BeginRevoke(p, c) == c \in wanted /\ Begins(p, c, "revoke", "mark", 0) /\ UNCHANGED issued

\* putConnection of what was read, with another status; the alias item is this connection's.
PutConnection(p, status) ==
    /\ row' = [row EXCEPT ![proc[p].c] = [proc[p].row EXCEPT !.status = status]]
    /\ UNCHANGED <<aliases, lock, issued, wanted>>

\* test and rotate save the status decided on, rename the one that was read.
Save(p) == At(p, "save") /\ PutConnection(p, proc[p].row.status) /\ Ends(p) /\ UNCHANGED <<secret, faults>>
Mark(p) == At(p, "mark") /\ PutConnection(p, "revoked") /\ Goes(p, "delete") /\ UNCHANGED <<secret, faults>>

\* vault.revoke of the binding's secret: a deleted one counts as revoked.
Delete(p) ==
    /\ At(p, "delete")
    /\ secret' = [secret EXCEPT ![proc[p].c] = Deleted]
    /\ Ends(p)
    /\ UNCHANGED <<row, aliases, lock, issued, wanted, faults>>

\* vault.replace fails for a secret that is deleted.
Store(p) ==
    /\ At(p, "store")
    /\ IF secret[proc[p].c] = Deleted THEN Ends(p) /\ UNCHANGED secret
       ELSE /\ secret' = [secret EXCEPT ![proc[p].c] = proc[p].cred]
            /\ Saves(p, "active")
    /\ UNCHANGED <<row, aliases, lock, issued, wanted, faults>>

-----------------------------------------------------------------------------
(* OAuthRefreshingCredentialBroker.readRecord *)

\* A rejected credential: test marks the connection expired, unless it was; a call fails.
Rejected(p) ==
    IF proc[p].kind = "test" /\ proc[p].row.status # "expired" THEN Saves(p, "expired") ELSE Ends(p)

\* A usable credential: test has it verified, a call makes its request and ends.
Resolves(p) ==
    IF proc[p].kind = "test" THEN proc' = [proc EXCEPT ![p] = [Idle EXCEPT !.pc = "verify", !.kind = "test",
                                                                        !.c = proc[p].c, !.row = proc[p].row]]
    ELSE Ends(p)

Read(p) ==
    /\ At(p, "read")
    /\ LET n == secret[proc[p].c]
       IN IF n = Deleted THEN Ends(p)
          ELSE IF issued[n].access = "fresh" THEN Resolves(p)
          ELSE IF issued[n].refresh = "none" THEN Rejected(p)
          ELSE proc' = [proc EXCEPT ![p].pc = "lock", ![p].cred = n]
    /\ UNCHANGED <<row, aliases, secret, lock, issued, wanted, faults>>

Lock(p) ==
    /\ At(p, "lock")
    /\ LET c == proc[p].c
       IN IF lock[c] = Free THEN lock' = [lock EXCEPT ![c] = p] /\ Goes(p, "exchange")
          ELSE UNCHANGED lock /\ Goes(p, "wait")
    /\ UNCHANGED <<row, aliases, secret, issued, wanted, faults>>

\* Ten attempts to read what the holder stored, then the provider counts as unavailable.
Wait(p) ==
    /\ At(p, "wait")
    /\ LET n == secret[proc[p].c]
       IN \/ n # Deleted /\ issued[n].access = "fresh" /\ Resolves(p)
          \/ Ends(p)
    /\ UNCHANGED <<row, aliases, secret, lock, issued, wanted, faults>>

\* grant_type=refresh_token with the credential read before the lease was taken.  A provider
\* that rotates refresh tokens accepts each once; another one repeats the token it was sent.
Exchange(p) ==
    /\ At(p, "exchange")
    /\ LET n == proc[p].cred
           Fails(result) == proc' = [proc EXCEPT ![p].pc = "release", ![p].result = result]
           Renews == Append([issued EXCEPT ![n].refresh = "spent"], [issued[n] EXCEPT !.access = "fresh"])
       IN \/ /\ issued[n].refresh = "live" /\ Len(issued) < MaxCredentials
             /\ issued' \in {Renews, Append(issued, [issued[n] EXCEPT !.access = "fresh"])}
             /\ \/ NoFault /\ proc' = [proc EXCEPT ![p].pc = "replace", ![p].cred = Latest]
                \/ Fault /\ Fails("error")
          \/ issued[n].refresh = "spent" /\ Fails("rejected") /\ NoFault /\ UNCHANGED issued
          \/ Fails("error") /\ NoFault /\ UNCHANGED issued
    /\ UNCHANGED <<row, aliases, secret, lock, wanted>>

Replace(p) ==
    /\ At(p, "replace")
    /\ LET c == proc[p].c
       IN IF secret[c] = Deleted
            THEN UNCHANGED secret /\ proc' = [proc EXCEPT ![p].pc = "release", ![p].result = "error"]
            ELSE secret' = [secret EXCEPT ![c] = proc[p].cred] /\ Goes(p, "release")
    /\ UNCHANGED <<row, aliases, lock, issued, wanted, faults>>

\* releaseRefreshLock deletes the lease with this token only.
Released(p) == IF lock[proc[p].c] = p THEN [lock EXCEPT ![proc[p].c] = Free] ELSE lock

Release(p) ==
    /\ At(p, "release")
    /\ lock' = Released(p)
    /\ CASE proc[p].result = "ok" -> Resolves(p)
         [] proc[p].result = "rejected" -> Rejected(p)
         [] OTHER -> Ends(p)
    /\ UNCHANGED <<row, aliases, secret, issued, wanted, faults>>

\* Mutant: an outage is recorded in the status.
MutantVerify(p) ==
    /\ At(p, "verify")
    /\ \/ Saves(p, "active") /\ NoFault
       \/ Rejected(p) /\ Fault
       \/ Saves(p, "degraded") /\ NoFault
    /\ UNCHANGED <<row, aliases, secret, lock, issued, wanted>>

\* test: the provider confirms the account, rejects the credential or cannot be reached.
Verify(p) ==
    /\ At(p, "verify")
    /\ \/ Saves(p, "active") /\ NoFault
       \/ Rejected(p) /\ Fault
       \/ Ends(p) /\ NoFault
    /\ UNCHANGED <<row, aliases, secret, lock, issued, wanted>>

-----------------------------------------------------------------------------
(* Time, failures and the owner *)

\* An access token comes within two minutes of its expiry.
Ages(n) ==
    /\ n <= Len(issued) /\ issued[n].access = "fresh"
    /\ issued' = [issued EXCEPT ![n].access = "old"]
    /\ UNCHANGED <<row, aliases, secret, lock, proc, wanted, faults>>

Refreshing == {"exchange", "replace", "release"}
Holds(p, c) == lock[c] = p /\ proc[p].c = c /\ proc[p].pc \in Refreshing

\* Thirty seconds: after a crash it passes; that it passes while the holder works is a fault.
LeaseLapses(c) ==
    /\ lock[c] # Free
    /\ IF Holds(lock[c], c) THEN Fault /\ proc' = [proc EXCEPT ![lock[c]].lapsed = TRUE]
       ELSE UNCHANGED <<proc, faults>>
    /\ lock' = [lock EXCEPT ![c] = Free]
    /\ UNCHANGED <<row, aliases, secret, issued, wanted>>

Crash(p) ==
    /\ ~At(p, "idle") /\ Ends(p) /\ Fault
    /\ UNCHANGED <<row, aliases, secret, lock, issued, wanted>>

WantRevoke(c) ==
    /\ row[c] # NoRow /\ c \notin wanted
    /\ wanted' = wanted \union {c}
    /\ UNCHANGED <<row, aliases, secret, lock, issued, proc, faults>>

Step(p) ==
    \/ CreateSecret(p) \/ PutBundle(p) \/ Cleanup(p) \/ Save(p) \/ Mark(p) \/ Delete(p) \/ Store(p)
    \/ Read(p) \/ Lock(p) \/ Wait(p) \/ Exchange(p) \/ Replace(p) \/ Release(p) \/ Verify(p)

Next ==
    \/ \E p \in Procs, c \in Connections :
         \/ \E account \in Accounts, alias \in Names : BeginCreate(p, c, account, alias)
         \/ \E account \in Accounts : BeginRotate(p, c, account)
         \/ BeginTest(p, c) \/ BeginCall(p, c) \/ BeginRename(p, c) \/ BeginRevoke(p, c)
    \/ \E p \in Procs : Step(p) \/ Crash(p)
    \/ \E c \in Connections : LeaseLapses(c) \/ WantRevoke(c)
    \/ \E n \in 1 .. MaxCredentials : Ages(n)

Spec ==
    /\ Init /\ [][Next]_vars
    /\ \A p \in Procs : WF_vars(Step(p))
    /\ \A c \in Connections : SF_vars(\E p \in Procs : BeginRevoke(p, c))

-----------------------------------------------------------------------------
(* Properties *)

\* Two creations may read the same alias as free: still each alias names one connection, and each
\* connection is found under its alias.
AliasesResolve == \A c \in Connections : row[c] # NoRow => aliases[row[c].alias] = c

\* Without failures, every secret in the vault belongs to a connection or to a creation under way.
NoOrphans ==
    faults = 0 => \A c \in Connections : secret[c] \notin {Absent, Deleted} =>
        row[c] # NoRow \/ \E p \in Procs : proc[p].kind = "create" /\ proc[p].c = c

\* A process that refreshes holds the lease, unless its own lease expired: a late release never
\* takes the lease from the process that came after.
LockIsHeld == \A p \in Procs : proc[p].pc \in Refreshing /\ ~proc[p].lapsed => lock[proc[p].c] = p

\* Every connection is found under its alias, has the only secrets, and is refreshed by one process.
ConnectionsAreWhole == AliasesResolve /\ NoOrphans /\ LockIsHeld

\* An owner who keeps asking for a revocation gets the credential deleted, whatever crashed between
\* the two writes of an earlier attempt.
RevocationDeletes == \A c \in Connections : c \in wanted ~> secret[c] = Deleted

\* docs/diagnostics.md: "revoked connections cannot be reactivated".
RevokedStays == [][\A c \in Connections : row[c].status = "revoked" => row'[c].status = "revoked"]_vars

\* docs/plugins.md, of a refresh: "Concurrent workers wait for that replacement."  So without
\* failures no process sends a refresh token that was exchanged already.
\* It does not hold: README.md, section 7.
TokensSentOnce == faults = 0 => \A p \in Procs : At(p, "exchange") => issued[proc[p].cred].refresh = "live"
=============================================================================
