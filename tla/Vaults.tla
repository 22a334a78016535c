------------------------------- MODULE Vaults -------------------------------
(***************************************************************************)
(* VaultService: a vault, its credentials, and the immutable secrets they  *)
(* refer to.  A worker that needs a bearer token refreshes an OAuth grant  *)
(* under a lease in the credential's row: it exchanges the refresh token,  *)
(* which works once, stores the new grant, writes it to the row as         *)
(* pending, and makes it the credential's in a transaction with the vault. *)
(* Administrators create, rotate and archive meanwhile.                    *)
(***************************************************************************)
EXTENDS Naturals

CONSTANTS
    Refreshers,  \* calls of authorization for the first credential
    Admins,      \* calls of createCredential, updateCredential, deleteCredential and delete
    LastSecret,  \* bound: secrets made
    Profiles,    \* bound: sets of processes that take part together
    Slow,        \* the profiles in which a refresher may stall past its lease of 60 s
    MaxFaults    \* bound: processes that end, and answers that are lost

Assumptions ==
    /\ LastSecret \in Nat \ {0} /\ MaxFaults \in Nat
    /\ Profiles \subseteq SUBSET (Refreshers \cup Admins) /\ Slow \subseteq Profiles

VARIABLES
    vault,    \* its status
    row,      \* the credentials: the first is there from the start
    fresh,    \* << process, what >>: its read of the vault (0) or of a credential still has the revision
    secret,   \* the secret versions
    grant,    \* the refresh token of each, known by the first secret that holds it
    spent,    \* grants whose refresh token was exchanged
    kept,     \* grants exchanged for one that the row came to refer to
    resent,   \* history: who sent a spent grant, the holder of the lease one of kept or another
    refresher, admin, slow, faults

vars == <<vault, row, fresh, secret, grant, spent, kept, resent, refresher, admin, slow, faults>>

Processes == Refreshers \cup Admins
Secrets == 1..LastSecret
Credentials == 1..2
Lease == [by : Refreshers, open : BOOLEAN]
Row == [status : {"none", "active", "archived"}, secret : 0..LastSecret, pending : 0..LastSecret, lease : SUBSET Lease]

TypeOK ==
    /\ vault \in {"active", "archived"}
    /\ row \in [Credentials -> Row]
    /\ fresh \subseteq Processes \X ({0} \cup Credentials)
    /\ secret \in [Secrets -> {"none", "held", "live", "revoked"}]
    /\ grant \in [Secrets -> 0..LastSecret] /\ spent \cup kept \subseteq Secrets
    /\ resent \subseteq {"kept", "other"} /\ slow \in BOOLEAN
    /\ refresher \in [Refreshers ->
          [pc : {"read", "lock", "exchange", "create", "pend", "parent", "commit", "moved", "caught", "again",
                 "absent", "old", "finally", "done", "over"},
           saw : Row, new : 0..LastSecret]]
    /\ admin \in [Admins ->
          [op : {"create", "update", "delete", "vault"},
           pc : {"vault", "close", "row", "create", "commit", "undo", "archive", "next", "old", "pending",
                 "over", "refused"},
           of : Credentials, saw : Row, new : 0..LastSecret]]
    /\ faults \in 0..MaxFaults

NoRow == [status |-> "none", secret |-> 0, pending |-> 0, lease |-> {}]

Init ==
    /\ vault = "active"
    /\ row = [c \in Credentials |-> IF c = 1 THEN [NoRow EXCEPT !.status = "active", !.secret = 1] ELSE NoRow]
    /\ fresh = {} /\ spent = {} /\ kept = {} /\ resent = {}
    /\ secret = [s \in Secrets |-> IF s = 1 THEN "live" ELSE "none"]
    /\ grant = [s \in Secrets |-> IF s = 1 THEN 1 ELSE 0]
    /\ \E who \in Profiles : \E op \in [Admins -> {"create", "update", "delete", "vault"}] :
          /\ slow = (who \in Slow)
          /\ refresher = [r \in Refreshers |-> [pc |-> IF r \in who THEN "read" ELSE "over",
                                                saw |-> NoRow, new |-> 0]]
          /\ admin = [a \in Admins |-> [op |-> op[a], pc |-> IF a \in who THEN "vault" ELSE "over",
                                         of |-> IF op[a] = "create" THEN 2 ELSE 1, saw |-> NoRow, new |-> 0]]
          /\ \A a \in Admins \ who : op[a] = "vault"
    /\ faults = 0

----------------------------------------------------------------------------
\* The store: a read records the revision, a write requires it and makes every other copy old.

Writes(whats) == fresh' = {f \in fresh : f[2] \notin whats}
Reads(p, what) == fresh' = fresh \cup {<<p, what>>}
Has(p, whats) == \A what \in whats : <<p, what>> \in fresh

Active == vault = "active"
Go(r, pc) == refresher' = [refresher EXCEPT ![r].pc = pc]

\* A new secret version, if there is one left, in the given state, with the given refresh token.
New(s, state, token) ==
    /\ secret[s] = "none" /\ \A t \in Secrets : t < s => secret[t] # "none"
    /\ secret' = [secret EXCEPT ![s] = state]
    /\ grant' = [grant EXCEPT ![s] = token]

Revoked(s) == [secret EXCEPT ![s] = "revoked"]

----------------------------------------------------------------------------
\* The secret a row's credential is read from: the pending one, if there is one.
Latest(was) == IF was.pending # 0 THEN was.pending ELSE was.secret

\* authorization(): an active credential of an active vault, whose secret can be read.  A grant
\* that is neither pending, due nor rejected is answered as it is.
Read(r) ==
    /\ refresher[r].pc = "read"
    /\ IF Active /\ row[1].status = "active" /\ secret[Latest(row[1])] = "live"
       THEN \/ /\ row[1].pending = 0
               /\ Go(r, "over")
               /\ UNCHANGED fresh
            \/ /\ \A lease \in row[1].lease : ~lease.open
               /\ refresher' = [refresher EXCEPT ![r].pc = "lock", ![r].saw = row[1], ![r].new = 0]
               /\ Reads(r, 1)
       ELSE Go(r, "over") /\ UNCHANGED fresh
    /\ UNCHANGED <<vault, row, secret, grant, spent, kept, resent, admin, faults>>

Locked(r, was) == [was EXCEPT !.lease = {[by |-> r, open |-> TRUE]}]

Lock(r) ==
    /\ refresher[r].pc = "lock"
    /\ IF Has(r, {1})
       THEN /\ row' = [row EXCEPT ![1] = Locked(r, @)]
            /\ fresh' = {f \in fresh : f[2] # 1} \cup {<<r, 1>>}
            /\ refresher' = [refresher EXCEPT ![r].pc = IF row[1].pending = 0 THEN "exchange" ELSE "parent",
                                              ![r].new = row[1].pending]
       ELSE Go(r, "read") /\ UNCHANGED <<row, fresh>>
    /\ UNCHANGED <<vault, secret, grant, spent, kept, resent, admin, faults>>

\* The token endpoint takes a refresh token once; it refuses one it has taken, and
\* that error leaves the loop.
Exchange(r) ==
    LET old == grant[refresher[r].saw.secret]
        holds == \E lease \in row[1].lease : lease.by = r IN
    /\ refresher[r].pc = "exchange"
    /\ IF old \in spent
       THEN /\ resent' = resent \cup {IF old \in kept /\ holds THEN "kept" ELSE "other"}
            /\ Go(r, "done")
            /\ UNCHANGED <<secret, grant, spent>>
       ELSE \E s \in Secrets :
            /\ New(s, "held", s)
            /\ spent' = spent \cup {old}
            /\ refresher' = [refresher EXCEPT ![r].pc = "create", ![r].new = s]
            /\ UNCHANGED resent
    /\ UNCHANGED <<vault, row, fresh, kept, admin, faults>>

Create(r) ==
    /\ refresher[r].pc = "create"
    /\ secret' = [secret EXCEPT ![refresher[r].new] = "live"]
    /\ Go(r, "pend")
    /\ UNCHANGED <<vault, row, fresh, grant, spent, kept, resent, admin, faults>>

\* "Persist the rotated grant before retrying the parent fence."
Pend(r) ==
    /\ refresher[r].pc = "pend"
    /\ IF Has(r, {1})
       THEN /\ row' = [row EXCEPT ![1].pending = refresher[r].new]
            /\ fresh' = {f \in fresh : f[2] # 1} \cup {<<r, 1>>}
            /\ kept' = kept \cup {grant[refresher[r].saw.secret]}
            /\ Go(r, "parent")
       ELSE Go(r, "caught") /\ UNCHANGED <<row, fresh, kept>>
    /\ UNCHANGED <<vault, secret, grant, spent, resent, admin, faults>>

Parent(r) ==
    /\ refresher[r].pc = "parent"
    /\ IF Active THEN Go(r, "commit") /\ Reads(r, 0)
                 ELSE Go(r, "absent") /\ UNCHANGED fresh
    /\ UNCHANGED <<vault, row, secret, grant, spent, kept, resent, admin, faults>>

Commit(r) ==
    /\ refresher[r].pc = "commit"
    /\ IF Has(r, {0, 1})
       THEN /\ row' = [row EXCEPT ![1] = [NoRow EXCEPT !.status = "active", !.secret = refresher[r].new]]
            /\ Writes({0, 1})
            /\ Go(r, "old")
       ELSE Go(r, "moved") /\ UNCHANGED <<row, fresh>>
    /\ UNCHANGED <<vault, secret, grant, spent, kept, resent, admin, faults>>

\* A conflict with another credential's write is retried with the same grant, ten times;
\* a row that is not what was read ends the attempt.
Moved(r) ==
    /\ refresher[r].pc = "moved"
    /\ \/ Has(r, {1}) /\ Go(r, "parent")
       \/ Go(r, "caught")
    /\ UNCHANGED <<vault, row, fresh, secret, grant, spent, kept, resent, admin, faults>>

Keeps(r) == row[1].pending = refresher[r].new /\ row[1].status = "active"

Caught(r) ==
    /\ refresher[r].pc = "caught"
    /\ Go(r, IF Keeps(r) THEN "done" ELSE "again")
    /\ UNCHANGED <<vault, row, fresh, secret, grant, spent, kept, resent, admin, faults>>

\* revoke(replacement): after a conflict that replaced it, or for an archived vault.
Revoke(r) ==
    /\ refresher[r].pc \in {"again", "absent"}
    /\ secret' = Revoked(refresher[r].new)
    /\ Go(r, IF refresher[r].pc = "again" THEN "finally" ELSE "done")
    /\ UNCHANGED <<vault, row, fresh, grant, spent, kept, resent, admin, faults>>

RevokeOld(r) ==
    /\ refresher[r].pc = "old"
    /\ secret' = Revoked(refresher[r].saw.secret)
    /\ Go(r, "done")
    /\ UNCHANGED <<vault, row, fresh, grant, spent, kept, resent, admin, faults>>

\* finally: the own lease is taken out of the row.  After a conflict the loop goes on.
Finally(r) ==
    /\ refresher[r].pc \in {"finally", "done"}
    /\ IF \E lease \in row[1].lease : lease.by = r
       THEN row' = [row EXCEPT ![1].lease = {}] /\ Writes({1})
       ELSE UNCHANGED <<row, fresh>>
    /\ Go(r, IF refresher[r].pc = "done" THEN "over" ELSE "read")
    /\ UNCHANGED <<vault, secret, grant, spent, kept, resent, admin, faults>>

----------------------------------------------------------------------------
Step(a, pc) == admin' = [admin EXCEPT ![a].pc = pc]

\* createCredential and updateCredential need an active vault, the latter an active credential.
ReadVault(a) ==
    LET op == admin[a].op IN
    /\ admin[a].pc = "vault"
    /\ IF op \in {"create", "update", "vault"} /\ Active
       THEN Step(a, IF op = "vault" THEN "close" ELSE "row") /\ Reads(a, 0)
       ELSE Step(a, IF op \in {"create", "update"} THEN "over" ELSE "row") /\ UNCHANGED fresh
    /\ UNCHANGED <<vault, row, secret, grant, spent, kept, resent, refresher, faults>>

\* "Archiving the parent first closes the creation/rotation fence."
Close(a) ==
    /\ admin[a].pc = "close"
    /\ IF Has(a, {0})
       THEN vault' = "archived" /\ Writes({0}) /\ Step(a, "row")
       ELSE Step(a, "refused") /\ UNCHANGED <<vault, fresh>>
    /\ UNCHANGED <<row, secret, grant, spent, kept, resent, refresher, faults>>

ReadRow(a) ==
    LET c == admin[a].of
        go == CASE admin[a].op = "create" -> "create"
                [] admin[a].op = "update" -> IF row[c].status = "active" THEN "create" ELSE "over"
                [] OTHER -> IF row[c].status = "none" THEN "next"
                            ELSE IF row[c].status = "archived" THEN "old" ELSE "archive" IN
    /\ admin[a].pc = "row"
    /\ admin' = [admin EXCEPT ![a].pc = go, ![a].saw = row[c]]
    /\ Reads(a, c)
    /\ UNCHANGED <<vault, row, secret, grant, spent, kept, resent, refresher, faults>>

\* Mutant: a rotation starts from the stored secret although another one is pending.
MutantRotated(a) == admin[a].saw.secret
Rotated(a) == Latest(admin[a].saw)

\* rotateCredentialAuth: an update brings a refresh token or keeps the one of the secret it read,
\* which may have been revoked meanwhile and then cannot be read.
CreateSecret(a) ==
    LET update == admin[a].op = "update" IN
    /\ admin[a].pc = "create"
    /\ IF update /\ secret[Rotated(a)] # "live"
       THEN Step(a, "over") /\ UNCHANGED <<secret, grant>>
       ELSE \E s \in Secrets :
            /\ \E token \in {s} \cup {grant[q] : q \in {p \in {Rotated(a)} : update}} : New(s, "live", token)
            /\ admin' = [admin EXCEPT ![a].pc = "commit", ![a].new = s]
    /\ UNCHANGED <<vault, row, fresh, spent, kept, resent, refresher, faults>>

\* The vault is part of the transaction.
Guards(a) == {0, admin[a].of}

CommitSecret(a) ==
    LET c == admin[a].of IN
    /\ admin[a].pc = "commit"
    /\ IF Has(a, Guards(a)) /\ (admin[a].op = "create" => row[c].status = "none")
       THEN /\ row' = [row EXCEPT ![c] = [NoRow EXCEPT !.status = "active", !.secret = admin[a].new]]
            /\ Writes({0, c})
            /\ Step(a, IF admin[a].op = "create" THEN "over" ELSE "old")
       ELSE Step(a, "undo") /\ UNCHANGED <<row, fresh>>
    /\ UNCHANGED <<vault, secret, grant, spent, kept, resent, refresher, faults>>

Undo(a) ==
    /\ admin[a].pc = "undo"
    /\ secret' = Revoked(admin[a].new)
    /\ Step(a, "over")
    /\ UNCHANGED <<vault, row, fresh, grant, spent, kept, resent, refresher, faults>>

\* archiveCredential(): a conflict ends the call with a 409; its caller may make it again.
Archive(a) ==
    LET c == admin[a].of IN
    /\ admin[a].pc = "archive"
    /\ IF Has(a, {c})
       THEN row' = [row EXCEPT ![c].status = "archived"] /\ Writes({c}) /\ Step(a, "old")
       ELSE (\E pc \in {"vault", "refused"} : Step(a, pc)) /\ UNCHANGED <<row, fresh>>
    /\ UNCHANGED <<vault, secret, grant, spent, kept, resent, refresher, faults>>

\* The secrets of the row that was read: the stored one, then the pending one.
RevokeRead(a) ==
    LET saw == admin[a].saw
        pending == admin[a].pc = "pending" IN
    /\ admin[a].pc \in {"old", "pending"}
    /\ secret' = Revoked(IF pending THEN saw.pending ELSE saw.secret)
    /\ Step(a, IF ~pending /\ saw.pending # 0 THEN "pending" ELSE IF admin[a].op = "update" THEN "over" ELSE "next")
    /\ UNCHANGED <<vault, row, fresh, grant, spent, kept, resent, refresher, faults>>

\* delete() goes through the vault's credentials.
NextRow(a) ==
    /\ admin[a].pc = "next"
    /\ IF admin[a].op = "vault" /\ admin[a].of = 1
       THEN admin' = [admin EXCEPT ![a].pc = "row", ![a].of = 2]
       ELSE Step(a, "over")
    /\ UNCHANGED <<vault, row, fresh, secret, grant, spent, kept, resent, refresher, faults>>

----------------------------------------------------------------------------
\* The clock passes a lease.
Expire ==
    /\ \E lease \in row[1].lease :
          /\ lease.open /\ (slow \/ refresher[lease.by].pc = "over")
          /\ row' = [row EXCEPT ![1].lease = {[lease EXCEPT !.open = FALSE]}]
    /\ UNCHANGED <<vault, fresh, secret, grant, spent, kept, resent, refresher, admin, faults>>

Fault == faults < MaxFaults /\ faults' = faults + 1

\* The refresher's process ends.
Crash(r) ==
    /\ refresher[r].pc \notin {"read", "over"}
    /\ Fault
    /\ Go(r, "over")
    /\ UNCHANGED <<vault, row, fresh, secret, grant, spent, kept, resent, admin>>

\* The commit takes effect and its answer is lost: nothing is revoked "on uncertainty".
CommitLost(r) ==
    /\ refresher[r].pc = "commit" /\ Has(r, {0, 1})
    /\ Fault
    /\ row' = [row EXCEPT ![1] = [NoRow EXCEPT !.status = "active", !.secret = refresher[r].new]]
    /\ Writes({0, 1}) /\ Go(r, "done")
    /\ UNCHANGED <<vault, secret, grant, spent, kept, resent, admin>>

\* The same of an administrator's transaction.
CommitSecretLost(a) ==
    LET c == admin[a].of IN
    /\ admin[a].pc = "commit" /\ Has(a, {0, c}) /\ (admin[a].op = "create" => row[c].status = "none")
    /\ Fault
    /\ row' = [row EXCEPT ![c] = [NoRow EXCEPT !.status = "active", !.secret = admin[a].new]]
    /\ Writes({0, c}) /\ Step(a, "over")
    /\ UNCHANGED <<vault, secret, grant, spent, kept, resent, refresher>>

Over ==
    /\ \A r \in Refreshers : refresher[r].pc = "over"
    /\ \A a \in Admins : admin[a].pc \in {"over", "refused"}

Next ==
    /\ UNCHANGED slow
    /\ \/ \E r \in Refreshers :
             \/ Read(r) \/ Lock(r) \/ Exchange(r) \/ Create(r) \/ Pend(r) \/ Parent(r) \/ Commit(r) \/ Moved(r)
             \/ Caught(r) \/ Revoke(r) \/ RevokeOld(r) \/ Finally(r) \/ Crash(r) \/ CommitLost(r)
       \/ \E a \in Admins :
             \/ ReadVault(a) \/ Close(a) \/ ReadRow(a) \/ CreateSecret(a) \/ CommitSecret(a) \/ Undo(a)
             \/ Archive(a) \/ RevokeRead(a) \/ NextRow(a) \/ CommitSecretLost(a)
       \/ Expire

Spec == Init /\ [][Next]_vars

----------------------------------------------------------------------------
\* What an active credential of an active vault refers to can be read, whoever lost a
\* race to write it: "An ambiguous write may have committed.  Never revoke the replacement."
StoredSecretsAreLive ==
    Active => \A c \in Credentials :
        row[c].status = "active" =>
            \A s \in {row[c].secret, row[c].pending} \ {0} : secret[s] = "live"

\* "A later invocation can finish this commit without reusing a refresh token already consumed
\* upstream": once the row refers to what a token was exchanged for, no holder of the lease sends
\* that token again, whatever rotations, crashes and stalls come between.
KeptGrantsAreSpentOnce == "kept" \notin resent

\* Without faults a secret that is live in the end is that of an active credential, of an active
\* vault or of one whose deletion was refused with a 409: "Retrying resumes cleanup".
NoSecretLeaks ==
    Over /\ faults = 0 =>
        \A s \in Secrets : secret[s] = "live" =>
            /\ Active \/ \E a \in Admins : admin[a].op = "vault" /\ admin[a].pc = "refused"
            /\ \E c \in Credentials : row[c].status = "active" /\ s \in {row[c].secret, row[c].pending}

\* The three together; a refresher that stalls past its lease may revoke the secret in use.
VaultsAreSound == (slow \/ StoredSecretsAreLive) /\ KeptGrantsAreSpentOnce /\ NoSecretLeaks

\* A refresh token is exchanged once: "never exchange it a second time".
\* It does not hold: README.md, section 7.
GrantsAreSentOnce == resent = {}
=============================================================================
