-------------------- MODULE IntegrationConnections_proofs --------------------
(***************************************************************************)
(* Proofs about IntegrationConnections: whoever creates, tests, rotates,   *)
(* revokes and refreshes connections at the same time, an alias leads to   *)
(* its connection, no secret is without one unless a call failed, and one  *)
(* process refreshes a credential at a time unless its lease ran out; for  *)
(* any number of processes, connections, aliases and credentials.          *)
(***************************************************************************)
EXTENDS IntegrationConnections, SequenceTheorems, TLAPS

\* A connection that there is has an alias, and something was stored for it.
RowsAreWhole ==
    \A c \in Connections :
        row[c] # NoRow => row[c].status # "none" /\ row[c].alias \in Names /\ secret[c] # Absent

\* Only credentials that were issued are stored.
StoredWereIssued == \A c \in Connections : secret[c] <= Len(issued)

Creates(p) == proc[p].pc \in {"create", "bundle", "cleanup"}

\* A creation names what it creates, and stored a secret before it writes the row.
CreationIsWhole(p) ==
    /\ Creates(p) <=> proc[p].kind = "create"
    /\ Creates(p) =>
         /\ proc[p].c \in Connections
         /\ proc[p].row.status = "active" /\ proc[p].row.alias \in Names
    /\ proc[p].pc = "bundle" => secret[proc[p].c] # Absent

\* Every other operation read the row of a connection that there is, which keeps its alias.
OperatesOnRow(p) ==
    proc[p].pc # "idle" /\ ~Creates(p) =>
        /\ proc[p].c \in Connections /\ row[proc[p].c] # NoRow
        /\ proc[p].row.status # "none"
        /\ proc[p].row.alias = row[proc[p].c].alias

\* What a process holds was issued, and it holds a credential when it comes to use it.
HoldsIssued(p) ==
    /\ proc[p].cred <= Len(issued)
    /\ proc[p].pc \in {"create", "store", "lock", "exchange", "replace"} => proc[p].cred > 0

Sound(p) == CreationIsWhole(p) /\ OperatesOnRow(p) /\ HoldsIssued(p)

\* The inductive invariant.
ConnectionsInv ==
    /\ Assumptions /\ TypeOK
    /\ RowsAreWhole /\ StoredWereIssued /\ \A p \in Procs : Sound(p)
    /\ AliasesResolve /\ NoOrphans /\ LockIsHeld

-----------------------------------------------------------------------------
(* How an operation moves *)

OnlyMoves(p) ==
    /\ proc' \in [Procs -> Proc]
    /\ \A q \in Procs \ {p} : proc'[q] = proc[q]

LEMMA Becomes ==
    ASSUME TypeOK, NEW p \in Procs, NEW me \in Proc, proc' = [proc EXCEPT ![p] = me]
    PROVE  OnlyMoves(p) /\ proc'[p] = me
  BY DEF TypeOK, OnlyMoves

LEMMA IdleType ==
    ASSUME Assumptions
    PROVE  /\ Idle \in Proc /\ Idle.pc = "idle" /\ Idle.kind = "none" /\ Idle.cred = 0
           /\ Idle.c = Free /\ Idle.row = NoRow /\ Idle.lapsed = FALSE /\ Idle.result = "ok"
  BY DEF Assumptions, Idle, Proc, Row, NoRow

LEMMA GoesOn ==
    ASSUME TypeOK, NEW p \in Procs,
           NEW pc \in {"bundle", "cleanup", "delete", "exchange", "wait", "release"},
           Goes(p, pc)
    PROVE  /\ OnlyMoves(p) /\ proc'[p].pc = pc
           /\ proc'[p].kind = proc[p].kind /\ proc'[p].c = proc[p].c /\ proc'[p].row = proc[p].row
           /\ proc'[p].cred = proc[p].cred /\ proc'[p].lapsed = proc[p].lapsed
  <1> DEFINE me == [proc[p] EXCEPT !.pc = pc]
  <1>1. proc[p] \in Proc
    BY DEF TypeOK
  <1>2. /\ me \in Proc /\ me.pc = pc /\ me.kind = proc[p].kind /\ me.c = proc[p].c
        /\ me.row = proc[p].row /\ me.cred = proc[p].cred /\ me.lapsed = proc[p].lapsed
    BY <1>1 DEF Proc
  <1>3. proc' = [proc EXCEPT ![p] = me]
    BY DEF Goes, TypeOK
  <1> HIDE DEF me
  <1> QED
    BY <1>2, <1>3, Becomes

\* An operation without a connection says nothing.
LEMMA EndsSound ==
    ASSUME Assumptions, TypeOK, NEW p \in Procs, Ends(p), issued' \in Seq(Credential)
    PROVE  OnlyMoves(p) /\ proc'[p] = Idle /\ Sound(p)'
  <1>1. OnlyMoves(p) /\ proc'[p] = Idle
    BY IdleType, Becomes DEF Ends
  <1>2. Len(issued') \in Nat
    BY LenProperties
  <1>3. ~Creates(p)' /\ proc'[p].pc = "idle" /\ proc'[p].kind = "none" /\ proc'[p].cred = 0
    BY <1>1, IdleType DEF Creates
  <1> QED
    BY <1>1, <1>2, <1>3 DEF Sound, CreationIsWhole, OperatesOnRow, HoldsIssued

\* An operation of a row goes on to write a status.
LEMMA SavesSound ==
    ASSUME Assumptions, TypeOK, NEW p \in Procs, NEW status \in {"active", "expired"}, Saves(p, status),
           OperatesOnRow(p), proc[p].pc # "idle", ~Creates(p), row' = row, issued' \in Seq(Credential)
    PROVE  OnlyMoves(p) /\ proc'[p].pc = "save" /\ Sound(p)'
  <1> DEFINE r == [proc[p].row EXCEPT !.status = status]
  <1> DEFINE me == [Idle EXCEPT !.pc = "save", !.c = proc[p].c, !.row = r]
  <1>1. proc[p].row \in Row /\ proc[p].c \in Connections \cup {Free}
    BY DEF TypeOK, Proc
  <1>2. r \in Row /\ r.status = status /\ r.alias = proc[p].row.alias
    BY <1>1 DEF Row
  <1>3. proc' = [proc EXCEPT ![p] = me]
    BY DEF Saves
  <1> HIDE DEF r
  <1>4. me \in Proc /\ me.pc = "save" /\ me.kind = "none" /\ me.c = proc[p].c /\ me.row = r /\ me.cred = 0
    BY <1>1, <1>2, IdleType DEF Proc
  <1> HIDE DEF me
  <1>5. OnlyMoves(p) /\ proc'[p] = me
    BY <1>3, <1>4, Becomes
  <1>6. Len(issued') \in Nat
    BY LenProperties
  <1>7. proc'[p].pc = "save" /\ ~Creates(p)'
    BY <1>4, <1>5 DEF Creates
  <1> QED
    BY <1>2, <1>4, <1>5, <1>6, <1>7 DEF Sound, CreationIsWhole, OperatesOnRow, HoldsIssued, Creates

\* What a refresh or a read of the credential is followed by.
LEMMA ResolvesSound ==
    ASSUME Assumptions, TypeOK, NEW p \in Procs, Resolves(p),
           OperatesOnRow(p), proc[p].pc # "idle", ~Creates(p), row' = row, issued' \in Seq(Credential)
    PROVE  OnlyMoves(p) /\ proc'[p].pc \in {"idle", "verify"} /\ Sound(p)'
  <1>1. CASE proc[p].kind = "test"
    <2> DEFINE me == [Idle EXCEPT !.pc = "verify", !.kind = "test", !.c = proc[p].c, !.row = proc[p].row]
    <2>1. proc[p].row \in Row /\ proc[p].c \in Connections \cup {Free}
      BY DEF TypeOK, Proc
    <2>2. me \in Proc /\ me.pc = "verify" /\ me.kind = "test" /\ me.c = proc[p].c /\ me.row = proc[p].row /\ me.cred = 0
      BY <2>1, IdleType DEF Proc
    <2>3. proc' = [proc EXCEPT ![p] = me]
      BY <1>1 DEF Resolves
    <2> HIDE DEF me
    <2>4. OnlyMoves(p) /\ proc'[p] = me
      BY <2>2, <2>3, Becomes
    <2>5. Len(issued') \in Nat
      BY LenProperties
    <2>6. proc'[p].pc = "verify" /\ ~Creates(p)'
      BY <2>2, <2>4 DEF Creates
    <2> QED
      BY <2>2, <2>4, <2>5, <2>6 DEF Sound, CreationIsWhole, OperatesOnRow, HoldsIssued, Creates
  <1>2. CASE proc[p].kind # "test"
    BY <1>2, EndsSound, IdleType DEF Resolves
  <1> QED
    BY <1>1, <1>2

LEMMA RejectedSound ==
    ASSUME Assumptions, TypeOK, NEW p \in Procs, Rejected(p),
           OperatesOnRow(p), proc[p].pc # "idle", ~Creates(p), row' = row, issued' \in Seq(Credential)
    PROVE  OnlyMoves(p) /\ proc'[p].pc \in {"idle", "save"} /\ Sound(p)'
  <1>1. CASE Saves(p, "expired")
    BY <1>1, SavesSound
  <1>2. CASE Ends(p)
    BY <1>2, EndsSound, IdleType
  <1> QED
    BY <1>1, <1>2 DEF Rejected

-----------------------------------------------------------------------------
(* What a step leaves to the other operations *)

\* A connection never goes and keeps its alias; what was stored is replaced, not forgotten; and
\* issued credentials stay issued.
Grows ==
    /\ \A c \in Connections : row[c] # NoRow => row'[c] # NoRow /\ row'[c].alias = row[c].alias
    /\ \A c \in Connections : secret[c] # Absent => secret'[c] # Absent
    /\ Len(issued) <= Len(issued')

\* Who else has the secret of a connection that there is not.
KeepsCreations(p) ==
    faults' = 0 => \A c \in Connections : secret'[c] \notin {Absent, Deleted} =>
        \/ row'[c] # NoRow
        \/ proc'[p].kind = "create" /\ proc'[p].c = c
        \/ /\ secret[c] \notin {Absent, Deleted}
           /\ row[c] # NoRow => row'[c] # NoRow
           /\ ~(proc[p].kind = "create" /\ proc[p].c = c)

LEMMA StaysSound ==
    ASSUME ConnectionsInv, NEW q \in Procs, proc'[q] = proc[q], Grows, issued' \in Seq(Credential)
    PROVE  Sound(q)'
  <1>1. /\ Len(issued) \in Nat /\ Len(issued') \in Nat /\ Len(issued) <= Len(issued')
        /\ proc[q].cred \in Nat
    BY LenProperties DEF ConnectionsInv, TypeOK, Proc, Grows
  <1>2. HoldsIssued(q)'
    BY <1>1 DEF ConnectionsInv, Sound, HoldsIssued
  <1>3. CreationIsWhole(q)' /\ OperatesOnRow(q)'
    BY DEF ConnectionsInv, Sound, CreationIsWhole, OperatesOnRow, Creates, Grows
  <1> QED
    BY <1>2, <1>3 DEF Sound

LEMMA StepKeeps ==
    ASSUME ConnectionsInv, NEW p \in Procs, OnlyMoves(p), Sound(p)', TypeOK', Grows,
           RowsAreWhole', StoredWereIssued', AliasesResolve', LockIsHeld',
           KeepsCreations(p), faults' = 0 => faults = 0
    PROVE  ConnectionsInv'
  <1>1. \A q \in Procs : Sound(q)'
    <2> SUFFICES ASSUME NEW q \in Procs PROVE Sound(q)'
      OBVIOUS
    <2>1. CASE q = p
      BY <2>1
    <2>2. CASE q # p
      BY <2>2, StaysSound DEF OnlyMoves, TypeOK
    <2> QED
      BY <2>1, <2>2
  <1>2. NoOrphans'
    <2> SUFFICES ASSUME faults' = 0, NEW c \in Connections, secret'[c] \notin {Absent, Deleted},
                        row'[c] = NoRow
                 PROVE  \E q \in Procs : proc'[q].kind = "create" /\ proc'[q].c = c
      BY DEF NoOrphans, Absent, Deleted
    <2>1. CASE proc'[p].kind = "create" /\ proc'[p].c = c
      BY <2>1
    <2>2. CASE /\ secret[c] \notin {Absent, Deleted} /\ row[c] = NoRow
               /\ ~(proc[p].kind = "create" /\ proc[p].c = c)
      <3>1. PICK q \in Procs : proc[q].kind = "create" /\ proc[q].c = c
        BY <2>2 DEF ConnectionsInv, NoOrphans
      <3>2. q # p
        BY <2>2, <3>1
      <3> QED
        BY <3>1, <3>2 DEF OnlyMoves
    <2> QED
      BY <2>1, <2>2 DEF KeepsCreations
  <1> QED
    BY <1>1, <1>2 DEF ConnectionsInv, Assumptions

\* The lease is looked at by the process that moves only.
LEMMA LeaseStays ==
    ASSUME ConnectionsInv, NEW p \in Procs, OnlyMoves(p), lock' = lock,
           proc'[p].pc \in Refreshing /\ ~proc'[p].lapsed => lock[proc'[p].c] = p
    PROVE  LockIsHeld'
  BY DEF ConnectionsInv, LockIsHeld, OnlyMoves

\* A step that writes nothing.
LEMMA WritesNothing ==
    ASSUME ConnectionsInv, NEW p \in Procs, OnlyMoves(p), Sound(p)',
           UNCHANGED <<row, aliases, secret, lock, issued, wanted>>, faults' \in 0 .. MaxFaults,
           proc'[p].pc \in Refreshing /\ ~proc'[p].lapsed => lock[proc'[p].c] = p,
           faults' = 0 => faults = 0,
           faults' # 0 \/ ~Creates(p)
    PROVE  ConnectionsInv'
  <1>1. TypeOK' /\ Grows
    <2>1. Len(issued) \in Nat
      BY LenProperties DEF ConnectionsInv, TypeOK
    <2> QED
      BY <2>1 DEF ConnectionsInv, TypeOK, OnlyMoves, Grows
  <1>2. RowsAreWhole' /\ StoredWereIssued' /\ AliasesResolve'
    BY DEF ConnectionsInv, RowsAreWhole, StoredWereIssued, AliasesResolve
  <1>3. LockIsHeld'
    BY LeaseStays
  <1>4. KeepsCreations(p)
    BY DEF KeepsCreations, ConnectionsInv, Sound, CreationIsWhole
  <1> QED
    BY <1>1, <1>2, <1>3, <1>4, StepKeeps

\* A step of an operation of a row that writes a secret, or none.
LEMMA WritesSecret ==
    ASSUME ConnectionsInv, NEW p \in Procs, OnlyMoves(p), Sound(p)', proc[p].c \in Connections,
           NEW v \in Deleted .. MaxCredentials, v # Absent, v <= Len(issued),
           secret' = [secret EXCEPT ![proc[p].c] = v],
           UNCHANGED <<row, aliases, lock, issued, wanted>>, faults' \in 0 .. MaxFaults,
           proc'[p].pc \in Refreshing /\ ~proc'[p].lapsed => lock[proc'[p].c] = p,
           faults' = 0 => faults = 0,
           \/ v = Deleted
           \/ row[proc[p].c] # NoRow
           \/ proc'[p].kind = "create" /\ proc'[p].c = proc[p].c,
           Creates(p) /\ v # Deleted => proc'[p].kind = "create" /\ proc'[p].c = proc[p].c
    PROVE  ConnectionsInv'
  <1>1. secret \in [Connections -> Deleted .. MaxCredentials] /\ Len(issued) \in Nat
    BY LenProperties DEF ConnectionsInv, TypeOK
  <1>2. secret'[proc[p].c] = v /\ \A c \in Connections \ {proc[p].c} : secret'[c] = secret[c]
    BY <1>1
  <1>3. TypeOK' /\ Grows
    BY <1>1, <1>2 DEF ConnectionsInv, TypeOK, OnlyMoves, Grows
  <1>4. RowsAreWhole' /\ StoredWereIssued' /\ AliasesResolve'
    BY <1>2 DEF ConnectionsInv, RowsAreWhole, StoredWereIssued, AliasesResolve
  <1>5. LockIsHeld'
    BY LeaseStays
  <1>6. KeepsCreations(p)
    BY <1>2 DEF KeepsCreations, ConnectionsInv, Sound, CreationIsWhole
  <1> QED
    BY <1>3, <1>4, <1>5, <1>6, StepKeeps

-----------------------------------------------------------------------------
(* create *)

LEMMA IssueType ==
    ASSUME Assumptions, TypeOK, NEW credential \in Credential, Issue(credential)
    PROVE  /\ issued' \in Seq(Credential) /\ Len(issued') = Len(issued) + 1
           /\ Len(issued') <= MaxCredentials /\ Latest = Len(issued') /\ Len(issued) \in Nat
  <1>1. issued \in Seq(Credential) /\ Len(issued) < MaxCredentials /\ issued' = Append(issued, credential)
    BY DEF TypeOK, Issue
  <1>2. issued' \in Seq(Credential) /\ Len(issued') = Len(issued) + 1 /\ Len(issued) \in Nat
    BY <1>1, AppendProperties, LenProperties
  <1> QED
    BY <1>1, <1>2 DEF Latest, Assumptions

LEMMA SignInType ==
    ASSUME Assumptions, TypeOK, NEW account \in Accounts, SignsIn(account)
    PROVE  /\ issued' \in Seq(Credential) /\ Len(issued') = Len(issued) + 1
           /\ Len(issued') <= MaxCredentials /\ Latest = Len(issued') /\ Len(issued) \in Nat
  <1>1. PICK refresh \in {"live", "none"} : Issue([account |-> account, access |-> "fresh", refresh |-> refresh])
    BY DEF SignsIn
  <1>2. [account |-> account, access |-> "fresh", refresh |-> refresh] \in Credential
    BY DEF Credential
  <1> QED
    BY <1>1, <1>2, IssueType

\* A step after which more was issued and only the operation moved.
LEMMA IssuesMore ==
    ASSUME ConnectionsInv, NEW p \in Procs, OnlyMoves(p), Sound(p)',
           issued' \in Seq(Credential), Len(issued') \in Len(issued) .. MaxCredentials,
           UNCHANGED <<row, aliases, secret, lock, wanted>>, faults' \in 0 .. MaxFaults,
           proc'[p].pc \in Refreshing /\ ~proc'[p].lapsed => lock[proc'[p].c] = p,
           faults' = 0 => faults = 0, ~Creates(p)
    PROVE  ConnectionsInv'
  <1>1. Len(issued) \in Nat /\ Len(issued') \in Nat /\ MaxCredentials \in Nat
    BY LenProperties DEF ConnectionsInv, TypeOK, Assumptions
  <1>2. TypeOK' /\ Grows
    BY <1>1 DEF ConnectionsInv, TypeOK, OnlyMoves, Grows
  <1>3. RowsAreWhole' /\ AliasesResolve'
    BY DEF ConnectionsInv, RowsAreWhole, AliasesResolve
  <1>4. StoredWereIssued'
    <2>1. \A c \in Connections : secret[c] \in Int /\ secret[c] <= Len(issued)
      BY <1>1 DEF ConnectionsInv, TypeOK, StoredWereIssued, Deleted
    <2> QED
      BY <1>1, <2>1 DEF StoredWereIssued
  <1>5. LockIsHeld'
    BY LeaseStays
  <1>6. KeepsCreations(p)
    BY DEF KeepsCreations, ConnectionsInv, Sound, CreationIsWhole
  <1> QED
    BY <1>2, <1>3, <1>4, <1>5, <1>6, StepKeeps

LEMMA BeginCreateKeeps ==
    ASSUME ConnectionsInv, NEW p \in Procs, NEW c \in Connections, NEW account \in Accounts,
           NEW alias \in Names, BeginCreate(p, c, account, alias)
    PROVE  ConnectionsInv'
  <1> DEFINE r == [status |-> "active", account |-> account, alias |-> alias]
  <1> DEFINE me == [Idle EXCEPT !.pc = "create", !.kind = "create", !.c = c, !.cred = Latest, !.row = r]
  <1>1. /\ issued' \in Seq(Credential) /\ Len(issued') = Len(issued) + 1
        /\ Len(issued') <= MaxCredentials /\ Latest = Len(issued') /\ Len(issued) \in Nat
    BY SignInType DEF BeginCreate, ConnectionsInv
  <1>2. r \in Row /\ r.status = "active" /\ r.alias = alias
    BY DEF Row
  <1>3. proc' = [proc EXCEPT ![p] = me]
    BY DEF BeginCreate
  <1> HIDE DEF r
  <1>4. Latest \in 0 .. MaxCredentials /\ MaxCredentials \in Nat
    BY <1>1 DEF ConnectionsInv, Assumptions
  <1>5. /\ me \in Proc /\ me.pc = "create" /\ me.kind = "create" /\ me.c = c /\ me.row = r
        /\ me.cred = Latest
    BY <1>2, <1>4, IdleType DEF ConnectionsInv, Proc
  <1> HIDE DEF me
  <1>6. OnlyMoves(p) /\ proc'[p] = me
    BY <1>3, <1>5, Becomes DEF ConnectionsInv
  <1>7. Creates(p)' /\ ~Creates(p)
    BY <1>5, <1>6 DEF Creates, BeginCreate, At
  <1>8. Sound(p)'
    BY <1>1, <1>2, <1>5, <1>6, <1>7 DEF Sound, CreationIsWhole, OperatesOnRow, HoldsIssued
  <1>9. proc'[p].pc \notin Refreshing
    BY <1>5, <1>6 DEF Refreshing
  <1>10. Len(issued') \in Len(issued) .. MaxCredentials /\ faults' \in 0 .. MaxFaults
    BY <1>1, <1>4 DEF BeginCreate, ConnectionsInv, TypeOK
  <1> QED
    BY <1>1, <1>6, <1>7, <1>8, <1>9, <1>10, IssuesMore DEF BeginCreate

LEMMA CreateSecretKeeps ==
    ASSUME ConnectionsInv, NEW p \in Procs, CreateSecret(p)
    PROVE  ConnectionsInv'
  <1>1. /\ OnlyMoves(p) /\ proc'[p].pc = "bundle"
        /\ proc'[p].kind = proc[p].kind /\ proc'[p].c = proc[p].c /\ proc'[p].row = proc[p].row
        /\ proc'[p].cred = proc[p].cred
    BY GoesOn DEF CreateSecret, ConnectionsInv
  <1>2. /\ proc[p].pc = "create" /\ proc[p].kind = "create" /\ proc[p].c \in Connections
        /\ proc[p].row.status = "active" /\ proc[p].row.alias \in Names
        /\ proc[p].cred > 0 /\ proc[p].cred <= Len(issued)
    BY DEF CreateSecret, At, ConnectionsInv, Sound, CreationIsWhole, HoldsIssued, Creates
  <1>3. proc[p].cred \in 0 .. MaxCredentials /\ MaxCredentials \in Nat
    BY DEF ConnectionsInv, TypeOK, Proc, Assumptions
  <1>4. secret' = [secret EXCEPT ![proc[p].c] = proc[p].cred] /\ issued' = issued
    BY DEF CreateSecret
  <1>5. secret'[proc[p].c] # Absent
    BY <1>2, <1>3, <1>4 DEF ConnectionsInv, TypeOK, Absent
  <1>6. Sound(p)'
    BY <1>1, <1>2, <1>4, <1>5 DEF Sound, CreationIsWhole, OperatesOnRow, HoldsIssued, Creates
  <1>7. proc[p].cred \in Deleted .. MaxCredentials /\ proc[p].cred # Absent
    BY <1>2, <1>3 DEF Deleted, Absent
  <1>8. proc'[p].pc \notin Refreshing /\ faults' = faults /\ faults' \in 0 .. MaxFaults
    BY <1>1 DEF Refreshing, CreateSecret, ConnectionsInv, TypeOK
  <1> QED
    BY <1>1, <1>2, <1>4, <1>6, <1>7, <1>8, WritesSecret DEF CreateSecret

LEMMA FaultType ==
    ASSUME ConnectionsInv, Fault \/ NoFault
    PROVE  /\ faults' \in 0 .. MaxFaults /\ (faults' = 0 => faults = 0)
           /\ Fault => faults' # 0
  BY DEF ConnectionsInv, Assumptions, TypeOK, Fault, NoFault

\* A creation that failed goes to remove its secret.
LEMMA GoesToCleanup ==
    ASSUME ConnectionsInv, NEW p \in Procs, proc[p].pc = "bundle", Goes(p, "cleanup"), issued' = issued
    PROVE  /\ OnlyMoves(p) /\ Sound(p)' /\ proc'[p].pc = "cleanup"
           /\ proc'[p].kind = "create" /\ proc'[p].c = proc[p].c
  <1>1. /\ OnlyMoves(p) /\ proc'[p].pc = "cleanup"
        /\ proc'[p].kind = proc[p].kind /\ proc'[p].c = proc[p].c /\ proc'[p].row = proc[p].row
        /\ proc'[p].cred = proc[p].cred
    BY GoesOn DEF ConnectionsInv
  <1> QED
    BY <1>1 DEF ConnectionsInv, Sound, CreationIsWhole, OperatesOnRow, HoldsIssued, Creates

LEMMA PutBundleKeeps ==
    ASSUME ConnectionsInv, NEW p \in Procs, PutBundle(p)
    PROVE  ConnectionsInv'
  <1> DEFINE c == proc[p].c
  <1> DEFINE r == proc[p].row
  <1>1. /\ proc[p].pc = "bundle" /\ proc[p].kind = "create" /\ c \in Connections
        /\ r.status = "active" /\ r.alias \in Names /\ secret[c] # Absent
        /\ r \in Row
    BY DEF PutBundle, At, ConnectionsInv, Sound, CreationIsWhole, Creates, TypeOK, Proc
  <1>2. /\ UNCHANGED <<secret, lock, issued, wanted>>
        /\ issued' \in Seq(Credential) /\ Len(issued) \in Nat
    BY LenProperties DEF PutBundle, ConnectionsInv, TypeOK
  <1>3. /\ faults' \in 0 .. MaxFaults /\ (faults' = 0 => faults = 0)
    BY FaultType DEF PutBundle
  <1>4. /\ OnlyMoves(p) /\ Sound(p)' /\ proc'[p].pc \notin Refreshing
        /\ \/ proc'[p].kind = "create" /\ proc'[p].c = c
           \/ Ends(p)
    <2>1. CASE Ends(p)
      BY <1>2, <2>1, EndsSound, IdleType DEF ConnectionsInv, Refreshing
    <2>2. CASE Goes(p, "cleanup")
      BY <1>1, <1>2, <2>2, GoesToCleanup DEF Refreshing
    <2> QED
      BY <2>1, <2>2 DEF PutBundle
  <1>5. LockIsHeld'
    BY <1>2, <1>4, LeaseStays
  <1>6. CASE /\ BundleAllowed(p)
             /\ row' = [row EXCEPT ![c] = r]
             /\ aliases' = [aliases EXCEPT ![r.alias] = c]
    <2>1. /\ row \in [Connections -> Row] /\ aliases \in [Names -> Connections \cup {Free}]
          /\ row[c] = NoRow /\ aliases[r.alias] = Free
      BY <1>6 DEF ConnectionsInv, TypeOK, BundleAllowed
    <2> HIDE DEF c, r
    <2>2. row'[c] = r /\ \A d \in Connections \ {c} : row'[d] = row[d]
      BY <1>1, <1>6, <2>1
    <2>3. aliases'[r.alias] = c /\ \A a \in Names \ {r.alias} : aliases'[a] = aliases[a]
      BY <1>1, <1>6, <2>1
    <2>4. r # NoRow
      BY <1>1 DEF NoRow
    <2>5. TypeOK'
      BY <1>1, <1>2, <1>3, <1>4, <1>6, <2>1 DEF ConnectionsInv, TypeOK, OnlyMoves
    <2>6. Grows
      BY <1>2, <2>1, <2>2, <2>4 DEF Grows
    <2>7. RowsAreWhole' /\ StoredWereIssued'
      BY <1>1, <1>2, <2>2 DEF ConnectionsInv, RowsAreWhole, StoredWereIssued
    <2>8. AliasesResolve'
      <3> SUFFICES ASSUME NEW d \in Connections, row'[d] # NoRow
                   PROVE  aliases'[row'[d].alias] = d
        BY DEF AliasesResolve
      <3>1. CASE d = c
        BY <2>2, <2>3, <3>1
      <3>2. CASE d # c
        <4>1. row'[d] = row[d] /\ row[d] # NoRow /\ row[d].alias \in Names /\ aliases[row[d].alias] = d
          BY <2>2, <3>2 DEF ConnectionsInv, RowsAreWhole, AliasesResolve
        <4>2. row[d].alias # r.alias
          BY <2>1, <4>1 DEF ConnectionsInv, Assumptions
        <4> QED
          BY <2>3, <4>1, <4>2
      <3> QED
        BY <3>1, <3>2
    <2>9. KeepsCreations(p)
      BY <1>2, <2>2, <2>4 DEF KeepsCreations, c
    <2> QED
      BY <1>3, <1>4, <1>5, <2>5, <2>6, <2>7, <2>8, <2>9, StepKeeps
  <1>7. CASE UNCHANGED <<row, aliases>> /\ Goes(p, "cleanup")
    <2>1. proc'[p].kind = "create" /\ proc'[p].c = c
      BY <1>1, <1>2, <1>7, GoesToCleanup
    <2> HIDE DEF c, r
    <2>2. TypeOK' /\ Grows
      BY <1>2, <1>3, <1>4, <1>7 DEF ConnectionsInv, TypeOK, OnlyMoves, Grows
    <2>3. RowsAreWhole' /\ StoredWereIssued' /\ AliasesResolve'
      BY <1>2, <1>7 DEF ConnectionsInv, RowsAreWhole, StoredWereIssued, AliasesResolve
    <2>4. KeepsCreations(p)
      BY <1>2, <1>7, <2>1 DEF KeepsCreations, c
    <2> QED
      BY <1>3, <1>4, <1>5, <2>2, <2>3, <2>4, StepKeeps
  <1> QED
    BY <1>6, <1>7 DEF PutBundle

LEMMA CleanupKeeps ==
    ASSUME ConnectionsInv, NEW p \in Procs, Cleanup(p)
    PROVE  ConnectionsInv'
  <1>1. OnlyMoves(p) /\ proc'[p] = Idle /\ Sound(p)' /\ Idle.pc \notin Refreshing
    BY EndsSound, IdleType DEF Cleanup, ConnectionsInv, TypeOK, Refreshing
  <1>2. proc[p].c \in Connections
    BY DEF Cleanup, At, ConnectionsInv, Sound, CreationIsWhole, Creates
  <1>3. /\ faults' \in 0 .. MaxFaults /\ (faults' = 0 => faults = 0) /\ (Fault => faults' # 0)
    BY FaultType DEF Cleanup
  <1>4. Deleted \in Deleted .. MaxCredentials /\ Deleted # Absent /\ Deleted <= Len(issued)
    BY LenProperties DEF ConnectionsInv, Assumptions, TypeOK, Deleted, Absent
  <1>5. CASE secret' = [secret EXCEPT ![proc[p].c] = Deleted]
    BY <1>1, <1>2, <1>3, <1>4, <1>5, WritesSecret DEF Cleanup
  <1>6. CASE UNCHANGED secret /\ Fault
    BY <1>1, <1>3, <1>6, WritesNothing DEF Cleanup
  <1> QED
    BY <1>5, <1>6 DEF Cleanup

-----------------------------------------------------------------------------
(* test, rename, rotate, revoke and calls *)

LEMMA BeginsSound ==
    ASSUME ConnectionsInv, NEW p \in Procs, NEW c \in Connections,
           NEW kind \in {"none", "test", "rotate", "revoke", "call"},
           NEW pc \in {"read", "save", "store", "mark"}, NEW cred \in 0 .. MaxCredentials,
           Begins(p, c, kind, pc, cred),
           issued' \in Seq(Credential), cred <= Len(issued'), pc = "store" => cred > 0
    PROVE  OnlyMoves(p) /\ Sound(p)' /\ proc'[p].pc = pc /\ ~Creates(p)
  <1> DEFINE me == [Idle EXCEPT !.pc = pc, !.kind = kind, !.c = c, !.row = row[c], !.cred = cred]
  <1>1. row[c] \in Row /\ row' = row /\ proc[p].pc = "idle" /\ row[c] # NoRow
    BY DEF ConnectionsInv, TypeOK, Begins, At
  <1>2. /\ me \in Proc /\ me.pc = pc /\ me.kind = kind /\ me.c = c /\ me.row = row[c] /\ me.cred = cred
    BY <1>1, IdleType DEF ConnectionsInv, Proc
  <1>3. proc' = [proc EXCEPT ![p] = me]
    BY DEF Begins
  <1> HIDE DEF me
  <1>4. OnlyMoves(p) /\ proc'[p] = me
    BY <1>2, <1>3, Becomes DEF ConnectionsInv
  <1>5. ~Creates(p)' /\ ~Creates(p)
    BY <1>1, <1>2, <1>4 DEF Creates
  <1>6. row[c].status # "none"
    BY <1>1 DEF ConnectionsInv, RowsAreWhole
  <1>7. CreationIsWhole(p)' /\ OperatesOnRow(p)'
    BY <1>1, <1>2, <1>4, <1>5, <1>6 DEF CreationIsWhole, OperatesOnRow
  <1>8. HoldsIssued(p)'
    BY <1>2, <1>4 DEF HoldsIssued
  <1> QED
    BY <1>2, <1>4, <1>5, <1>7, <1>8 DEF Sound

\* test, a call, rename and revoke begin with reading the row.
LEMMA BeginsKeeps ==
    ASSUME ConnectionsInv, NEW p \in Procs, NEW c \in Connections,
           BeginTest(p, c) \/ BeginCall(p, c) \/ BeginRename(p, c) \/ BeginRevoke(p, c)
    PROVE  ConnectionsInv'
  <1>1. /\ issued' = issued /\ issued' \in Seq(Credential) /\ 0 <= Len(issued')
        /\ 0 \in 0 .. MaxCredentials
    BY LenProperties DEF ConnectionsInv, TypeOK, Assumptions, BeginTest, BeginCall, BeginRename, BeginRevoke
  <1>2. /\ UNCHANGED <<row, aliases, secret, lock, wanted, faults>>
        /\ faults' \in 0 .. MaxFaults
    BY DEF BeginTest, BeginCall, BeginRename, BeginRevoke, Begins, ConnectionsInv, TypeOK
  <1>3. OnlyMoves(p) /\ Sound(p)' /\ proc'[p].pc \in {"read", "save", "mark"} /\ ~Creates(p)
    <2>1. CASE Begins(p, c, "test", "read", 0)
      BY <1>1, <2>1, BeginsSound
    <2>2. CASE Begins(p, c, "call", "read", 0)
      BY <1>1, <2>2, BeginsSound
    <2>3. CASE Begins(p, c, "none", "save", 0)
      BY <1>1, <2>3, BeginsSound
    <2>4. CASE Begins(p, c, "revoke", "mark", 0)
      BY <1>1, <2>4, BeginsSound
    <2> QED
      BY <2>1, <2>2, <2>3, <2>4 DEF BeginTest, BeginCall, BeginRename, BeginRevoke
  <1>4. proc'[p].pc \notin Refreshing
    BY <1>3 DEF Refreshing
  <1> QED
    BY <1>1, <1>2, <1>3, <1>4, WritesNothing

LEMMA BeginRotateKeeps ==
    ASSUME ConnectionsInv, NEW p \in Procs, NEW c \in Connections, NEW account \in Accounts,
           BeginRotate(p, c, account)
    PROVE  ConnectionsInv'
  <1>1. /\ issued' \in Seq(Credential) /\ Len(issued') = Len(issued) + 1
        /\ Len(issued') <= MaxCredentials /\ Latest = Len(issued') /\ Len(issued) \in Nat
    BY SignInType DEF BeginRotate, ConnectionsInv
  <1>2. MaxCredentials \in Nat /\ Latest \in 0 .. MaxCredentials /\ Latest > 0
    BY <1>1 DEF ConnectionsInv, Assumptions
  <1>3. /\ UNCHANGED <<row, aliases, secret, lock, wanted, faults>>
        /\ faults' \in 0 .. MaxFaults
    BY DEF BeginRotate, Begins, ConnectionsInv, TypeOK
  <1>4. OnlyMoves(p) /\ Sound(p)' /\ proc'[p].pc = "store" /\ ~Creates(p)
    BY <1>1, <1>2, BeginsSound DEF BeginRotate
  <1>5. proc'[p].pc \notin Refreshing /\ Len(issued') \in Len(issued) .. MaxCredentials
    BY <1>1, <1>2, <1>4 DEF Refreshing
  <1> QED
    BY <1>1, <1>3, <1>4, <1>5, IssuesMore

\* What is known of an operation of a row.
LEMMA RowOperation ==
    ASSUME ConnectionsInv, NEW p \in Procs, proc[p].pc # "idle", ~Creates(p)
    PROVE  /\ OperatesOnRow(p) /\ proc[p].kind # "create"
           /\ proc[p].c \in Connections /\ row[proc[p].c] # NoRow
           /\ proc[p].row \in Row /\ proc[p].row.status # "none"
           /\ proc[p].row.alias = row[proc[p].c].alias
           /\ secret[proc[p].c] # Absent /\ secret[proc[p].c] <= Len(issued)
  BY DEF ConnectionsInv, Sound, OperatesOnRow, CreationIsWhole, TypeOK, Proc, RowsAreWhole, StoredWereIssued

\* Saving what was read changes the status of the row alone.
LEMMA PutConnectionKeeps ==
    ASSUME ConnectionsInv, NEW p \in Procs, proc[p].pc # "idle", ~Creates(p),
           NEW status \in {"active", "expired", "revoked"}, PutConnection(p, status),
           OnlyMoves(p), Sound(p)', proc'[p].pc \notin Refreshing,
           UNCHANGED <<secret, faults>>
    PROVE  ConnectionsInv'
  <1> DEFINE c == proc[p].c
  <1> DEFINE r == [proc[p].row EXCEPT !.status = status]
  <1>1. /\ c \in Connections /\ row[c] # NoRow /\ row \in [Connections -> Row]
        /\ proc[p].row \in Row /\ proc[p].row.alias = row[c].alias /\ proc[p].kind # "create"
    BY RowOperation DEF ConnectionsInv, TypeOK
  <1>2. r \in Row /\ r.status = status /\ r.alias = row[c].alias
    BY <1>1 DEF Row
  <1>3. row' = [row EXCEPT ![c] = r] /\ UNCHANGED <<aliases, secret, lock, issued, wanted, faults>>
    BY DEF PutConnection
  <1>4. r # NoRow /\ r.status # "none"
    BY <1>2 DEF NoRow
  <1> HIDE DEF c, r
  <1>5. row'[c] = r /\ \A d \in Connections \ {c} : row'[d] = row[d]
    BY <1>1, <1>3
  <1>6. TypeOK'
    BY <1>1, <1>2, <1>3 DEF ConnectionsInv, TypeOK, OnlyMoves
  <1>7. Grows
    BY <1>2, <1>3, <1>4, <1>5, LenProperties DEF Grows, ConnectionsInv, TypeOK
  <1>8. RowsAreWhole' /\ StoredWereIssued' /\ AliasesResolve'
    BY <1>1, <1>2, <1>3, <1>4, <1>5 DEF ConnectionsInv, RowsAreWhole, StoredWereIssued, AliasesResolve
  <1>9. LockIsHeld'
    BY <1>3, LeaseStays
  <1>10. KeepsCreations(p)
    BY <1>1, <1>3, <1>4, <1>5 DEF KeepsCreations
  <1> QED
    BY <1>3, <1>6, <1>7, <1>8, <1>9, <1>10, StepKeeps

LEMMA SaveKeeps ==
    ASSUME ConnectionsInv, NEW p \in Procs, Save(p)
    PROVE  ConnectionsInv'
  <1>1. proc[p].pc = "save" /\ ~Creates(p)
    BY DEF Save, At, Creates
  <1>2. proc[p].row.status \in {"active", "expired", "revoked"}
    BY <1>1, RowOperation DEF Row
  <1>3. OnlyMoves(p) /\ proc'[p] = Idle /\ Sound(p)' /\ Idle.pc \notin Refreshing
    BY EndsSound, IdleType DEF Save, PutConnection, ConnectionsInv, TypeOK, Refreshing
  <1> QED
    BY <1>1, <1>2, <1>3, PutConnectionKeeps DEF Save

LEMMA MarkKeeps ==
    ASSUME ConnectionsInv, NEW p \in Procs, Mark(p)
    PROVE  ConnectionsInv'
  <1>1. proc[p].pc = "mark" /\ ~Creates(p)
    BY DEF Mark, At, Creates
  <1>2. /\ OnlyMoves(p) /\ proc'[p].pc = "delete"
        /\ proc'[p].kind = proc[p].kind /\ proc'[p].c = proc[p].c /\ proc'[p].row = proc[p].row
        /\ proc'[p].cred = proc[p].cred
    BY GoesOn DEF Mark, ConnectionsInv
  <1>3. /\ proc[p].c \in Connections /\ row \in [Connections -> Row] /\ row[proc[p].c] # NoRow
        /\ proc[p].row \in Row /\ proc[p].row.status # "none" /\ proc[p].kind # "create"
        /\ proc[p].row.alias = row[proc[p].c].alias /\ HoldsIssued(p)
    BY <1>1, RowOperation DEF ConnectionsInv, TypeOK, Sound
  <1>4. /\ row'[proc[p].c] = [proc[p].row EXCEPT !.status = "revoked"]
        /\ issued' = issued
    BY <1>3 DEF Mark, PutConnection
  <1>5. row'[proc[p].c] # NoRow /\ row'[proc[p].c].alias = proc[p].row.alias
    BY <1>3, <1>4 DEF Row, NoRow
  <1>6. Sound(p)'
    BY <1>2, <1>3, <1>4, <1>5 DEF Sound, CreationIsWhole, OperatesOnRow, HoldsIssued, Creates
  <1> QED
    BY <1>1, <1>2, <1>6, PutConnectionKeeps DEF Mark, Refreshing

LEMMA DeletedType ==
    ASSUME ConnectionsInv
    PROVE  Deleted \in Deleted .. MaxCredentials /\ Deleted # Absent /\ Deleted <= Len(issued)
  BY LenProperties DEF ConnectionsInv, Assumptions, TypeOK, Deleted, Absent

LEMMA DeleteKeeps ==
    ASSUME ConnectionsInv, NEW p \in Procs, Delete(p)
    PROVE  ConnectionsInv'
  <1>1. proc[p].pc = "delete" /\ ~Creates(p)
    BY DEF Delete, At, Creates
  <1>2. OnlyMoves(p) /\ proc'[p] = Idle /\ Sound(p)' /\ Idle.pc \notin Refreshing
    BY EndsSound, IdleType DEF Delete, ConnectionsInv, TypeOK, Refreshing
  <1>3. faults' = faults /\ faults' \in 0 .. MaxFaults
    BY DEF Delete, ConnectionsInv, TypeOK
  <1> QED
    BY <1>1, <1>2, <1>3, RowOperation, DeletedType, WritesSecret DEF Delete

\* What a process that uses a credential holds can be stored.
LEMMA HeldType ==
    ASSUME ConnectionsInv, NEW p \in Procs, proc[p].pc \in {"store", "lock", "exchange", "replace"}
    PROVE  /\ proc[p].cred \in 1 .. Len(issued) /\ proc[p].cred \in Deleted .. MaxCredentials
           /\ proc[p].cred # Absent
  <1>1. proc[p].cred \in 0 .. MaxCredentials /\ MaxCredentials \in Nat /\ Len(issued) \in Nat
    BY LenProperties DEF ConnectionsInv, TypeOK, Proc, Assumptions
  <1>2. proc[p].cred > 0 /\ proc[p].cred <= Len(issued)
    BY DEF ConnectionsInv, Sound, HoldsIssued
  <1> QED
    BY <1>1, <1>2 DEF Deleted, Absent

LEMMA StoreKeeps ==
    ASSUME ConnectionsInv, NEW p \in Procs, Store(p)
    PROVE  ConnectionsInv'
  <1>1. proc[p].pc = "store" /\ ~Creates(p)
    BY DEF Store, At, Creates
  <1>2. /\ UNCHANGED <<row, aliases, lock, issued, wanted, faults>>
        /\ issued' \in Seq(Credential) /\ faults' \in 0 .. MaxFaults
    BY DEF Store, ConnectionsInv, TypeOK
  <1>3. CASE Ends(p) /\ UNCHANGED secret
    <2>1. OnlyMoves(p) /\ proc'[p] = Idle /\ Sound(p)' /\ Idle.pc \notin Refreshing
      BY <1>2, <1>3, EndsSound, IdleType DEF ConnectionsInv, Refreshing
    <2> QED
      BY <1>1, <1>2, <1>3, <2>1, WritesNothing
  <1>4. CASE secret' = [secret EXCEPT ![proc[p].c] = proc[p].cred] /\ Saves(p, "active")
    <2>1. OnlyMoves(p) /\ proc'[p].pc = "save" /\ Sound(p)'
      BY <1>1, <1>2, <1>4, RowOperation, SavesSound DEF ConnectionsInv
    <2>2. proc'[p].pc \notin Refreshing
      BY <2>1 DEF Refreshing
    <2>3. proc[p].cred \in Deleted .. MaxCredentials /\ proc[p].cred # Absent /\ proc[p].cred <= Len(issued)
      BY <1>1, HeldType
    <2>4. proc[p].c \in Connections /\ row[proc[p].c] # NoRow
      BY <1>1, RowOperation
    <2> QED
      BY <1>1, <1>2, <1>4, <2>1, <2>2, <2>3, <2>4, WritesSecret
  <1> QED
    BY <1>3, <1>4 DEF Store

-----------------------------------------------------------------------------
(* readRecord *)

\* An operation that ends, resolves its credential or has it rejected writes nothing.
LEMMA ReadsKeep ==
    ASSUME ConnectionsInv, NEW p \in Procs, proc[p].pc # "idle", ~Creates(p),
           Ends(p) \/ Resolves(p) \/ Rejected(p) \/ Saves(p, "active"),
           UNCHANGED <<row, aliases, secret, lock, issued, wanted>>, Fault \/ NoFault
    PROVE  ConnectionsInv'
  <1>1. issued' \in Seq(Credential) /\ OperatesOnRow(p)
    BY RowOperation DEF ConnectionsInv, TypeOK
  <1>2. OnlyMoves(p) /\ Sound(p)' /\ proc'[p].pc \in {"idle", "verify", "save"}
    <2>1. CASE Ends(p)
      BY <1>1, <2>1, EndsSound, IdleType DEF ConnectionsInv
    <2>2. CASE Resolves(p)
      BY <1>1, <2>2, ResolvesSound DEF ConnectionsInv
    <2>3. CASE Rejected(p)
      BY <1>1, <2>3, RejectedSound DEF ConnectionsInv
    <2>4. CASE Saves(p, "active")
      BY <1>1, <2>4, SavesSound DEF ConnectionsInv
    <2> QED
      BY <2>1, <2>2, <2>3, <2>4
  <1>3. proc'[p].pc \notin Refreshing
    BY <1>2 DEF Refreshing
  <1> QED
    BY <1>2, <1>3, FaultType, WritesNothing

LEMMA ReadKeeps ==
    ASSUME ConnectionsInv, NEW p \in Procs, Read(p)
    PROVE  ConnectionsInv'
  <1> DEFINE n == secret[proc[p].c]
  <1>1. proc[p].pc = "read" /\ ~Creates(p)
    BY DEF Read, At, Creates
  <1>2. /\ UNCHANGED <<row, aliases, secret, lock, issued, wanted, faults>> /\ NoFault
        /\ faults' \in 0 .. MaxFaults
    BY DEF Read, NoFault, ConnectionsInv, TypeOK
  <1>3. CASE Ends(p) \/ Resolves(p) \/ Rejected(p)
    BY <1>1, <1>2, <1>3, ReadsKeep
  <1>4. CASE n # Deleted /\ proc' = [proc EXCEPT ![p].pc = "lock", ![p].cred = n]
    <2> DEFINE me == [proc[p] EXCEPT !.pc = "lock", !.cred = n]
    <2>1. /\ proc[p] \in Proc /\ proc[p].c \in Connections /\ row[proc[p].c] # NoRow
          /\ proc[p].row.status # "none" /\ proc[p].row.alias = row[proc[p].c].alias
          /\ proc[p].kind # "create"
      BY <1>1, RowOperation DEF ConnectionsInv, TypeOK
    <2>2. n \in 0 .. MaxCredentials /\ n > 0 /\ n <= Len(issued)
      <3>1. n \in Deleted .. MaxCredentials /\ n # Absent /\ n <= Len(issued) /\ MaxCredentials \in Nat
        BY <1>1, <2>1, RowOperation DEF ConnectionsInv, TypeOK, Assumptions
      <3> QED
        BY <1>4, <3>1 DEF Deleted, Absent
    <2>3. proc' = [proc EXCEPT ![p] = me]
      BY <1>4 DEF ConnectionsInv, TypeOK
    <2> HIDE DEF n
    <2>4. /\ me \in Proc /\ me.pc = "lock" /\ me.cred = n /\ me.c = proc[p].c /\ me.row = proc[p].row
          /\ me.kind = proc[p].kind
      BY <2>1, <2>2 DEF Proc
    <2> HIDE DEF me
    <2>5. OnlyMoves(p) /\ proc'[p] = me
      BY <2>3, <2>4, Becomes DEF ConnectionsInv
    <2>6. Sound(p)' /\ proc'[p].pc \notin Refreshing
      BY <1>2, <2>1, <2>2, <2>4, <2>5
      DEF Sound, CreationIsWhole, OperatesOnRow, HoldsIssued, Creates, Refreshing
    <2> QED
      BY <1>1, <1>2, <2>5, <2>6, WritesNothing
  <1> QED
    BY <1>3, <1>4 DEF Read

\* Going on with the same credential.
LEMMA GoesSound ==
    ASSUME ConnectionsInv, NEW p \in Procs, ~Creates(p), proc[p].pc # "idle",
           NEW pc \in {"exchange", "wait", "release"}, Goes(p, pc),
           pc = "exchange" => proc[p].pc = "lock", UNCHANGED <<row, issued>>
    PROVE  /\ OnlyMoves(p) /\ Sound(p)' /\ proc'[p].pc = pc
           /\ proc'[p].c = proc[p].c /\ proc'[p].lapsed = proc[p].lapsed
           /\ proc'[p].kind = proc[p].kind
  <1>1. /\ OnlyMoves(p) /\ proc'[p].pc = pc
        /\ proc'[p].kind = proc[p].kind /\ proc'[p].c = proc[p].c /\ proc'[p].row = proc[p].row
        /\ proc'[p].cred = proc[p].cred /\ proc'[p].lapsed = proc[p].lapsed
    BY GoesOn DEF ConnectionsInv
  <1> QED
    BY <1>1 DEF ConnectionsInv, Sound, CreationIsWhole, OperatesOnRow, HoldsIssued, Creates

\* A step that changes the leases only.
LEMMA LeaseKeeps ==
    ASSUME ConnectionsInv, NEW p \in Procs, OnlyMoves(p), Sound(p)', ~Creates(p),
           UNCHANGED <<row, aliases, secret, issued, wanted>>, faults' \in 0 .. MaxFaults,
           faults' = 0 => faults = 0,
           lock' \in [Connections -> Procs \cup {Free}], LockIsHeld'
    PROVE  ConnectionsInv'
  <1>1. TypeOK' /\ Grows
    <2>1. Len(issued) \in Nat
      BY LenProperties DEF ConnectionsInv, TypeOK
    <2> QED
      BY <2>1 DEF ConnectionsInv, TypeOK, OnlyMoves, Grows
  <1>2. RowsAreWhole' /\ StoredWereIssued' /\ AliasesResolve'
    BY DEF ConnectionsInv, RowsAreWhole, StoredWereIssued, AliasesResolve
  <1>3. KeepsCreations(p)
    BY DEF KeepsCreations, ConnectionsInv, Sound, CreationIsWhole
  <1> QED
    BY <1>1, <1>2, <1>3, StepKeeps

LEMMA LockKeeps ==
    ASSUME ConnectionsInv, NEW p \in Procs, Lock(p)
    PROVE  ConnectionsInv'
  <1> DEFINE c == proc[p].c
  <1>1. proc[p].pc = "lock" /\ ~Creates(p)
    BY DEF Lock, At, Creates
  <1>2. UNCHANGED <<row, aliases, secret, issued, wanted, faults>> /\ faults' \in 0 .. MaxFaults
    BY DEF Lock, ConnectionsInv, TypeOK
  <1>3. c \in Connections /\ lock \in [Connections -> Procs \cup {Free}]
    BY <1>1, RowOperation DEF ConnectionsInv, TypeOK
  <1>4. CASE lock[c] = Free /\ lock' = [lock EXCEPT ![c] = p] /\ Goes(p, "exchange")
    <2>1. OnlyMoves(p) /\ Sound(p)' /\ proc'[p].pc = "exchange" /\ proc'[p].c = c
      BY <1>1, <1>2, <1>4, GoesSound
    <2> HIDE DEF c
    <2>2. LockIsHeld'
      <3> SUFFICES ASSUME NEW q \in Procs, proc'[q].pc \in Refreshing, ~proc'[q].lapsed
                   PROVE  lock'[proc'[q].c] = q
        BY DEF LockIsHeld
      <3>1. CASE q = p
        BY <1>3, <1>4, <2>1, <3>1
      <3>2. CASE q # p
        <4>1. proc'[q] = proc[q] /\ lock[proc[q].c] = q
          BY <2>1, <3>2 DEF OnlyMoves, ConnectionsInv, LockIsHeld
        <4>2. proc[q].c # c
          BY <1>4, <4>1 DEF ConnectionsInv, Assumptions
        <4>3. proc[q].c \in Connections
          BY <4>1, RowOperation DEF Refreshing, Creates
        <4> QED
          BY <1>3, <1>4, <4>1, <4>2, <4>3
      <3> QED
        BY <3>1, <3>2
    <2>3. lock' \in [Connections -> Procs \cup {Free}]
      BY <1>3, <1>4
    <2> QED
      BY <1>1, <1>2, <2>1, <2>2, <2>3, LeaseKeeps
  <1>5. CASE UNCHANGED lock /\ Goes(p, "wait")
    <2>1. OnlyMoves(p) /\ Sound(p)' /\ proc'[p].pc = "wait"
      BY <1>1, <1>2, <1>5, GoesSound
    <2>2. proc'[p].pc \notin Refreshing
      BY <2>1 DEF Refreshing
    <2> QED
      BY <1>1, <1>2, <1>5, <2>1, <2>2, WritesNothing
  <1> QED
    BY <1>4, <1>5 DEF Lock

LEMMA WaitKeeps ==
    ASSUME ConnectionsInv, NEW p \in Procs, Wait(p)
    PROVE  ConnectionsInv'
  BY ReadsKeep DEF Wait, At, Creates, NoFault

\* What follows an exchange or a failed store: the lease is given back.
LEMMA FailsSound ==
    ASSUME ConnectionsInv, NEW p \in Procs, proc[p].pc \in {"exchange", "replace"},
           NEW result \in {"rejected", "error"},
           proc' = [proc EXCEPT ![p].pc = "release", ![p].result = result],
           row' = row, issued' \in Seq(Credential), Len(issued) <= Len(issued')
    PROVE  /\ OnlyMoves(p) /\ Sound(p)' /\ proc'[p].pc = "release" /\ proc'[p].c = proc[p].c
           /\ proc'[p].lapsed = proc[p].lapsed /\ ~Creates(p)
  <1> DEFINE me == [proc[p] EXCEPT !.pc = "release", !.result = result]
  <1>1. proc[p] \in Proc /\ OperatesOnRow(p) /\ ~Creates(p) /\ proc[p].pc # "idle" /\ proc[p].kind # "create"
    BY RowOperation DEF ConnectionsInv, TypeOK, Creates
  <1>2. proc' = [proc EXCEPT ![p] = me]
    BY DEF ConnectionsInv, TypeOK
  <1>3. /\ me \in Proc /\ me.pc = "release" /\ me.cred = proc[p].cred /\ me.c = proc[p].c
        /\ me.row = proc[p].row /\ me.kind = proc[p].kind /\ me.lapsed = proc[p].lapsed
    BY <1>1 DEF Proc
  <1> HIDE DEF me
  <1>4. OnlyMoves(p) /\ proc'[p] = me
    BY <1>2, <1>3, Becomes DEF ConnectionsInv
  <1>5. proc[p].cred <= Len(issued')
    <2>1. /\ proc[p].cred \in Nat /\ Len(issued) \in Nat /\ Len(issued') \in Nat
          /\ proc[p].cred <= Len(issued)
      BY LenProperties DEF ConnectionsInv, TypeOK, Proc, Sound, HoldsIssued
    <2> QED
      BY <2>1
  <1>6. Sound(p)'
    BY <1>1, <1>3, <1>4, <1>5 DEF Sound, CreationIsWhole, OperatesOnRow, HoldsIssued, Creates
  <1> QED
    BY <1>1, <1>3, <1>4, <1>6

\* The credential that was exchanged for is held.
LEMMA RenewedSound ==
    ASSUME ConnectionsInv, NEW p \in Procs, proc[p].pc = "exchange",
           proc' = [proc EXCEPT ![p].pc = "replace", ![p].cred = Latest],
           row' = row, Len(issued') = Latest, Latest <= MaxCredentials
    PROVE  /\ OnlyMoves(p) /\ Sound(p)' /\ proc'[p].pc = "replace" /\ proc'[p].c = proc[p].c
           /\ proc'[p].lapsed = proc[p].lapsed
  <1> DEFINE me == [proc[p] EXCEPT !.pc = "replace", !.cred = Latest]
  <1>1. proc[p] \in Proc /\ OperatesOnRow(p) /\ ~Creates(p) /\ proc[p].kind # "create"
    BY RowOperation DEF ConnectionsInv, TypeOK, Creates
  <1>2. Latest \in 0 .. MaxCredentials /\ Latest > 0
    BY LenProperties DEF Latest, ConnectionsInv, TypeOK, Assumptions
  <1>3. proc' = [proc EXCEPT ![p] = me]
    BY DEF ConnectionsInv, TypeOK
  <1>4. /\ me \in Proc /\ me.pc = "replace" /\ me.cred = Latest /\ me.c = proc[p].c
        /\ me.row = proc[p].row /\ me.kind = proc[p].kind /\ me.lapsed = proc[p].lapsed
    BY <1>1, <1>2 DEF Proc
  <1> HIDE DEF me
  <1>5. OnlyMoves(p) /\ proc'[p] = me
    BY <1>3, <1>4, Becomes DEF ConnectionsInv
  <1>6. Sound(p)'
    BY <1>1, <1>2, <1>4, <1>5 DEF Sound, CreationIsWhole, OperatesOnRow, HoldsIssued, Creates
  <1> QED
    BY <1>4, <1>5, <1>6

\* A credential goes on being one when its access or its refresh token changes.
LEMMA CredentialChanged ==
    ASSUME NEW s \in Seq(Credential), NEW n \in 1 .. Len(s), NEW credential \in Credential
    PROVE  /\ [s EXCEPT ![n] = credential] \in Seq(Credential)
           /\ Len([s EXCEPT ![n] = credential]) = Len(s)
  BY ExceptSeq

LEMMA ExchangeKeeps ==
    ASSUME ConnectionsInv, NEW p \in Procs, Exchange(p)
    PROVE  ConnectionsInv'
  <1> DEFINE n == proc[p].cred
  <1> DEFINE fresh == [issued[n] EXCEPT !.access = "fresh"]
  <1> DEFINE spent == [issued[n] EXCEPT !.refresh = "spent"]
  <1>1. proc[p].pc = "exchange" /\ ~Creates(p)
    BY DEF Exchange, At, Creates
  <1>2. UNCHANGED <<row, aliases, secret, lock, wanted>>
    BY DEF Exchange
  <1>3. faults' \in 0 .. MaxFaults /\ (faults' = 0 => faults = 0)
    BY FaultType DEF Exchange
  <1>4. /\ issued \in Seq(Credential) /\ Len(issued) \in Nat /\ n \in 1 .. Len(issued)
        /\ Len(issued) <= MaxCredentials /\ MaxCredentials \in Nat
    BY <1>1, HeldType, LenProperties DEF ConnectionsInv, TypeOK, Assumptions
  <1>5. issued[n] \in Credential
    BY <1>4, ElementOfSeq
  <1>6. fresh \in Credential /\ spent \in Credential
    BY <1>5 DEF Credential
  <1>7. proc[p].pc \in Refreshing /\ (~proc[p].lapsed => lock[proc[p].c] = p)
    BY <1>1 DEF Refreshing, ConnectionsInv, LockIsHeld
  <1>8. CASE /\ Len(issued) < MaxCredentials
             /\ issued' \in {Append([issued EXCEPT ![n].refresh = "spent"], fresh), Append(issued, fresh)}
             /\ \/ proc' = [proc EXCEPT ![p].pc = "replace", ![p].cred = Latest]
                \/ proc' = [proc EXCEPT ![p].pc = "release", ![p].result = "error"]
    <2> DEFINE marked == [issued EXCEPT ![n] = spent]
    <2>1. [issued EXCEPT ![n].refresh = "spent"] = marked
      OBVIOUS
    <2>2. marked \in Seq(Credential) /\ Len(marked) = Len(issued)
      BY <1>4, <1>6, CredentialChanged
    <2> HIDE DEF n, fresh, spent, marked
    <2>3. issued' \in Seq(Credential) /\ Len(issued') = Len(issued) + 1
      <3>1. CASE issued' = Append(marked, fresh)
        BY <1>4, <1>6, <2>2, <3>1, AppendProperties
      <3>2. CASE issued' = Append(issued, fresh)
        BY <1>4, <1>6, <3>2, AppendProperties
      <3> QED
        BY <1>8, <2>1, <3>1, <3>2
    <2>4. /\ Len(issued') \in Len(issued) .. MaxCredentials /\ Len(issued) <= Len(issued')
          /\ Len(issued') = Latest /\ Latest <= MaxCredentials
      BY <1>4, <1>8, <2>3 DEF Latest
    <2>5. /\ OnlyMoves(p) /\ Sound(p)' /\ proc'[p].c = proc[p].c
          /\ proc'[p].lapsed = proc[p].lapsed
      BY <1>1, <1>2, <1>8, <2>3, <2>4, RenewedSound, FailsSound
    <2> QED
      BY <1>1, <1>2, <1>3, <1>7, <2>3, <2>4, <2>5, IssuesMore
  <1>9. CASE /\ UNCHANGED issued
             /\ \E result \in {"rejected", "error"} :
                  proc' = [proc EXCEPT ![p].pc = "release", ![p].result = result]
    <2>1. Len(issued) <= Len(issued') /\ issued' \in Seq(Credential)
      BY <1>4, <1>9
    <2>2. /\ OnlyMoves(p) /\ Sound(p)' /\ proc'[p].c = proc[p].c
          /\ proc'[p].lapsed = proc[p].lapsed
      BY <1>1, <1>2, <1>9, <2>1, FailsSound
    <2> QED
      BY <1>1, <1>2, <1>3, <1>7, <1>9, <2>2, WritesNothing
  <1> QED
    BY <1>8, <1>9 DEF Exchange

LEMMA ReplaceKeeps ==
    ASSUME ConnectionsInv, NEW p \in Procs, Replace(p)
    PROVE  ConnectionsInv'
  <1>1. proc[p].pc = "replace" /\ ~Creates(p)
    BY DEF Replace, At, Creates
  <1>2. /\ UNCHANGED <<row, aliases, lock, issued, wanted, faults>> /\ faults' \in 0 .. MaxFaults
        /\ issued' \in Seq(Credential) /\ Len(issued) <= Len(issued')
    BY LenProperties DEF Replace, ConnectionsInv, TypeOK
  <1>3. proc[p].pc \in Refreshing /\ (~proc[p].lapsed => lock[proc[p].c] = p)
    BY <1>1 DEF Refreshing, ConnectionsInv, LockIsHeld
  <1>4. CASE UNCHANGED secret /\ proc' = [proc EXCEPT ![p].pc = "release", ![p].result = "error"]
    <2>1. OnlyMoves(p) /\ Sound(p)' /\ proc'[p].c = proc[p].c /\ proc'[p].lapsed = proc[p].lapsed
      BY <1>1, <1>2, <1>4, FailsSound
    <2> QED
      BY <1>1, <1>2, <1>3, <1>4, <2>1, WritesNothing
  <1>5. CASE secret' = [secret EXCEPT ![proc[p].c] = proc[p].cred] /\ Goes(p, "release")
    <2>1. OnlyMoves(p) /\ Sound(p)' /\ proc'[p].c = proc[p].c /\ proc'[p].lapsed = proc[p].lapsed
      <3>1. /\ OnlyMoves(p) /\ proc'[p].pc = "release"
            /\ proc'[p].kind = proc[p].kind /\ proc'[p].c = proc[p].c /\ proc'[p].row = proc[p].row
            /\ proc'[p].cred = proc[p].cred /\ proc'[p].lapsed = proc[p].lapsed
        BY <1>5, GoesOn DEF ConnectionsInv
      <3> QED
        BY <1>1, <1>2, <3>1
        DEF ConnectionsInv, Sound, CreationIsWhole, OperatesOnRow, HoldsIssued, Creates
    <2>2. proc[p].cred \in Deleted .. MaxCredentials /\ proc[p].cred # Absent /\ proc[p].cred <= Len(issued)
      BY <1>1, HeldType
    <2>3. proc[p].c \in Connections /\ row[proc[p].c] # NoRow
      BY <1>1, RowOperation
    <2> QED
      BY <1>1, <1>2, <1>3, <1>5, <2>1, <2>2, <2>3, WritesSecret
  <1> QED
    BY <1>4, <1>5 DEF Replace

LEMMA ReleaseKeeps ==
    ASSUME ConnectionsInv, NEW p \in Procs, Release(p)
    PROVE  ConnectionsInv'
  <1> DEFINE c == proc[p].c
  <1>1. proc[p].pc = "release" /\ ~Creates(p) /\ proc[p].pc # "idle"
    BY DEF Release, At, Creates
  <1>2. /\ UNCHANGED <<row, aliases, secret, issued, wanted, faults>> /\ faults' \in 0 .. MaxFaults
        /\ issued' \in Seq(Credential)
    BY DEF Release, ConnectionsInv, TypeOK
  <1>3. c \in Connections /\ lock \in [Connections -> Procs \cup {Free}] /\ OperatesOnRow(p)
    BY <1>1, RowOperation DEF ConnectionsInv, TypeOK
  <1>4. OnlyMoves(p) /\ Sound(p)' /\ proc'[p].pc \in {"idle", "verify", "save"}
    <2>1. CASE Ends(p)
      BY <1>2, <2>1, EndsSound, IdleType DEF ConnectionsInv
    <2>2. CASE Resolves(p)
      BY <1>1, <1>2, <1>3, <2>2, ResolvesSound DEF ConnectionsInv
    <2>3. CASE Rejected(p)
      BY <1>1, <1>2, <1>3, <2>3, RejectedSound DEF ConnectionsInv
    <2>4. proc[p].result \in {"ok", "rejected", "error"}
      BY DEF ConnectionsInv, TypeOK, Proc
    <2> QED
      BY <2>1, <2>2, <2>3, <2>4 DEF Release
  <1>5. lock' = IF lock[c] = p THEN [lock EXCEPT ![c] = Free] ELSE lock
    BY DEF Release, Released
  <1>6. lock' \in [Connections -> Procs \cup {Free}]
    BY <1>3, <1>5
  <1>7. LockIsHeld'
    <2> SUFFICES ASSUME NEW q \in Procs, proc'[q].pc \in Refreshing, ~proc'[q].lapsed
                 PROVE  lock'[proc'[q].c] = q
      BY DEF LockIsHeld
    <2>1. q # p
      BY <1>4 DEF Refreshing
    <2>2. proc'[q] = proc[q] /\ lock[proc[q].c] = q
      BY <1>4, <2>1 DEF OnlyMoves, ConnectionsInv, LockIsHeld
    <2>3. proc[q].c \in Connections
      BY <2>2, RowOperation DEF Refreshing, Creates
    <2> HIDE DEF c
    <2> QED
      BY <1>3, <1>5, <2>1, <2>2, <2>3
  <1> QED
    BY <1>1, <1>2, <1>4, <1>6, <1>7, LeaseKeeps

LEMMA VerifyKeeps ==
    ASSUME ConnectionsInv, NEW p \in Procs, Verify(p)
    PROVE  ConnectionsInv'
  BY ReadsKeep DEF Verify, At, Creates

-----------------------------------------------------------------------------
(* Time, failures and the owner *)

LEMMA CrashKeeps ==
    ASSUME ConnectionsInv, NEW p \in Procs, Crash(p)
    PROVE  ConnectionsInv'
  <1>1. OnlyMoves(p) /\ proc'[p] = Idle /\ Sound(p)' /\ Idle.pc \notin Refreshing
    BY EndsSound, IdleType DEF Crash, ConnectionsInv, TypeOK, Refreshing
  <1> QED
    BY <1>1, FaultType, WritesNothing DEF Crash

\* What does not look at the operations leaves them sound.
LEMMA OthersStay ==
    ASSUME ConnectionsInv, UNCHANGED <<row, aliases, secret>>,
           \A q \in Procs : Sound(q)', TypeOK', LockIsHeld',
           \A q \in Procs : proc'[q].kind = proc[q].kind /\ proc'[q].c = proc[q].c,
           faults' = 0 => faults = 0, Len(issued) <= Len(issued')
    PROVE  ConnectionsInv'
  <1>1. RowsAreWhole' /\ AliasesResolve'
    BY DEF ConnectionsInv, RowsAreWhole, AliasesResolve
  <1>2. StoredWereIssued'
    <2>1. /\ Len(issued) \in Nat /\ Len(issued') \in Nat
          /\ \A c \in Connections : secret[c] \in Int /\ secret[c] <= Len(issued)
      BY LenProperties DEF ConnectionsInv, TypeOK, StoredWereIssued, Deleted
    <2> QED
      BY <2>1 DEF StoredWereIssued
  <1>3. NoOrphans'
    BY DEF ConnectionsInv, NoOrphans
  <1> QED
    BY <1>1, <1>2, <1>3 DEF ConnectionsInv, Assumptions

LEMMA AgesKeeps ==
    ASSUME ConnectionsInv, NEW n \in 1 .. MaxCredentials, Ages(n)
    PROVE  ConnectionsInv'
  <1> DEFINE old == [issued[n] EXCEPT !.access = "old"]
  <1>1. /\ issued \in Seq(Credential) /\ Len(issued) \in Nat /\ n \in 1 .. Len(issued)
    BY LenProperties DEF ConnectionsInv, TypeOK, Ages, Assumptions
  <1>2. issued[n] \in Credential
    BY <1>1, ElementOfSeq
  <1>3. old \in Credential
    BY <1>2 DEF Credential
  <1>4. issued' = [issued EXCEPT ![n] = old] /\ UNCHANGED <<row, aliases, secret, lock, proc, wanted, faults>>
    BY DEF Ages
  <1> HIDE DEF old
  <1>5. issued' \in Seq(Credential) /\ Len(issued') = Len(issued)
    BY <1>1, <1>3, <1>4, CredentialChanged
  <1>6. TypeOK' /\ LockIsHeld'
    BY <1>4, <1>5 DEF ConnectionsInv, TypeOK, LockIsHeld
  <1>7. \A q \in Procs : Sound(q)'
    BY <1>1, <1>4, <1>5, StaysSound DEF Grows
  <1> QED
    BY <1>1, <1>4, <1>5, <1>6, <1>7, OthersStay

LEMMA WantRevokeKeeps ==
    ASSUME ConnectionsInv, NEW c \in Connections, WantRevoke(c)
    PROVE  ConnectionsInv'
  <1>1. TypeOK' /\ LockIsHeld' /\ Len(issued) \in Nat /\ issued' \in Seq(Credential)
    BY LenProperties DEF WantRevoke, ConnectionsInv, TypeOK, LockIsHeld
  <1>2. \A q \in Procs : Sound(q)'
    BY <1>1, StaysSound DEF Grows, WantRevoke
  <1> QED
    BY <1>1, <1>2, OthersStay DEF WantRevoke

LEMMA LeaseLapsesKeeps ==
    ASSUME ConnectionsInv, NEW c \in Connections, LeaseLapses(c)
    PROVE  ConnectionsInv'
  <1>1. /\ lock' = [lock EXCEPT ![c] = Free] /\ UNCHANGED <<row, aliases, secret, issued, wanted>>
        /\ lock \in [Connections -> Procs \cup {Free}] /\ lock[c] \in Procs
        /\ Len(issued) \in Nat /\ issued' \in Seq(Credential)
    BY LenProperties DEF LeaseLapses, ConnectionsInv, TypeOK
  <1>2. faults' \in 0 .. MaxFaults /\ (faults' = 0 => faults = 0)
    BY FaultType DEF LeaseLapses, NoFault
  <1>3. lock' \in [Connections -> Procs \cup {Free}]
    BY <1>1
  <1>4. Grows
    BY <1>1 DEF Grows
  <1>5. CASE Holds(lock[c], c) /\ proc' = [proc EXCEPT ![lock[c]].lapsed = TRUE]
    <2>1. PICK p \in Procs : p = lock[c]
      BY <1>1
    <2> DEFINE me == [proc[p] EXCEPT !.lapsed = TRUE]
    <2>2. proc[p] \in Proc
      BY DEF ConnectionsInv, TypeOK
    <2>3. proc' = [proc EXCEPT ![p] = me]
      BY <1>5, <2>1 DEF ConnectionsInv, TypeOK
    <2>4. /\ me \in Proc /\ me.pc = proc[p].pc /\ me.kind = proc[p].kind /\ me.c = proc[p].c
          /\ me.row = proc[p].row /\ me.cred = proc[p].cred /\ me.lapsed
      BY <2>2 DEF Proc
    <2> HIDE DEF me
    <2>5. OnlyMoves(p) /\ proc'[p] = me
      BY <1>1, <2>3, <2>4, Becomes DEF ConnectionsInv
    <2>6. TypeOK'
      BY <1>1, <1>2, <1>3, <2>5 DEF ConnectionsInv, TypeOK, OnlyMoves
    <2>7. \A q \in Procs : Sound(q)'
      <3> SUFFICES ASSUME NEW q \in Procs PROVE Sound(q)'
        OBVIOUS
      <3>1. CASE q = p
        <4>1. CreationIsWhole(p) /\ OperatesOnRow(p) /\ HoldsIssued(p)
          BY <2>1 DEF ConnectionsInv, Sound
        <4>2. CreationIsWhole(p)' /\ OperatesOnRow(p)' /\ HoldsIssued(p)'
          BY <1>1, <2>4, <2>5, <4>1 DEF CreationIsWhole, OperatesOnRow, HoldsIssued, Creates
        <4> QED
          BY <3>1, <4>2 DEF Sound
      <3>2. CASE q # p
        BY <1>1, <1>4, <2>5, <3>2, StaysSound DEF OnlyMoves
      <3> QED
        BY <3>1, <3>2
    <2>8. LockIsHeld'
      <3> SUFFICES ASSUME NEW q \in Procs, proc'[q].pc \in Refreshing, ~proc'[q].lapsed
                   PROVE  lock'[proc'[q].c] = q
        BY DEF LockIsHeld
      <3>1. q # p
        BY <2>4, <2>5
      <3>2. proc'[q] = proc[q] /\ lock[proc[q].c] = q
        BY <2>5, <3>1 DEF OnlyMoves, ConnectionsInv, LockIsHeld
      <3>3. proc[q].c \in Connections
        BY <3>2, RowOperation DEF Refreshing, Creates
      <3> QED
        BY <1>1, <2>1, <3>1, <3>2, <3>3
    <2>9. \A q \in Procs : proc'[q].kind = proc[q].kind /\ proc'[q].c = proc[q].c
      BY <2>4, <2>5 DEF OnlyMoves
    <2> QED
      BY <1>1, <1>2, <2>6, <2>7, <2>8, <2>9, OthersStay
  <1>6. CASE ~Holds(lock[c], c) /\ UNCHANGED <<proc, faults>>
    <2>1. TypeOK'
      BY <1>1, <1>2, <1>3, <1>6 DEF ConnectionsInv, TypeOK
    <2>2. \A q \in Procs : Sound(q)'
      BY <1>1, <1>4, <1>6, StaysSound
    <2>3. LockIsHeld'
      <3> SUFFICES ASSUME NEW q \in Procs, proc[q].pc \in Refreshing, ~proc[q].lapsed
                   PROVE  lock'[proc[q].c] = q
        BY <1>6 DEF LockIsHeld
      <3>1. lock[proc[q].c] = q
        BY DEF ConnectionsInv, LockIsHeld
      <3>2. proc[q].c # c
        BY <1>6, <3>1 DEF Holds
      <3>3. proc[q].c \in Connections
        BY RowOperation DEF Refreshing, Creates
      <3> QED
        BY <1>1, <3>1, <3>2, <3>3
    <2> QED
      BY <1>1, <1>2, <1>6, <2>1, <2>2, <2>3, OthersStay
  <1> QED
    BY <1>5, <1>6 DEF LeaseLapses

-----------------------------------------------------------------------------

LEMMA ConnectionsInitially ==
    ASSUME Assumptions, Init
    PROVE  ConnectionsInv
  <1>1. /\ \A c \in Connections : row[c] = NoRow /\ secret[c] = Absent
        /\ \A p \in Procs : proc[p] = Idle
        /\ issued = <<>> /\ issued \in Seq(Credential) /\ Len(issued) = 0
    BY EmptySeq DEF Init
  <1>2. TypeOK
    <2>1. NoRow \in Row /\ Absent \in Deleted .. MaxCredentials /\ 0 <= MaxCredentials /\ 0 \in 0 .. MaxFaults
      BY DEF Assumptions, NoRow, Row, Absent, Deleted
    <2> QED
      BY <1>1, <2>1, IdleType DEF Init, TypeOK
  <1>3. RowsAreWhole /\ AliasesResolve /\ StoredWereIssued /\ NoOrphans
    BY <1>1 DEF RowsAreWhole, AliasesResolve, StoredWereIssued, NoOrphans, Absent
  <1>4. \A p \in Procs : Sound(p)
    <2> SUFFICES ASSUME NEW p \in Procs PROVE Sound(p)
      OBVIOUS
    <2>1. proc[p].pc = "idle" /\ proc[p].kind = "none" /\ proc[p].cred = 0
      BY <1>1, IdleType
    <2>2. ~Creates(p)
      BY <2>1 DEF Creates
    <2> QED
      BY <1>1, <2>1, <2>2 DEF Sound, CreationIsWhole, OperatesOnRow, HoldsIssued
  <1>5. LockIsHeld
    BY <1>1, IdleType DEF LockIsHeld, Refreshing
  <1> QED
    BY <1>2, <1>3, <1>4, <1>5 DEF ConnectionsInv

LEMMA StepsKeep ==
    ASSUME ConnectionsInv, NEW p \in Procs, Step(p)
    PROVE  ConnectionsInv'
  BY CreateSecretKeeps, PutBundleKeeps, CleanupKeeps, SaveKeeps, MarkKeeps, DeleteKeeps, StoreKeeps,
     ReadKeeps, LockKeeps, WaitKeeps, ExchangeKeeps, ReplaceKeeps, ReleaseKeeps, VerifyKeeps
  DEF Step

LEMMA ConnectionsStep ==
    ASSUME ConnectionsInv, [Next]_vars
    PROVE  ConnectionsInv'
  <1>1. CASE \E p \in Procs, c \in Connections :
               \/ \E account \in Accounts, alias \in Names : BeginCreate(p, c, account, alias)
               \/ \E account \in Accounts : BeginRotate(p, c, account)
               \/ BeginTest(p, c) \/ BeginCall(p, c) \/ BeginRename(p, c) \/ BeginRevoke(p, c)
    BY <1>1, BeginCreateKeeps, BeginRotateKeeps, BeginsKeeps
  <1>2. CASE \E p \in Procs : Step(p) \/ Crash(p)
    BY <1>2, StepsKeep, CrashKeeps
  <1>3. CASE \E c \in Connections : LeaseLapses(c) \/ WantRevoke(c)
    BY <1>3, LeaseLapsesKeeps, WantRevokeKeeps
  <1>4. CASE \E n \in 1 .. MaxCredentials : Ages(n)
    BY <1>4, AgesKeeps
  <1>5. CASE UNCHANGED vars
    <2>1. UNCHANGED <<row, aliases, secret, lock, issued, proc, wanted, faults>>
      BY <1>5 DEF vars
    <2>2. TypeOK' /\ LockIsHeld' /\ Len(issued) \in Nat /\ issued' \in Seq(Credential)
      BY <2>1, LenProperties DEF ConnectionsInv, TypeOK, LockIsHeld
    <2>3. \A q \in Procs : Sound(q)'
      BY <2>1, <2>2, StaysSound DEF Grows
    <2> QED
      BY <2>1, <2>2, <2>3, OthersStay
  <1> QED
    BY <1>1, <1>2, <1>3, <1>4, <1>5 DEF Next

LEMMA ConnectionsInvariant == Assumptions /\ Spec => []ConnectionsInv
  <1>1. Assumptions /\ Init => ConnectionsInv
    BY ConnectionsInitially
  <1>2. ConnectionsInv /\ [Next]_vars => ConnectionsInv'
    BY ConnectionsStep
  <1> QED
    BY <1>1, <1>2, PTL DEF Spec

\* The rows, the vault, the leases and the operations keep their types: an operation stores and
\* exchanges only credentials that were issued.
THEOREM ConnectionTypes == Assumptions /\ Spec => []TypeOK
  <1>1. ConnectionsInv => TypeOK
    BY DEF ConnectionsInv
  <1> QED
    BY <1>1, ConnectionsInvariant, PTL

\* ConnectionService and OAuthRefreshingCredentialBroker: an alias leads to the connection that
\* has it, without failures no secret is left without a connection, and a process that refreshes
\* has the lease unless it ran out.
THEOREM WholeConnections == Assumptions /\ Spec => []ConnectionsAreWhole
  <1>1. ConnectionsInv => ConnectionsAreWhole
    BY DEF ConnectionsInv, ConnectionsAreWhole
  <1> QED
    BY <1>1, ConnectionsInvariant, PTL
=============================================================================
