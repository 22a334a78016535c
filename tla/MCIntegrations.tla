--------------------------- MODULE MCIntegrations ---------------------------
(* Instances of IntegrationConnections and ThreadIntegrations, which share *)
(* nothing; a behaviour is one of them.  Connections, the extended module: *)
(* one with failures, and two that compete for an alias without.  Threads: *)
(* two events of one Session whose Turn ends, two of a thread that         *)
(* rotates, and one with failures under fairness.                          *)
EXTENDS IntegrationConnections

CONSTANTS OneConnection, Occurrences, OneOccurrence, Pushes

VARIABLES focus, subscription, inputs, occurrence, explicit, marker, candidate, session,
          routed, reading, delivery, awake, posted

Shared == INSTANCE ThreadIntegrations
    WITH Pushes <- {}, Endings <- {"empty", "other"},
         MaxEpoch <- 0, MaxTurns <- 1, MaxInputs <- 2, MaxFaults <- 0
Rotating == INSTANCE ThreadIntegrations
    WITH Endings <- {}, MaxEpoch <- 2, MaxTurns <- 1, MaxInputs <- 1, MaxFaults <- 0
Answered == INSTANCE ThreadIntegrations
    WITH Occurrences <- OneOccurrence, Pushes <- {}, Endings <- {"empty", "other"},
         MaxEpoch <- 0, MaxTurns <- 1, MaxInputs <- 1

ASSUME /\ Assumptions
       /\ Shared!Assumptions /\ Rotating!Assumptions /\ Answered!Assumptions

threads == <<subscription, inputs, occurrence, explicit, marker, candidate, session,
             routed, reading, delivery, awake, posted, faults>>
mcvars == <<focus, vars, threads>>

MCInit ==
    /\ Init
    /\ \/ focus \in {"connected", "creating", "shared"} /\ Shared!Init
       \/ focus = "rotating" /\ Rotating!Init
       \/ focus = "answered" /\ Answered!Init

\* The two instances of IntegrationConnections.
ConnectedNext == Next /\ \A p \in Procs : proc'[p].c \in OneConnection \union {Free}
CreatingNext == Next /\ faults' = 0

OthersOfConnections == UNCHANGED <<focus, subscription, inputs, occurrence, explicit, marker, candidate,
                                   session, routed, reading, delivery, awake, posted>>
OthersOfThreads == UNCHANGED <<focus, row, aliases, secret, lock, issued, proc, wanted>>

MCNext ==
    \/ focus = "connected" /\ ConnectedNext /\ OthersOfConnections
    \/ focus = "creating" /\ CreatingNext /\ OthersOfConnections
    \/ focus = "shared" /\ Shared!Next /\ OthersOfThreads
    \/ focus = "rotating" /\ Rotating!Next /\ OthersOfThreads
    \/ focus = "answered" /\ Answered!Next /\ OthersOfThreads

\* The fairness of each component, for the instance that is checked for liveness.
Fairness ==
    /\ \A p \in Procs : WF_vars(focus = "connected" /\ Step(p))
    /\ \A c \in OneConnection : SF_vars(focus = "connected" /\ \E p \in Procs : BeginRevoke(p, c))
    /\ WF_threads(focus = "answered" /\ Answered!Deliver(0))
    /\ WF_threads(focus = "answered" /\ (Answered!Submit(0, 1) \/ Answered!RecordTurn(0, 1)))
    /\ WF_threads(focus = "answered" /\ Answered!TurnEnds(0, 1))

MCSpec == MCInit /\ [][MCNext]_mcvars /\ Fairness

-----------------------------------------------------------------------------

TypesOK ==
    /\ focus \in {"connected", "creating"} => TypeOK
    /\ focus = "shared" => Shared!TypeOK
    /\ focus = "rotating" => Rotating!TypeOK
    /\ focus = "answered" => Answered!TypeOK

\* An event becomes one input of one Session, and an explicit request is answered.
EventsAreAnswered ==
    /\ focus = "rotating" => Rotating!OneInputPerOccurrence
    /\ focus = "shared" => Shared!ExplicitIsAnswered
\* A candidate gives way to explicit requests.
CandidateYields == [][focus = "rotating" => Rotating!AdmittedAreLatest]_mcvars
\* A revocation deletes the credential; every input is submitted and its outcome delivered.
IntegrationsSettle ==
    /\ focus = "connected" => RevocationDeletes
    /\ focus = "answered" => Answered!InputsAreProcessed
=============================================================================
