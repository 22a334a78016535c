--------------------------- MODULE CommandContract ---------------------------
(***************************************************************************)
(* What the command mailbox promises a requester, without saying how many  *)
(* supervisors keep the promise: a command runs at most once and never     *)
(* after its requester gave up or after it was answered, it gets one       *)
(* answer, a true one, and the requester is told that answer or none.      *)
(***************************************************************************)
EXTENDS Naturals

CONSTANT Commands

VARIABLES
    caller,   \* "waiting", or what the requester of the command was told
    outcome,  \* the answer of the command
    effects   \* how often it reached the worker

contractVars == <<caller, outcome, effects>>

Answers == {"completed", "failed", "expired"}

Init ==
    /\ caller = [c \in Commands |-> "waiting"]
    /\ outcome = [c \in Commands |-> "none"]
    /\ effects = [c \in Commands |-> 0]

\* A requester that never learned whether its command was stored may still have it run.
Execute(c) ==
    /\ effects[c] = 0
    /\ outcome[c] = "none"
    /\ caller[c] \in {"waiting", "unavailable"}
    /\ effects' = [effects EXCEPT ![c] = 1]
    /\ UNCHANGED <<caller, outcome>>

\* "failed" says that the command was accepted, not whether it ran.
Answer(c, answer) ==
    /\ outcome[c] = "none"
    /\ answer = "completed" => effects[c] = 1
    /\ answer = "expired" => effects[c] = 0
    /\ outcome' = [outcome EXCEPT ![c] = answer]
    /\ UNCHANGED <<caller, effects>>

Learn(c) ==
    /\ caller[c] = "waiting"
    /\ outcome[c] # "none"
    /\ caller' = [caller EXCEPT ![c] = outcome[c]]
    /\ UNCHANGED <<outcome, effects>>

Leave(c) ==
    /\ caller[c] = "waiting"
    /\ \E told \in {"unavailable", "timedOut"} : caller' = [caller EXCEPT ![c] = told]
    /\ UNCHANGED <<outcome, effects>>

Next ==
    \E c \in Commands :
        Execute(c) \/ (\E answer \in Answers : Answer(c, answer)) \/ Learn(c) \/ Leave(c)

Spec == Init /\ [][Next]_contractVars
=============================================================================
