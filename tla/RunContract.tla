----------------------------- MODULE RunContract -----------------------------
(***************************************************************************)
(* What the control plane promises about one private Run, without saying   *)
(* who does it: its status follows the table of domain/state.ts, a worker  *)
(* is attached at most once and never replaced, and success needs one.     *)
(***************************************************************************)
CONSTANTS Vms, Pending, None

VARIABLES status, execution

contractVars == <<status, execution>>

\* The Run states and edges of domain/state.ts.
Edges ==
    {<<"queued", "dispatching">>, <<"queued", "cancelled">>, <<"queued", "failed">>,
     <<"dispatching", "running">>, <<"dispatching", "cancelling">>,
     <<"dispatching", "cancelled">>, <<"dispatching", "failed">>,
     <<"running", "cancelling">>, <<"running", "cancelled">>,
     <<"running", "succeeded">>, <<"running", "failed">>,
     <<"cancelling", "cancelled">>, <<"cancelling", "failed">>}

Init == status = "queued" /\ execution = None

Claim ==
    /\ status = "queued"
    /\ status' = "dispatching"
    /\ execution' = Pending

Attach(vm) ==
    /\ status \in {"dispatching", "running"}
    /\ execution = Pending
    /\ execution' = vm
    /\ UNCHANGED status

Start ==
    /\ status = "dispatching"
    /\ execution \in Vms
    /\ status' = "running"
    /\ UNCHANGED execution

RequestCancel ==
    /\ status \in {"dispatching", "running"}
    /\ status' = "cancelling"
    /\ UNCHANGED execution

Settle(to) ==
    /\ <<status, to>> \in Edges
    /\ to = "succeeded" => execution \in Vms
    /\ status' = to
    /\ UNCHANGED execution

Next ==
    \/ Claim
    \/ \E vm \in Vms : Attach(vm)
    \/ Start
    \/ RequestCancel
    \/ \E to \in {"succeeded", "failed", "cancelled"} : Settle(to)

Spec == Init /\ [][Next]_contractVars
=============================================================================
