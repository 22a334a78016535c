--------------------------- MODULE MCRunLifecycle ---------------------------
(* Small instances of RunLifecycle. *)
EXTENDS RunLifecycle, TLC

\* Hosts and invocations are interchangeable: no action or property names one.
DispatchSymmetry == Permutations(Vms) \cup Permutations(Deliveries)

\* Every Run ends, a cancelling one as cancelled or failed.
RunsSettle == CancellationSettles /\ RunSettles
=============================================================================
