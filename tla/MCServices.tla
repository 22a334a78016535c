----------------------------- MODULE MCServices -----------------------------
(* Small instances of components that do not interact: the delivery fence,  *)
(* the local native installation, a Session with two inputs and a Session   *)
(* of the local service, all under fairness.  In a behaviour one of them,   *)
(* the focus, acts; each has variables of its own, and those of the others  *)
(* stay in an initial state.  The fence is the extended module, so its own  *)
(* invariant, the one DeliveryFence_proofs proves, is what TLC checks.      *)
EXTENDS DeliveryFence

CONSTANTS Releases, None, FirstKey, SecondKey, Worker

VARIABLES focus,
          n1, n2, n3, n4, n5, n6, n7, n8,
          s1, s2, s3, s4, s5, s6, s7, s8, s9, s10, s11,
          l1, l2, l3, l4, l5, l6, l7, l8, l9, l10, l11, l12, l13, l14

Native == INSTANCE NativeInstallation
    WITH Releases <- Releases, Ids <- 1 .. 2, None <- None, MaxFaults <- 1, disk <- n1,
         process <- n2, op <- n3, records <- n4, bundled <- n5, selections <- n6, interrupted <- n7,
         faults <- n8
LiveSession == INSTANCE SessionDispatch
    WITH Messages <- {FirstKey, SecondKey}, Cancels <- {}, Hosted <- FALSE, MaxFaults <- 1,
         Jobs <- {Worker}, Deletable <- FALSE, HostManaged <- FALSE, session <- s1, runtime <- s2,
         run <- s3, worker <- s4, native <- s5, started <- s6, refused <- s7, client <- s8,
         deleter <- s9, job <- s10, faults <- s11
Local == INSTANCE LocalSession
    WITH LastTurn <- 1, MaxFaults <- 2, hosted <- l1, asked <- l2, attempt <- l3, saved <- l4,
         writes <- l5, snap <- l6, runtime <- l7, native <- l8, worker <- l9, tails <- l10,
         cancelling <- l11, op <- l12, said <- l13, faults <- l14

ASSUME /\ Assumptions /\ Native!Assumptions
       /\ LiveSession!Assumptions /\ Local!Assumptions

installation == <<n1, n2, n3, n4, n5, n6, n7, n8>>
session == <<s1, s2, s3, s4, s5, s6, s7, s8, s9, s10, s11>>
local == <<l1, l2, l3, l4, l5, l6, l7, l8, l9, l10, l11, l12, l13, l14>>
mcvars == <<focus, vars, installation, session, local>>

MCInit ==
    /\ focus \in {"fence", "installation", "live", "local"}
    /\ Init /\ Native!Init /\ LiveSession!Init /\ Local!Init
    \* One initial state of the components that do not act.
    /\ focus # "installation" => n5 = CHOOSE r \in Releases : TRUE
    /\ focus # "local" => l1 = FALSE

MCNext ==
    \/ focus = "fence" /\ Next /\ UNCHANGED <<focus, installation, session, local>>
    \/ focus = "installation" /\ Native!Next /\ UNCHANGED <<focus, vars, session, local>>
    \/ focus = "live" /\ LiveSession!Next /\ UNCHANGED <<focus, vars, installation, local>>
    \/ focus = "local" /\ Local!Next /\ UNCHANGED <<focus, vars, installation, session>>

\* The fairness of each component, for the one that acts.
FenceFairness ==
    /\ \A j \in Jobs : WF_vars(focus = "fence" /\ JobStep(j))
    /\ \A d \in Destinations : WF_vars(focus = "fence" /\ LeaseExpires(d))
InstallationFairness ==
    /\ WF_installation(focus = "installation" /\ Native!Works)
    /\ WF_installation(focus = "installation" /\ Native!Boot)
    /\ WF_installation(focus = "installation" /\ Native!BeginChange)
    /\ WF_installation(focus = "installation" /\ Native!Exit)
    /\ \A i \in 1 .. 2 : WF_installation(focus = "installation" /\ Native!Retrieve(i))
LiveFairness ==
    /\ WF_session(focus = "live" /\ LiveSession!Dispatch(Worker))
    /\ \A t \in LiveSession!Turns : WF_session(focus = "live" /\ LiveSession!CompleteTurn(t))
    /\ \A r \in LiveSession!Runs :
         /\ WF_session(focus = "live" /\ (\/ LiveSession!Launch(r) \/ LiveSession!CheckAuthority(r)
                                           \/ LiveSession!Ready(r) \/ LiveSession!StartInitial(r)))
         /\ WF_session(focus = "live" /\ LiveSession!TurnEnds(r))
         /\ WF_session(focus = "live" /\ LiveSession!Flush(r))
         /\ WF_session(focus = "live" /\ LiveSession!Close(r))
         /\ WF_session(focus = "live" /\ (LiveSession!Finish(r) \/ LiveSession!RunLost(r)))
LocalFairness ==
    /\ WF_local(focus = "local" /\ Local!Write) /\ WF_local(focus = "local" /\ Local!Operates)
    /\ WF_local(focus = "local" /\ Local!Finishes) /\ WF_local(focus = "local" /\ Local!Finished)
    /\ WF_local(focus = "local" /\ Local!ObserveLive(1))
    /\ SF_local(focus = "local" /\ Local!ObserveStopped(1))
    /\ WF_local(focus = "local" /\ Local!Cancel(1))

MCSpec == MCInit /\ [][MCNext]_mcvars
          /\ FenceFairness /\ InstallationFairness /\ LiveFairness /\ LocalFairness

-----------------------------------------------------------------------------

\* The types of the component that acts.
TypesOK ==
    /\ focus = "fence" => TypeOK
    /\ focus = "installation" => Native!TypeOK
    /\ focus = "live" => LiveSession!TypeOK
    /\ focus = "local" => Local!TypeOK

\* NativeInstallation: the selection on disk can be decoded, what it names survives a power
\* loss, a bad update leaves the active release in use, and a change reported complete took effect.
SelectionsAreSound ==
    focus = "installation" =>
        /\ Native!SelectionsCoherent /\ Native!SelectedSurvives
        /\ Native!BadUpdateKeepsActive /\ Native!CompleteIsTrue

\* DeliveryFence, NativeInstallation: a claim ends while its work is still retried,
\* and an accepted change settles.
ServicesSettle ==
    /\ focus = "fence" => ClaimsEnd
    /\ focus = "installation" => Native!ChangesSettle
\* SessionDispatch, LocalSession: every accepted input is dispatched, and an attempt that the
\* local service recorded has an outcome.
SessionsSettle ==
    /\ focus = "live" => LiveSession!InputIsDispatched
    /\ focus = "local" => Local!AttemptsSettle
=============================================================================
