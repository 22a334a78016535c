----------------------------- MODULE Quickstart -----------------------------
(* The AWS quickstart (scripts/aws-quickstart.ts): setup deploys a          *)
(* disposable backend, proves it with two Turns and records it; destroy     *)
(* takes it apart and proves that nothing is left. What each command knows  *)
(* of the other is four files beside the repository: the result, the        *)
(* context of a setup, Terraform's state and the checkpoint of a teardown.  *)
(* One command runs at a time; it can fail or be killed between any two     *)
(* steps, and a kill can leave a file it was writing unreadable. Terraform  *)
(* is assumed to record each resource with its creation.                    *)
EXTENDS Naturals, FiniteSets, TLC

CONSTANTS LastSetup, \* setups are 1 .. LastSetup
          MaxFaults  \* bound on failures, kills and lost answers

Assumptions == {LastSetup, MaxFaults} \subseteq Nat

VARIABLES files,   \* what the files beside the repository hold
          cloud,   \* resources that exist, as <<setup, resource>>
          vms,     \* the MicroVM of each setup's image
          secrets, \* setups whose managed copy of the Codex login exists
          setups,  \* the setups made so far
          command, \* the command that runs
          faults

vars == <<files, cloud, vms, secrets, setups, command, faults>>

Setups == 1 .. LastSetup
Resources == {"key", "image", "api"}
Targets == {"key", "image"}
Needs == [key |-> {}, image |-> {"key"}, api |-> {"key", "image"}]
Auths == {"bedrock", "own", "managed"}
None == [status |-> "none", run |-> 0, secret |-> "none"]
Idle == [name |-> "none", step |-> "none", run |-> 0, secret |-> "none",
         targets |-> {}, passes |-> 0]
NoCheckpoint == [run |-> 0, targets |-> {}]
Of(r) == {x \in Resources : <<r, x>> \in cloud}

TypeOK ==
    /\ files.metadata.status \in {"none", "ready", "destroyed", "torn"}
    /\ files.context.status \in {"none", "written", "torn"}
    /\ files.deployed \in BOOLEAN /\ files.state \subseteq Setups \X Resources
    /\ files.teardown.targets \subseteq Targets
    /\ cloud \subseteq Setups \X Resources
    /\ vms \in [Setups -> {"none", "running", "terminating"}]
    /\ secrets \subseteq Setups /\ setups \in 0 .. LastSetup
    /\ command.name \in {"none", "setup", "destroy"} /\ faults \in 0 .. MaxFaults

Init ==
    /\ files = [metadata |-> None, context |-> None, deployed |-> FALSE, state |-> {},
                teardown |-> NoCheckpoint, runtime |-> FALSE]
    /\ cloud = {} /\ vms = [r \in Setups |-> "none"] /\ secrets = {}
    /\ setups = 0 /\ command = Idle /\ faults = 0

Fault == faults < MaxFaults /\ faults' = faults + 1
Running(name, step) == command.name = name /\ command.step = step
Then(step) == command' = [command EXCEPT !.step = step]

\* readMetadataOptional and readSetupContext; "torn": the read throws.
Stored == IF files.metadata.status # "none" THEN files.metadata ELSE files.context
\* writeFile truncates the file before it fills it.
Written(file, value) ==
    \/ files' = [files EXCEPT ![file] = value] /\ UNCHANGED faults
    \/ files' = [files EXCEPT ![file] = [None EXCEPT !.status = "torn"]] /\ Fault
\* A torn write ends the command.
Writes(file, value, then) ==
    /\ Written(file, value)
    /\ command' = IF files'[file].status = "torn" THEN Idle ELSE then

\* A step throws, or the process is killed.
Stop ==
    /\ command # Idle /\ command' = Idle /\ Fault
    /\ UNCHANGED <<files, cloud, vms, secrets, setups>>

-----------------------------------------------------------------------------
(* setup *)

\* Setup refuses a deployment that is ready and one that was left halfway.
BeginSetup(auth) ==
    /\ command = Idle /\ setups < LastSetup
    /\ files.metadata.status \notin {"torn", "ready"}
    /\ files.metadata.status = "none" =>
         files.context.status = "none" /\ ~files.deployed /\ files.teardown = NoCheckpoint
    /\ setups' = setups + 1
    /\ command' = [Idle EXCEPT !.name = "setup", !.step = "preflight",
                               !.run = setups + 1, !.secret = auth]
    /\ UNCHANGED <<files, cloud, vms, secrets, faults>>

\* preflight, and what it asks AWS: a base image, whether the model or the
\* login of the chosen kind can be used. It fails before anything is kept.
Preflight ==
    /\ Running("setup", "preflight") /\ Then("runtime")
    /\ UNCHANGED <<files, cloud, vms, secrets, setups, faults>>

\* ensureWorkerRuntime: a runtime that validates is used as it is; a build is
\* pointed to only after it was validated.
EnsureRuntime ==
    /\ Running("setup", "runtime")
    /\ files' = [files EXCEPT !.runtime = TRUE] /\ Then("confirm")
    /\ UNCHANGED <<cloud, vms, secrets, setups, faults>>

\* Confirmed: the traces of the deployment before are removed.
RemoveTeardown ==
    /\ Running("setup", "confirm")
    /\ files' = [files EXCEPT !.teardown = NoCheckpoint] /\ Then("forget")
    /\ UNCHANGED <<cloud, vms, secrets, setups, faults>>
RemoveMetadata ==
    /\ Running("setup", "forget")
    /\ files' = [files EXCEPT !.metadata = None] /\ Then("context")
    /\ UNCHANGED <<cloud, vms, secrets, setups, faults>>

\* setupContext: it names the secret before the secret is created.
Context(step) == [status |-> "written", run |-> command.run, secret |-> command.secret]
WriteContext ==
    /\ Running("setup", "context")
    /\ Writes("context", Context("context"),
              [command EXCEPT !.step = IF command.secret = "managed" THEN "secret" ELSE "apply"])
    /\ UNCHANGED <<cloud, vms, secrets, setups>>

\* provisionCodexAuthSecret; its answer can be lost.
CreateSecret ==
    /\ Running("setup", "secret")
    /\ secrets' = secrets \cup {command.run}
    /\ \/ Then("secret context") /\ UNCHANGED faults
       \/ command' = Idle /\ Fault
    /\ UNCHANGED <<files, cloud, vms, setups>>
\* The context again, now with the secret's ARN.
WriteSecret ==
    /\ Running("setup", "secret context")
    /\ Writes("context", Context("secret context"), [command EXCEPT !.step = "apply"])
    /\ UNCHANGED <<cloud, vms, secrets, setups>>

\* terraform apply, a resource at a time.
Apply(x) ==
    /\ Running("setup", "apply") /\ <<command.run, x>> \notin cloud
    /\ Needs[x] \subseteq Of(command.run)
    /\ cloud' = cloud \cup {<<command.run, x>>}
    /\ files' = [files EXCEPT !.deployed = TRUE, !.state = @ \cup {<<command.run, x>>}]
    /\ IF Of(command.run) \cup {x} = Resources THEN Then("proof") ELSE UNCHANGED command
    /\ UNCHANGED <<vms, secrets, setups, faults>>

\* A Turn starts a MicroVM while the backend that starts it and the image
\* exist: those of the proof, and those of whoever uses the deployment.
StartVM(r) ==
    /\ vms[r] = "none" /\ {"image", "api"} \subseteq Of(r)
    /\ ~(Running("setup", "apply") /\ command.run = r)
    /\ vms' = [vms EXCEPT ![r] = "running"]
    /\ UNCHANGED <<files, cloud, secrets, setups, command, faults>>
\* An idle MicroVM ends on its own; so does one that was told to.
EndVM(r) ==
    /\ vms[r] # "none" /\ vms' = [vms EXCEPT ![r] = "none"]
    /\ UNCHANGED <<files, cloud, secrets, setups, command, faults>>

\* runQuickstartProof: two Turns, then the Session is deleted, which stops
\* its worker; it is deleted as well when a Turn fails.
Prove ==
    /\ Running("setup", "proof")
    /\ vms' = [vms EXCEPT ![command.run] = IF @ = "running" THEN "terminating" ELSE @]
    /\ \/ Then("record") /\ UNCHANGED faults
       \/ command' = Idle /\ Fault
    /\ UNCHANGED <<files, cloud, secrets, setups>>
Ready ==
    /\ Running("setup", "record")
    /\ Writes("metadata", [status |-> "ready", run |-> command.run, secret |-> command.secret], Idle)
    /\ UNCHANGED <<cloud, vms, secrets, setups>>

-----------------------------------------------------------------------------
(* destroy *)

BeginDestroy ==
    /\ command = Idle /\ Stored.status \in {"ready", "written"}
    /\ command' = [Idle EXCEPT !.name = "destroy", !.step = "select",
                               !.run = Stored.run, !.secret = Stored.secret]
    /\ UNCHANGED <<files, cloud, vms, secrets, setups, faults>>

\* terraformTeardownTargets
InState == {x \in Targets : \E r \in Setups : <<r, x>> \in files.state}
\* Mutant: the targets are those Terraform still knows.
MutantSelected == InState
\* selectQuickstartTeardown: those of the state and those of the checkpoint.
Selected == InState \cup files.teardown.targets
\* The consistency checks of a destroy.
Refused ==
    IF ~files.deployed
    THEN files.metadata.status # "none" \/ files.teardown # NoCheckpoint
    ELSE \/ files.teardown.run \notin {0, command.run}
         \/ \E p \in files.state : p[1] # command.run
         \/ files.metadata.status # "none" /\ Selected # Targets
Refuse ==
    /\ Running("destroy", "select") /\ Refused
    /\ Then("refused") /\ UNCHANGED <<files, cloud, vms, secrets, setups, faults>>
\* Setup stopped before it deployed anything: only a secret can exist.
NothingDeployed ==
    /\ Running("destroy", "select") /\ ~Refused /\ ~files.deployed
    /\ Then("secret") /\ UNCHANGED <<files, cloud, vms, secrets, setups, faults>>
\* writeTeardownCheckpoint: atomic, a new file renamed over the old one.
Checkpoint ==
    /\ Running("destroy", "select") /\ ~Refused /\ files.deployed
    /\ files' = [files EXCEPT !.teardown = [run |-> command.run, targets |-> Selected]]
    /\ command' = [command EXCEPT !.step = IF "image" \in Selected THEN "terminate" ELSE "terraform",
                                  !.targets = Selected]
    /\ UNCHANGED <<cloud, vms, secrets, setups, faults>>

\* terminate-microvms.mjs: every VM of the image that is not on its way out
\* is told to end, until two listings in a row are empty.
TerminatePass ==
    /\ Running("destroy", "terminate")
    /\ IF vms[command.run] = "none"
       THEN /\ command' = [command EXCEPT !.passes = @ + 1,
                               !.step = IF @ = "terminate" /\ command.passes = 1 THEN "last listing" ELSE @]
            /\ UNCHANGED vms
       ELSE /\ command' = [command EXCEPT !.passes = 0]
            /\ vms' = [vms EXCEPT ![command.run] = "terminating"]
    /\ UNCHANGED <<files, cloud, secrets, setups, faults>>
\* Its deadline can come at any pass; the last listing decides.
TerminateDeadline ==
    /\ Running("destroy", "terminate") /\ Then("last listing")
    /\ UNCHANGED <<files, cloud, vms, secrets, setups, faults>>
LastListing ==
    /\ Running("destroy", "last listing")
    /\ command' = IF vms[command.run] = "none" THEN [command EXCEPT !.step = "terraform"] ELSE Idle
    /\ UNCHANGED <<files, cloud, vms, secrets, setups, faults>>

\* terraform destroy, a resource at a time.
Destroy(x) ==
    /\ Running("destroy", "terraform") /\ <<command.run, x>> \in files.state
    /\ \A y \in Resources : x \in Needs[y] => <<command.run, y>> \notin files.state
    /\ cloud' = cloud \ {<<command.run, x>>}
    /\ files' = [files EXCEPT !.state = @ \ {<<command.run, x>>}]
    /\ UNCHANGED <<vms, secrets, setups, command, faults>>
\* The state is empty, microvmTeardownStatus lists no VM that is not
\* terminated, the key waits for its deletion.
Verify ==
    /\ Running("destroy", "terraform") /\ files.state = {}
    /\ command' = IF "image" \in command.targets /\ vms[command.run] # "none"
                  THEN Idle ELSE [command EXCEPT !.step = "secret"]
    /\ UNCHANGED <<files, cloud, vms, secrets, setups, faults>>
\* deleteManagedCodexAuthSecret, by its ARN or by the name that was planned;
\* a secret that is not there is deleted.
DeleteSecret ==
    /\ Running("destroy", "secret")
    /\ IF command.secret = "managed"
       THEN /\ secrets' = secrets \ {command.run}
            /\ \/ Then("record") /\ UNCHANGED faults
               \/ command' = Idle /\ Fault
       ELSE Then("record") /\ UNCHANGED <<secrets, faults>>
    /\ UNCHANGED <<files, cloud, vms, setups>>
Destroyed ==
    /\ Running("destroy", "record")
    /\ Writes("metadata", [status |-> "destroyed", run |-> command.run, secret |-> command.secret], Idle)
    /\ UNCHANGED <<cloud, vms, secrets, setups>>

Setup ==
    \/ \E auth \in Auths : BeginSetup(auth)
    \/ Preflight \/ EnsureRuntime \/ RemoveTeardown \/ RemoveMetadata
    \/ WriteContext \/ CreateSecret \/ WriteSecret \/ (\E x \in Resources : Apply(x)) \/ Prove \/ Ready
Teardown ==
    \/ BeginDestroy \/ Refuse \/ NothingDeployed \/ Checkpoint
    \/ TerminatePass \/ TerminateDeadline \/ LastListing
    \/ (\E x \in Resources : Destroy(x)) \/ Verify \/ DeleteSecret \/ Destroyed
Next == Setup \/ Teardown \/ Stop \/ \E r \in Setups : StartVM(r) \/ EndVM(r)
Spec == Init /\ [][Next]_vars

-----------------------------------------------------------------------------
\* A deployment reported as destroyed has left nothing that costs or that
\* opens a login: no resource, no MicroVM, no copy of a credential.
DestroyedIsGone ==
    files.metadata.status = "destroyed" => /\ cloud = {} /\ secrets = {}
                                           /\ \A r \in Setups : vms[r] = "none"

\* Whatever exists can be found by the next destroy, wherever the command
\* before it stopped, unless a kill left one of its files unreadable.
NothingIsForgotten ==
    Stored.status # "torn" =>
      /\ \A p \in cloud : p \in files.state /\ Stored.run = p[1]
      /\ \A r \in secrets : Stored.run = r /\ Stored.secret = "managed"
      /\ \A r \in Setups : vms[r] # "none" =>
           Stored.run = r /\ (<<r, "image">> \in files.state \/ "image" \in files.teardown.targets)

\* The refusals of destroy are for files somebody else removed: no history
\* of the two commands, however they were interrupted, runs into one.
DestroyIsNotRefused == command.step # "refused"
=============================================================================
