--------------------------- MODULE DeployPipeline ---------------------------
(***************************************************************************)
(* The job graph of m8-deploy-live.yml: which job of a run starts when,    *)
(* and what the three jobs that change Azure leave in the registry, the    *)
(* state backend and the container apps.                                   *)
(*                                                                         *)
(* Jobs of a run are ordered by their `needs' alone, so branches of the    *)
(* graph run side by side, and runs of different refs overlap.  The calls  *)
(* that change one app are the subject of AcaLifecycle; here a call that   *)
(* changes an app is one step, and what counts is which image it leaves.   *)
(***************************************************************************)
EXTENDS FiniteSets

CONSTANTS
  Runs,         \* runs of the workflow
  Refs,         \* branches and tags they are dispatched on
  Apps,         \* the container apps, one image each
  Inputs,       \* inputs a run may be dispatched with
  Absent,       \* an app that does not exist
  Placeholder,  \* the hello-world image
  Waiting       \* a run that has not started

Stages == {"publish", "apply", "config", "rollout"}

\* Stages asked for, execute_live_mutations, whether the phrase is the right
\* one, and live_azure_tests.
Input == [ask : SUBSET Stages, execute : BOOLEAN, phrase : BOOLEAN, tests : BOOLEAN]

ASSUME PipelineAssumption ==
  /\ Inputs \subseteq Input
  /\ Absent \notin Runs \union {Placeholder}
  /\ Placeholder \notin Runs
  /\ Waiting \notin Input

Jobs ==
  {"preflight", "azure-auth-deploy", "build-publish", "terraform-plan", "protected-apply",
   "config-rollout", "app-rollout", "deploy-summary", "smoke-stage"}

Needs(j) ==
  CASE j = "preflight" -> {}
    [] j = "azure-auth-deploy" -> {"preflight"}
    [] j \in {"build-publish", "terraform-plan"} -> {"preflight", "azure-auth-deploy"}
    [] j = "protected-apply" -> {"preflight", "build-publish", "terraform-plan"}
    [] j = "config-rollout" -> {"preflight", "azure-auth-deploy", "terraform-plan"}
    [] j = "app-rollout" ->
         {"preflight", "azure-auth-deploy", "build-publish", "protected-apply"}
    [] j = "deploy-summary" -> {"preflight", "build-publish", "terraform-plan"}
    [] j = "smoke-stage" -> {"deploy-summary"}

VARIABLES
  ref,       \* run -> the ref it is dispatched on
  input,     \* run -> its inputs, Waiting before it starts
  status,    \* run -> job -> how far it is
  left,      \* run -> apps the loop of its running job has still to do
  doomed,    \* run -> the app its apply has found unsettled and goes on to delete,
             \* with the image it had at that look
  acr,       \* does the registry exist?
  backend,   \* does the storage account of the Terraform state exist?
  images,    \* app and run of every image in the registry
  deployed,  \* app -> the run whose image it has, or the placeholder
  unsettled  \* apps with an operation under way, or whose last one failed

azure == <<acr, backend, images, deployed, unsettled>>
vars == <<ref, input, status, left, doomed, acr, backend, images, deployed, unsettled>>

Busy == {"building", "inspecting", "applying", "rolling"}

TypeOK ==
  /\ ref \in [Runs -> Refs]
  /\ input \in [Runs -> Inputs \union {Waiting}]
  /\ status \in [Runs -> [Jobs -> {"waiting", "success", "failure"} \union Busy]]
  /\ \A r \in Runs : \A j \in Jobs :
       /\ status[r][j] = "building" => j = "build-publish"
       /\ status[r][j] \in {"inspecting", "applying"} => j = "protected-apply"
       /\ status[r][j] = "rolling" => j = "app-rollout"
       /\ input[r] = Waiting => status[r][j] = "waiting"
  /\ left \in [Runs -> SUBSET Apps]
  /\ doomed \in [Runs -> SUBSET (Apps \X (Runs \union {Placeholder, Absent}))]
  /\ acr \in BOOLEAN /\ backend \in BOOLEAN
  /\ images \subseteq Apps \X Runs
  /\ deployed \in [Apps -> Runs \union {Placeholder, Absent}]
  /\ unsettled \subseteq Apps

Init ==
  /\ ref \in [Runs -> Refs]
  /\ input = [r \in Runs |-> Waiting]
  /\ status = [r \in Runs |-> [j \in Jobs |-> "waiting"]]
  /\ left = [r \in Runs |-> {}]
  /\ doomed = [r \in Runs |-> {}]
  /\ acr = FALSE /\ backend = FALSE
  /\ images = {}
  /\ deployed = [a \in Apps |-> Absent]
  /\ unsettled = {}

------------------------------------------------------------------------------
(* When a job starts.                                                      *)

Started(r) == input[r] # Waiting

\* The job's own condition.
Asked(r, j) ==
  CASE j = "protected-apply" -> "apply" \in input[r].ask
    [] j = "config-rollout" -> "config" \in input[r].ask
    [] j = "app-rollout" -> "rollout" \in input[r].ask
    [] j = "smoke-stage" -> input[r].tests
    [] OTHER -> TRUE

\* A job waits for all it needs and, unless its condition is always(), wants
\* success of them and of everything they stand on.
Above(S) == S \union UNION {Needs(j) : j \in S}
Requires(j) ==
  IF j = "deploy-summary" THEN {} ELSE Above(Above(Above(Needs(j))))

Skipped(r, j) ==
  \/ ~Asked(r, j)
  \/ \E k \in Requires(j) : ~Asked(r, k) \/ status[r][k] = "failure"

Over(r, j) == status[r][j] \in {"success", "failure"} \/ Skipped(r, j)

ReadyAfterSuccess(r, j) ==
  /\ Started(r) /\ status[r][j] = "waiting" /\ ~Skipped(r, j)
  /\ \A k \in Needs(j) : status[r][k] = "success"

\* Skipped and failed jobs are over, too, for a job that runs always().
Ready(r, j) ==
  /\ Started(r) /\ status[r][j] = "waiting" /\ ~Skipped(r, j)
  /\ \A k \in Needs(j) : Over(r, k)

Active(r) == Started(r) /\ \E j \in Jobs : ~Over(r, j)

Becomes(r, j, s) == status' = [status EXCEPT ![r][j] = s]

StartAnyTime(r) ==
  /\ ~Started(r)
  /\ \E i \in Inputs : input' = [input EXCEPT ![r] = i]
  /\ UNCHANGED <<ref, status, left, doomed, azure>>

\* One run of a ref at a time.
Start(r) ==
  /\ ~Started(r)
  /\ \A q \in Runs : Active(q) => ref[q] # ref[r]
  /\ \E i \in Inputs : input' = [input EXCEPT ![r] = i]
  /\ UNCHANGED <<ref, status, left, doomed, azure>>

PreflightForRollout(r) ==
  /\ Ready(r, "preflight")
  /\ Becomes(r, "preflight",
       IF input[r].ask \intersect {"config", "rollout"} # {} /\ ~input[r].phrase
         THEN "failure" ELSE "success")
  /\ UNCHANGED <<ref, input, left, doomed, azure>>

\* Stages that change apps, or might, want the phrase.
Preflight(r) ==
  /\ Ready(r, "preflight")
  /\ Becomes(r, "preflight",
       IF input[r].ask \intersect {"apply", "config", "rollout"} # {} /\ ~input[r].phrase
         THEN "failure" ELSE "success")
  /\ UNCHANGED <<ref, input, left, doomed, azure>>

\* Jobs that change nothing in Azure.  The smoke stage runs no live checks.
Report(r, j) ==
  /\ Ready(r, j) /\ Becomes(r, j, "success")
  /\ UNCHANGED <<ref, input, left, doomed, azure>>

Login(r) == Report(r, "azure-auth-deploy")
Plan(r) == Report(r, "terraform-plan")
ConfigRollout(r) == Report(r, "config-rollout")
Summary(r) == Report(r, "deploy-summary")
Smoke(r) == Report(r, "smoke-stage")

\* A job may fail, be refused by its reviewers or time out before it does
\* anything, or stop anywhere within.
FailFirst(r) ==
  /\ \E j \in Jobs : Ready(r, j) /\ Becomes(r, j, "failure")
  /\ UNCHANGED <<ref, input, left, doomed, azure>>

Fail(r) ==
  /\ \E j \in Jobs : status[r][j] \in Busy /\ Becomes(r, j, "failure")
  /\ left' = [left EXCEPT ![r] = {}]
  /\ doomed' = [doomed EXCEPT ![r] = {}]
  /\ UNCHANGED <<ref, input, azure>>

------------------------------------------------------------------------------
(* build-publish: the registry, then an image of each service.             *)

Publishes(r) == "publish" \in input[r].ask /\ input[r].execute

\* The image the job hands to the rollout.
Image(r) == IF Publishes(r) THEN r ELSE Placeholder

BuildDry(r) ==
  /\ Ready(r, "build-publish") /\ ~Publishes(r)
  /\ Becomes(r, "build-publish", "success")
  /\ UNCHANGED <<ref, input, left, doomed, azure>>

Build(r) ==
  /\ Ready(r, "build-publish") /\ Publishes(r)
  /\ Becomes(r, "build-publish", "building")
  /\ left' = [left EXCEPT ![r] = Apps]
  /\ acr' = TRUE
  /\ UNCHANGED <<ref, input, doomed, backend, images, deployed, unsettled>>

PushByRef(r) ==
  /\ status[r]["build-publish"] = "building"
  /\ \E a \in left[r] :
       images' = images \union {<<a, ref[r]>>} /\ left' = [left EXCEPT ![r] = @ \ {a}]
  /\ UNCHANGED <<ref, input, status, doomed, acr, backend, deployed, unsettled>>

Push(r) ==
  /\ status[r]["build-publish"] = "building"
  /\ \E a \in left[r] :
       images' = images \union {<<a, r>>} /\ left' = [left EXCEPT ![r] = @ \ {a}]
  /\ UNCHANGED <<ref, input, status, doomed, acr, backend, deployed, unsettled>>

BuildDoneEarly(r) ==
  /\ status[r]["build-publish"] = "building"
  /\ Becomes(r, "build-publish", "success")
  /\ UNCHANGED <<ref, input, left, doomed, azure>>

BuildDone(r) ==
  /\ status[r]["build-publish"] = "building" /\ left[r] = {}
  /\ Becomes(r, "build-publish", "success")
  /\ UNCHANGED <<ref, input, left, doomed, azure>>

------------------------------------------------------------------------------
(* protected-apply: the state backend, unsettled apps, what is missing.    *)

ApplyDry(r) ==
  /\ Ready(r, "protected-apply") /\ ~input[r].execute
  /\ Becomes(r, "protected-apply", "success")
  /\ UNCHANGED <<ref, input, left, doomed, azure>>

Apply(r) ==
  /\ Ready(r, "protected-apply") /\ input[r].execute
  /\ Becomes(r, "protected-apply", "inspecting")
  /\ left' = [left EXCEPT ![r] = Apps]
  /\ backend' = TRUE
  /\ UNCHANGED <<ref, input, doomed, acr, images, deployed, unsettled>>

\* An app the look-up finds Failed or InProgress is to be deleted; any other, or
\* one it does not find, stays.
Inspect(r) ==
  /\ status[r]["protected-apply"] = "inspecting" /\ doomed[r] = {}
  /\ \E a \in left[r] :
       /\ left' = [left EXCEPT ![r] = @ \ {a}]
       /\ \/ UNCHANGED doomed
          \/ /\ a \in unsettled
             /\ doomed' = [doomed EXCEPT ![r] = {<<a, deployed[a]>>}]
  /\ UNCHANGED <<ref, input, status, azure>>

\* The calls that follow: the app goes, whatever it has come to meanwhile.
Delete(r) ==
  /\ \E d \in doomed[r] :
       /\ deployed' = [deployed EXCEPT ![d[1]] = Absent]
       /\ unsettled' = unsettled \ {d[1]}
  /\ doomed' = [doomed EXCEPT ![r] = {}]
  /\ UNCHANGED <<ref, input, status, left, acr, backend, images>>

InspectDone(r) ==
  /\ status[r]["protected-apply"] = "inspecting" /\ left[r] = {} /\ doomed[r] = {}
  /\ Becomes(r, "protected-apply", "applying")
  /\ left' = [left EXCEPT ![r] = Apps]
  /\ UNCHANGED <<ref, input, doomed, azure>>

\* Terraform creates an app with the placeholder, and leaves the image of one
\* that exists alone.
Created(a) == IF deployed[a] = Absent THEN Placeholder ELSE deployed[a]

Create(r) ==
  /\ status[r]["protected-apply"] = "applying"
  /\ \E a \in left[r] :
       /\ deployed' = [deployed EXCEPT ![a] = Created(a)]
       /\ \/ /\ unsettled' \in {unsettled, unsettled \ {a}}
             /\ left' = [left EXCEPT ![r] = @ \ {a}]
             /\ UNCHANGED status
          \/ /\ unsettled' = unsettled \union {a}
             /\ left' = [left EXCEPT ![r] = {}]
             /\ Becomes(r, "protected-apply", "failure")
  /\ UNCHANGED <<ref, input, doomed, acr, backend, images>>

ApplyDone(r) ==
  /\ status[r]["protected-apply"] = "applying" /\ left[r] = {}
  /\ Becomes(r, "protected-apply", "success")
  /\ UNCHANGED <<ref, input, left, doomed, azure>>

------------------------------------------------------------------------------
(* app-rollout: the image build-publish has named, app by app.             *)

RolloutDry(r) ==
  /\ Ready(r, "app-rollout") /\ ~input[r].execute
  /\ Becomes(r, "app-rollout", "success")
  /\ UNCHANGED <<ref, input, left, doomed, azure>>

Rollout(r) ==
  /\ Ready(r, "app-rollout") /\ input[r].execute /\ acr
  /\ Becomes(r, "app-rollout", "rolling")
  /\ left' = [left EXCEPT ![r] = Apps]
  /\ UNCHANGED <<ref, input, doomed, azure>>

Patch(r) ==
  /\ status[r]["app-rollout"] = "rolling"
  /\ \E a \in left[r] :
       /\ deployed[a] # Absent
       /\ deployed' = [deployed EXCEPT ![a] = Image(r)]
       /\ \/ /\ unsettled' = unsettled \ {a}
             /\ left' = [left EXCEPT ![r] = @ \ {a}]
             /\ UNCHANGED status
          \/ /\ unsettled' = unsettled \union {a}
             /\ left' = [left EXCEPT ![r] = {}]
             /\ Becomes(r, "app-rollout", "failure")
  /\ UNCHANGED <<ref, input, doomed, acr, backend, images>>

RolloutDone(r) ==
  /\ status[r]["app-rollout"] = "rolling" /\ left[r] = {}
  /\ Becomes(r, "app-rollout", "success")
  /\ UNCHANGED <<ref, input, left, doomed, azure>>

\* An operation on an app starts or ends that leaves its image alone: of the
\* other workflows, or of a run that has not come to its effect yet.
Elsewhere(a) ==
  /\ deployed[a] # Absent
  /\ unsettled' \in {unsettled \union {a}, unsettled \ {a}}
  /\ UNCHANGED <<ref, input, status, left, doomed, acr, backend, images, deployed>>

------------------------------------------------------------------------------
Step(r) ==
  \/ Preflight(r) \/ Login(r) \/ Plan(r) \/ ConfigRollout(r) \/ Summary(r) \/ Smoke(r)
  \/ BuildDry(r) \/ Build(r) \/ Push(r) \/ BuildDone(r)
  \/ ApplyDry(r) \/ Apply(r) \/ Inspect(r) \/ Delete(r) \/ InspectDone(r)
  \/ Create(r) \/ ApplyDone(r)
  \/ RolloutDry(r) \/ Rollout(r) \/ Patch(r) \/ RolloutDone(r)
  \/ FailFirst(r) \/ Fail(r)

Next ==
  \/ \E r \in Runs : Start(r) \/ Step(r)
  \/ \E a \in Apps : Elsewhere(a)

Spec == Init /\ [][Next]_vars

------------------------------------------------------------------------------
(* Properties.                                                             *)

\* What an app runs was built by a run that has published every image, had the
\* phrase and applied the baseline first.
DeployedIsPublished ==
  \A a \in Apps, r \in Runs : deployed[a] = r =>
    /\ Apps \X {r} \subseteq images
    /\ input[r].execute /\ input[r].phrase
    /\ status[r]["protected-apply"] = "success"

Moved(r) == <<status[r], left[r], doomed[r]>>' # <<status[r], left[r], doomed[r]>>

\* Only a run that was given the phrase and told to execute changes the apps or
\* the state backend, and only one that publishes the registry: there is no way
\* through the job graph past the check in its first job.
ChangesAreApproved ==
  [][/\ <<deployed, backend>>' # <<deployed, backend>> =>
          \E r \in Runs :
            /\ Moved(r) /\ Started(r)
            /\ status[r]["preflight"] = "success" /\ input[r].phrase /\ input[r].execute
     /\ <<acr, images>>' # <<acr, images>> =>
          \E r \in Runs : Moved(r) /\ Started(r) /\ Publishes(r)]_vars

\* A run of another ref has come between: the concurrency group keeps only the
\* runs of one ref apart.
Crossed(r) ==
  \E q \in Runs \ {r} : ref[q] # ref[r] /\ status[q]["protected-apply"] # "waiting"

\* A rollout that ends well leaves every app with the image of its own run,
\* unless a run of another ref has come between.
RolloutLeavesOneVersion ==
  [][\A r \in Runs :
       status[r]["app-rollout"] = "rolling" /\ status'[r]["app-rollout"] = "success" =>
         \/ \A a \in Apps : deployed[a] = Image(r)
         \/ Crossed(r)]_vars

\* A service image gives way only to a rollout, or to a deletion by a run whose
\* look at the app has found it unsettled, with that very image unless a run of
\* another ref has come between: what is put there after the look by a run of
\* the same ref is never deleted, and no failed deployment and no apply puts
\* the hello-world image over a service.
ServicesKept ==
  [][\A a \in Apps : deployed[a] \in Runs /\ deployed'[a] # deployed[a] =>
       \/ \E r \in Runs : status[r]["app-rollout"] = "rolling" /\ deployed'[a] = Image(r)
       \/ /\ deployed'[a] = Absent
          /\ \E r \in Runs : \E d \in doomed[r] :
               d[1] = a /\ (d[2] = deployed[a] \/ Crossed(r))]_vars

\* A run that is under way can always go on, with a job that starts or one that is
\* at work: no job waits for one that is never over, whichever jobs were not asked
\* for, refused or failed, and so no run keeps its ref from the next one for ever.
NoRunStuck ==
  \A r \in Runs : Active(r) => \E j \in Jobs : Ready(r, j) \/ status[r][j] \in Busy

\* "The protected deploy workflow MUST follow this stage order: [...] 7.
\* deploy/update application containers 8. optionally invoke smoke/trace
\* verification" (.squad/specs/008-live-azure-e2e-gate/design.md).
StagesInOrder ==
  \A r \in Runs : status[r]["smoke-stage"] = "success" =>
    Over(r, "protected-apply") /\ Over(r, "app-rollout")
=============================================================================
