------------------------ MODULE DeployPipelineProofs ------------------------
(***************************************************************************)
(* What deployments leave behind, for any runs, refs, apps and inputs.     *)
(***************************************************************************)
EXTENDS DeployPipeline, TLAPS

(* A job that works, or has ended well, was asked for and stands on jobs   *)
(* that have ended well.                                                   *)
StandsOnSuccess ==
  \A r \in Runs : \A j \in Jobs \ {"deploy-summary"} :
    status[r][j] \notin {"waiting", "failure"} =>
      Asked(r, j) /\ \A k \in Needs(j) : status[r][k] = "success"

(* A preflight that ended well has seen the phrase, if it was needed, and  *)
(* a job that changes Azure was told to execute.                           *)
Approved ==
  \A r \in Runs :
    /\ status[r]["preflight"] = "success" =>
         input[r].ask \intersect {"apply", "config", "rollout"} = {} \/ input[r].phrase
    /\ status[r]["build-publish"] = "building" => Publishes(r)
    /\ status[r]["protected-apply"] \in Busy => input[r].execute
    /\ status[r]["app-rollout"] \in Busy => input[r].execute

(* The loop over the images is as far as `left' says.                      *)
Pushed ==
  \A r \in Runs :
    /\ status[r]["build-publish"] = "building" => (Apps \ left[r]) \X {r} \subseteq images
    /\ status[r]["build-publish"] = "success" /\ Publishes(r) => Apps \X {r} \subseteq images

(* Runs of one ref do not meet.                                            *)
TakeTurns ==
  \A r, q \in Runs : Active(r) /\ Active(q) /\ ref[r] = ref[q] => r = q

(* A rollout leaves its own image behind it.                               *)
Rolled ==
  \A r \in Runs : status[r]["app-rollout"] = "rolling" =>
    (\A a \in Apps \ left[r] : deployed[a] = Image(r)) \/ Crossed(r)

(* An app about to be deleted has the image it was found with.             *)
FoundStands ==
  \A r \in Runs : \A d \in doomed[r] :
    /\ status[r]["protected-apply"] = "inspecting"
    /\ deployed[d[1]] = d[2] \/ Crossed(r)

IInv ==
  /\ TypeOK /\ StandsOnSuccess /\ Approved /\ Pushed /\ DeployedIsPublished
  /\ TakeTurns /\ Rolled /\ FoundStands

------------------------------------------------------------------------------
(* The job graph.                                                          *)

(* What a job stands on includes what its needs stand on.                  *)
LEMMA Standing ==
  ASSUME NEW j \in Jobs, j # "deploy-summary", NEW k \in Needs(j)
  PROVE  k \in Jobs /\ k \in Requires(j) /\ Requires(k) \subseteq Requires(j)
<1>1. k \in Jobs
  BY DEF Needs, Jobs
<1>2. k \in Requires(j)
  BY DEF Requires, Above
<1>3. Requires(k) \subseteq Requires(j)
  <2>1. CASE j = "preflight"
    BY <2>1 DEF Needs
  <2>2. CASE j = "azure-auth-deploy"
    BY <2>2 DEF Needs, Requires, Above
  <2>3. CASE j \in {"build-publish", "terraform-plan"}
    BY <2>3 DEF Needs, Requires, Above
  <2>4. CASE j = "protected-apply"
    BY <2>4 DEF Needs, Requires, Above
  <2>5. CASE j = "config-rollout"
    BY <2>5 DEF Needs, Requires, Above
  <2>6. CASE j = "app-rollout"
    BY <2>6 DEF Needs, Requires, Above
  <2>7. CASE j = "smoke-stage"
    BY <2>7 DEF Needs, Requires, Above
  <2>. QED BY <2>1, <2>2, <2>3, <2>4, <2>5, <2>6, <2>7 DEF Jobs
<1>. QED BY <1>1, <1>2, <1>3

(* A job that starts finds all it needs ended well.                        *)
LEMMA ReadyMeansNeedsMet ==
  ASSUME TypeOK, NEW r \in Runs, NEW j \in Jobs, j # "deploy-summary", Ready(r, j)
  PROVE  Asked(r, j) /\ \A k \in Needs(j) : status[r][k] = "success"
<1>1. Asked(r, j) /\ \A k \in Requires(j) : Asked(r, k) /\ status[r][k] # "failure"
  BY DEF Ready, Skipped
<1>2. ASSUME NEW k \in Needs(j) PROVE status[r][k] = "success"
  <2>1. k \in Jobs /\ k \in Requires(j) /\ Requires(k) \subseteq Requires(j)
    BY Standing
  <2>2. ~Skipped(r, k)
    BY <1>1, <2>1 DEF Skipped
  <2>. QED BY <1>1, <2>1, <2>2 DEF Ready, Over
<1>. QED BY <1>1, <1>2

(* A job that works, or has ended well, stands on the success of all that  *)
(* is before it in the graph.                                              *)
LEMMA StandsOnAll ==
  ASSUME StandsOnSuccess, NEW r \in Runs, NEW j \in Jobs \ {"deploy-summary", "smoke-stage"},
         status[r][j] \notin {"waiting", "failure"}
  PROVE  \A k \in Requires(j) : Asked(r, k) /\ status[r][k] = "success"
<1>1. Asked(r, j) /\ \A k \in Needs(j) : status[r][k] = "success"
  BY DEF StandsOnSuccess
<1>2. \A i \in {"preflight", "azure-auth-deploy", "build-publish", "terraform-plan", "protected-apply"} :
        status[r][i] = "success" => Asked(r, i) /\ \A k \in Needs(i) : status[r][k] = "success"
  BY DEF StandsOnSuccess, Jobs
<1>3. CASE j = "preflight"
  BY <1>3 DEF Needs, Requires, Above
<1>4. CASE j = "azure-auth-deploy"
  BY <1>4, <1>1, <1>2 DEF Needs, Requires, Above
<1>5. CASE j \in {"build-publish", "terraform-plan"}
  BY <1>5, <1>1, <1>2 DEF Needs, Requires, Above
<1>6. CASE j = "protected-apply"
  BY <1>6, <1>1, <1>2 DEF Needs, Requires, Above
<1>7. CASE j = "config-rollout"
  BY <1>7, <1>1, <1>2 DEF Needs, Requires, Above
<1>8. CASE j = "app-rollout"
  BY <1>8, <1>1, <1>2 DEF Needs, Requires, Above
<1>. QED BY <1>3, <1>4, <1>5, <1>6, <1>7, <1>8 DEF Jobs

(* A job at work belongs to a run that is active.                          *)
LEMMA WorkingMeansActive ==
  ASSUME TypeOK, StandsOnSuccess, NEW r \in Runs, NEW j \in Jobs,
         Ready(r, j) \/ status[r][j] \in Busy
  PROVE  Active(r)
<1>1. CASE Ready(r, j)
  BY <1>1 DEF Ready, Over, Active
<1>2. CASE status[r][j] \in Busy
  <2>1. j \in {"build-publish", "protected-apply", "app-rollout"} /\ Started(r)
    BY <1>2 DEF TypeOK, Busy, Started
  <2>2. Asked(r, j) /\ \A k \in Needs(j) : status[r][k] = "success"
    BY <1>2, <2>1 DEF StandsOnSuccess, Busy
  <2>4. \A k \in Requires(j) : Asked(r, k) /\ status[r][k] = "success"
    BY <1>2, <2>1, StandsOnAll DEF Busy, Jobs
  <2>5. ~Skipped(r, j)
    BY <2>2, <2>4 DEF Skipped
  <2>. QED BY <1>2, <2>1, <2>5 DEF Over, Active, Busy
<1>. QED BY <1>1, <1>2
------------------------------------------------------------------------------
(* What a step may do.                                                     *)

(* What it takes to bring job j of run r to s.                             *)
Allowed(r, j, s) ==
  /\ j = "preflight" /\ s = "success" =>
       input[r].ask \intersect {"apply", "config", "rollout"} = {} \/ input[r].phrase
  /\ s = "building" => Publishes(r) /\ left'[r] = Apps
  /\ s \in {"inspecting", "rolling"} => input[r].execute
  /\ s = "applying" => status[r][j] = "inspecting"
  /\ s = "rolling" => left'[r] = Apps
  /\ j = "build-publish" /\ s = "success" /\ Publishes(r) =>
       status[r][j] = "building" /\ left[r] = {} /\ images' = images

(* A step of a run moves at most one of its jobs: from the start, or on    *)
(* from work that is under way.                                            *)
Moves(r) ==
  \/ UNCHANGED status
  \/ \E j \in Jobs, s \in {"success", "failure"} \union Busy :
       /\ Becomes(r, j, s)
       /\ Ready(r, j) \/ status[r][j] \in Busy
       /\ Allowed(r, j, s)
       /\ s = "building" => j = "build-publish"
       /\ s \in {"inspecting", "applying"} => j = "protected-apply"
       /\ s = "rolling" => j = "app-rollout"

LEMMA StepMoves ==
  ASSUME TypeOK, NEW r \in Runs, Step(r)
  PROVE  Moves(r)
<1>. USE DEF Moves, Allowed, Jobs, Busy
<1>0. \A S \in SUBSET Apps : [left EXCEPT ![r] = S][r] = S
  BY DEF TypeOK
<1>1. CASE Preflight(r)
  BY <1>1 DEF Preflight
<1>2. CASE Login(r) \/ Plan(r) \/ ConfigRollout(r) \/ Summary(r) \/ Smoke(r)
  BY <1>2 DEF Login, Plan, ConfigRollout, Summary, Smoke, Report
<1>3. CASE BuildDry(r)
  BY <1>3 DEF BuildDry
<1>4. CASE Build(r)
  <2>1. left'[r] = Apps
    BY <1>0, <1>4 DEF Build
  <2>2. Allowed(r, "build-publish", "building")
    BY <1>4, <2>1 DEF Build
  <2>. QED BY <1>4, <2>2 DEF Build
<1>5. CASE Push(r) \/ BuildDone(r)
  BY <1>5 DEF Push, BuildDone, azure
<1>6. CASE ApplyDry(r) \/ Apply(r) \/ Inspect(r) \/ Delete(r)
  BY <1>6 DEF ApplyDry, Apply, Inspect, Delete
<1>7. CASE InspectDone(r) \/ ApplyDone(r)
  BY <1>7 DEF InspectDone, ApplyDone
<1>8. CASE Create(r)
  BY <1>8 DEF Create
<1>9. CASE RolloutDry(r) \/ RolloutDone(r)
  BY <1>9 DEF RolloutDry, RolloutDone
<1>10. CASE Rollout(r)
  BY <1>0, <1>10 DEF Rollout
<1>11. CASE Patch(r)
  BY <1>11 DEF Patch
<1>12. CASE FailFirst(r) \/ Fail(r)
  BY <1>12 DEF FailFirst, Fail
<1>. QED BY <1>1, <1>2, <1>3, <1>4, <1>5, <1>6, <1>7, <1>8, <1>9, <1>10, <1>11, <1>12 DEF Step

(* It leaves refs and inputs alone, and the other runs' part of the loops. *)
LEMMA StepFrame ==
  ASSUME TypeOK, NEW r \in Runs, Step(r)
  PROVE  /\ UNCHANGED <<ref, input>>
         /\ \A q \in Runs \ {r} : left'[q] = left[q] /\ doomed'[q] = doomed[q]
         /\ images \subseteq images'
<1>. USE DEF TypeOK, azure
<1>1. CASE Preflight(r) \/ FailFirst(r) \/ Fail(r)
  BY <1>1 DEF Preflight, FailFirst, Fail
<1>2. CASE Login(r) \/ Plan(r) \/ ConfigRollout(r) \/ Summary(r) \/ Smoke(r)
  BY <1>2 DEF Login, Plan, ConfigRollout, Summary, Smoke, Report
<1>3. CASE BuildDry(r) \/ Build(r) \/ Push(r) \/ BuildDone(r)
  BY <1>3 DEF BuildDry, Build, Push, BuildDone
<1>4. CASE ApplyDry(r) \/ Apply(r) \/ Inspect(r) \/ Delete(r)
  BY <1>4 DEF ApplyDry, Apply, Inspect, Delete
<1>6. CASE InspectDone(r) \/ Create(r) \/ ApplyDone(r)
  BY <1>6 DEF InspectDone, Create, ApplyDone
<1>5. CASE RolloutDry(r) \/ Rollout(r) \/ Patch(r) \/ RolloutDone(r)
  BY <1>5 DEF RolloutDry, Rollout, Patch, RolloutDone
<1>. QED BY <1>1, <1>2, <1>3, <1>4, <1>5, <1>6 DEF Step

(* What has ended keeps how it ended, and what other runs' jobs are at.    *)
LEMMA EndedStays ==
  ASSUME TypeOK, NEW r \in Runs, Moves(r)
  PROVE  /\ \A q \in Runs \ {r} : status'[q] = status[q]
         /\ \A q \in Runs, j \in Jobs :
              status[q][j] \in {"success", "failure"} => status'[q][j] = status[q][j]
         /\ \A q \in Runs, j \in Jobs : status'[q][j] = "waiting" => status[q][j] = "waiting"
<1>1. CASE UNCHANGED status
  BY <1>1
<1>2. ASSUME NEW i \in Jobs, NEW s \in {"success", "failure"} \union Busy,
             Becomes(r, i, s), status[r][i] \notin {"success", "failure"}
      PROVE  /\ \A q \in Runs \ {r} : status'[q] = status[q]
             /\ \A q \in Runs, j \in Jobs :
                  status[q][j] \in {"success", "failure"} => status'[q][j] = status[q][j]
             /\ \A q \in Runs, j \in Jobs : status'[q][j] = "waiting" => status[q][j] = "waiting"
  <2>1. status'[r] = [status[r] EXCEPT ![i] = s] /\ \A q \in Runs \ {r} : status'[q] = status[q]
    BY <1>2 DEF Becomes, TypeOK
  <2>2. status[r] \in [Jobs -> {"waiting", "success", "failure"} \union Busy]
    BY DEF TypeOK
  <2>3. \A j \in Jobs \ {i} : status'[r][j] = status[r][j]
    BY <2>1, <2>2
  <2>4. status'[r][i] = s /\ s # "waiting"
    BY <2>1, <2>2 DEF Busy
  <2>. QED BY <1>2, <2>1, <2>3, <2>4
<1>. QED BY <1>1, <1>2 DEF Moves, Ready, Busy

------------------------------------------------------------------------------
(* The invariant.                                                          *)

(* A started run's job moves to a status that is one of its own.           *)
LEMMA BecomesType ==
  ASSUME TypeOK, NEW r \in Runs, NEW j \in Jobs,
         NEW s \in {"success", "failure"} \union Busy,
         Becomes(r, j, s), Started(r), UNCHANGED input,
         s = "building" => j = "build-publish",
         s \in {"inspecting", "applying"} => j = "protected-apply",
         s = "rolling" => j = "app-rollout"
  PROVE  /\ status' \in [Runs -> [Jobs -> {"waiting", "success", "failure"} \union Busy]]
         /\ \A q \in Runs : \A i \in Jobs :
              /\ status'[q][i] = "building" => i = "build-publish"
              /\ status'[q][i] \in {"inspecting", "applying"} => i = "protected-apply"
              /\ status'[q][i] = "rolling" => i = "app-rollout"
              /\ input'[q] = Waiting => status'[q][i] = "waiting"
<1>1. status' = [status EXCEPT ![r] = [status[r] EXCEPT ![j] = s]]
  BY DEF Becomes, TypeOK
<1>2. [status[r] EXCEPT ![j] = s] \in [Jobs -> {"waiting", "success", "failure"} \union Busy]
  BY DEF TypeOK
<1>3. status' \in [Runs -> [Jobs -> {"waiting", "success", "failure"} \union Busy]]
  BY <1>1, <1>2 DEF TypeOK
<1>4. ASSUME NEW q \in Runs, NEW i \in Jobs
      PROVE  status'[q][i] = status[q][i] \/ (q = r /\ i = j /\ status'[q][i] = s)
  BY <1>1, <1>2 DEF TypeOK
<1>. QED BY <1>3, <1>4 DEF TypeOK, Started

LEMMA TypeOKStep ==
  ASSUME TypeOK, [Next]_vars
  PROVE  TypeOK'
<1>. USE DEF azure
<1>1. ASSUME NEW r \in Runs, Start(r) PROVE TypeOK'
  BY <1>1 DEF Start, Started, TypeOK
<1>2. ASSUME NEW r \in Runs, Step(r) PROVE TypeOK'
  <2>. DEFINE StatusOK ==
         /\ status' \in [Runs -> [Jobs -> {"waiting", "success", "failure"} \union Busy]]
         /\ \A q \in Runs : \A i \in Jobs :
              /\ status'[q][i] = "building" => i = "build-publish"
              /\ status'[q][i] \in {"inspecting", "applying"} => i = "protected-apply"
              /\ status'[q][i] = "rolling" => i = "app-rollout"
              /\ input'[q] = Waiting => status'[q][i] = "waiting"
  <2>0. UNCHANGED <<ref, input>>
    BY <1>2, StepFrame
  <2>1. ASSUME UNCHANGED status PROVE StatusOK
    BY <2>0, <2>1 DEF TypeOK
  <2>2. ASSUME NEW j \in Jobs, NEW s \in {"success", "failure"} \union Busy, Becomes(r, j, s),
               Started(r),
               s = "building" => j = "build-publish",
               s \in {"inspecting", "applying"} => j = "protected-apply",
               s = "rolling" => j = "app-rollout"
        PROVE  StatusOK
    BY <2>0, <2>2, BecomesType
  <2>3. \A j \in Jobs : Ready(r, j) \/ status[r][j] \in Busy => Started(r)
    BY DEF Ready, TypeOK, Started, Busy
  <2>4. CASE Preflight(r)
    <3>1. StatusOK
      BY <2>2, <2>3, <2>4 DEF Preflight, Busy, Jobs
    <3>. QED BY <2>0, <2>4, <3>1 DEF Preflight, TypeOK
  <2>5. CASE Login(r)
    <3>1. StatusOK
      BY <2>2, <2>3, <2>5 DEF Login, Report, Busy, Jobs
    <3>. QED BY <2>0, <2>5, <3>1 DEF Login, Report, TypeOK
  <2>6. CASE Plan(r)
    <3>1. StatusOK
      BY <2>2, <2>3, <2>6 DEF Plan, Report, Busy, Jobs
    <3>. QED BY <2>0, <2>6, <3>1 DEF Plan, Report, TypeOK
  <2>7. CASE ConfigRollout(r)
    <3>1. StatusOK
      BY <2>2, <2>3, <2>7 DEF ConfigRollout, Report, Busy, Jobs
    <3>. QED BY <2>0, <2>7, <3>1 DEF ConfigRollout, Report, TypeOK
  <2>8. CASE Summary(r)
    <3>1. StatusOK
      BY <2>2, <2>3, <2>8 DEF Summary, Report, Busy, Jobs
    <3>. QED BY <2>0, <2>8, <3>1 DEF Summary, Report, TypeOK
  <2>9. CASE Smoke(r)
    <3>1. StatusOK
      BY <2>2, <2>3, <2>9 DEF Smoke, Report, Busy, Jobs
    <3>. QED BY <2>0, <2>9, <3>1 DEF Smoke, Report, TypeOK
  <2>10. CASE BuildDry(r)
    <3>1. StatusOK
      BY <2>2, <2>3, <2>10 DEF BuildDry, Busy, Jobs
    <3>. QED BY <2>0, <2>10, <3>1 DEF BuildDry, TypeOK
  <2>11. CASE Build(r)
    <3>1. StatusOK
      BY <2>2, <2>3, <2>11 DEF Build, Busy, Jobs
    <3>. QED BY <2>0, <2>11, <3>1 DEF Build, TypeOK
  <2>12. CASE BuildDone(r)
    <3>1. StatusOK
      BY <2>2, <2>3, <2>12 DEF BuildDone, Busy, Jobs
    <3>. QED BY <2>0, <2>12, <3>1 DEF BuildDone, TypeOK
  <2>13. CASE ApplyDry(r)
    <3>1. StatusOK
      BY <2>2, <2>3, <2>13 DEF ApplyDry, Busy, Jobs
    <3>. QED BY <2>0, <2>13, <3>1 DEF ApplyDry, TypeOK
  <2>14. CASE Apply(r)
    <3>1. StatusOK
      BY <2>2, <2>3, <2>14 DEF Apply, Busy, Jobs
    <3>. QED BY <2>0, <2>14, <3>1 DEF Apply, TypeOK
  <2>15. CASE InspectDone(r)
    <3>1. StatusOK
      BY <2>2, <2>3, <2>15 DEF InspectDone, Busy, Jobs
    <3>. QED BY <2>0, <2>15, <3>1 DEF InspectDone, TypeOK
  <2>16. CASE ApplyDone(r)
    <3>1. StatusOK
      BY <2>2, <2>3, <2>16 DEF ApplyDone, Busy, Jobs
    <3>. QED BY <2>0, <2>16, <3>1 DEF ApplyDone, TypeOK
  <2>17. CASE RolloutDry(r)
    <3>1. StatusOK
      BY <2>2, <2>3, <2>17 DEF RolloutDry, Busy, Jobs
    <3>. QED BY <2>0, <2>17, <3>1 DEF RolloutDry, TypeOK
  <2>18. CASE Rollout(r)
    <3>1. StatusOK
      BY <2>2, <2>3, <2>18 DEF Rollout, Busy, Jobs
    <3>. QED BY <2>0, <2>18, <3>1 DEF Rollout, TypeOK
  <2>19. CASE RolloutDone(r)
    <3>1. StatusOK
      BY <2>2, <2>3, <2>19 DEF RolloutDone, Busy, Jobs
    <3>. QED BY <2>0, <2>19, <3>1 DEF RolloutDone, TypeOK
  <2>20. CASE Push(r)
    <3>1. StatusOK
      BY <2>1, <2>20 DEF Push
    <3>. QED BY <2>0, <2>20, <3>1 DEF Push, TypeOK
  <2>21. CASE Inspect(r)
    <3>1. StatusOK
      BY <2>1, <2>21 DEF Inspect
    <3>2. PICK a \in left[r] :
            /\ left' = [left EXCEPT ![r] = @ \ {a}]
            /\ doomed' = doomed \/ doomed' = [doomed EXCEPT ![r] = {<<a, deployed[a]>>}]
      BY <2>21 DEF Inspect
    <3>3. left' \in [Runs -> SUBSET Apps]
      BY <3>2 DEF TypeOK
    <3>. DEFINE Marked == SUBSET (Apps \X (Runs \union {Placeholder, Absent}))
    <3>4. {<<a, deployed[a]>>} \in Marked /\ doomed \in [Runs -> Marked]
      BY <3>2 DEF TypeOK
    <3>5. doomed' \in [Runs -> Marked]
      <4>. HIDE DEF Marked
      <4>. QED BY <3>2, <3>4
    <3>6. UNCHANGED <<acr, backend, images, deployed, unsettled>>
      BY <2>21 DEF Inspect
    <3>. QED BY <2>0, <3>1, <3>3, <3>5, <3>6 DEF TypeOK
  <2>26. CASE Delete(r)
    <3>1. StatusOK
      BY <2>1, <2>26 DEF Delete
    <3>2. deployed' \in [Apps -> Runs \union {Placeholder, Absent}] /\ unsettled' \subseteq Apps
      BY <2>26 DEF Delete, TypeOK
    <3>3. doomed' \in [Runs -> SUBSET (Apps \X (Runs \union {Placeholder, Absent}))]
      BY <2>26 DEF Delete, TypeOK
    <3>. QED BY <2>0, <2>26, <3>1, <3>2, <3>3 DEF Delete, TypeOK
  <2>22. CASE Create(r)
    <3>1. StatusOK
      BY <2>1, <2>2, <2>3, <2>22 DEF Create, Busy, Jobs
    <3>2. deployed' \in [Apps -> Runs \union {Placeholder, Absent}]
      BY <2>22 DEF Create, Created, TypeOK
    <3>3. PICK a \in left[r] :
            /\ left' = [left EXCEPT ![r] = @ \ {a}] \/ left' = [left EXCEPT ![r] = {}]
            /\ unsettled' \in {unsettled, unsettled \ {a}, unsettled \union {a}}
      BY <2>22 DEF Create
    <3>4. left' \in [Runs -> SUBSET Apps]
      BY <3>3 DEF TypeOK
    <3>5. unsettled' \subseteq Apps
      BY <3>3 DEF TypeOK
    <3>. QED BY <2>0, <2>22, <3>1, <3>2, <3>4, <3>5 DEF Create, TypeOK
  <2>23. CASE Patch(r)
    <3>1. StatusOK
      BY <2>1, <2>2, <2>3, <2>23 DEF Patch, Busy, Jobs
    <3>2. deployed' \in [Apps -> Runs \union {Placeholder, Absent}]
      BY <2>23 DEF Patch, Image, TypeOK
    <3>3. PICK a \in left[r] :
            /\ left' = [left EXCEPT ![r] = @ \ {a}] \/ left' = [left EXCEPT ![r] = {}]
            /\ unsettled' \in {unsettled, unsettled \ {a}, unsettled \union {a}}
      BY <2>23 DEF Patch
    <3>4. left' \in [Runs -> SUBSET Apps]
      BY <3>3 DEF TypeOK
    <3>5. unsettled' \subseteq Apps
      BY <3>3 DEF TypeOK
    <3>. QED BY <2>0, <2>23, <3>1, <3>2, <3>4, <3>5 DEF Patch, TypeOK
  <2>24. CASE FailFirst(r)
    <3>1. StatusOK
      BY <2>2, <2>3, <2>24 DEF FailFirst, Busy
    <3>. QED BY <2>0, <2>24, <3>1 DEF FailFirst, TypeOK
  <2>25. CASE Fail(r)
    <3>1. StatusOK
      BY <2>2, <2>3, <2>25 DEF Fail, Busy
    <3>. QED BY <2>0, <2>25, <3>1 DEF Fail, TypeOK
  <2>. QED BY <1>2, <2>4, <2>5, <2>6, <2>7, <2>8, <2>9, <2>10, <2>11, <2>12, <2>13, <2>14, <2>15, <2>16, <2>17, <2>18, <2>19, <2>20, <2>21, <2>22, <2>23, <2>24, <2>25, <2>26 DEF Step
<1>3. CASE UNCHANGED vars \/ \E a \in Apps : Elsewhere(a)
  BY <1>3 DEF vars, Elsewhere, TypeOK
<1>. QED BY <1>1, <1>2, <1>3 DEF Next

LEMMA StandsStep ==
  ASSUME TypeOK, StandsOnSuccess, [Next]_vars
  PROVE  StandsOnSuccess'
<1>1. ASSUME NEW r \in Runs, Start(r) PROVE StandsOnSuccess'
  <2>1. \A q \in Runs \ {r} : input'[q] = input[q]
    BY <1>1 DEF Start, TypeOK
  <2>2. \A j \in Jobs : status[r][j] = "waiting"
    BY <1>1 DEF Start, Started, TypeOK
  <2>. QED BY <1>1, <2>1, <2>2 DEF Start, StandsOnSuccess, Asked
<1>2. ASSUME NEW r \in Runs, Step(r) PROVE StandsOnSuccess'
  <2>1. Moves(r) /\ UNCHANGED input
    BY <1>2, StepMoves, StepFrame
  <2>2. ASSUME NEW q \in Runs, NEW j \in Jobs \ {"deploy-summary"},
               status'[q][j] \notin {"waiting", "failure"}
        PROVE  Asked(q, j) /\ \A k \in Needs(j) : status[q][k] = "success"
    <3>1. CASE status'[q][j] = status[q][j]
      BY <2>2, <3>1 DEF StandsOnSuccess
    <3>2. CASE status'[q][j] # status[q][j]
      <4>1. q = r /\ (Ready(r, j) \/ status[r][j] \in Busy)
        BY <2>1, <3>2 DEF Moves, Becomes, TypeOK
      <4>2. CASE Ready(r, j)
        BY <4>1, <4>2, ReadyMeansNeedsMet
      <4>3. CASE status[r][j] \in Busy
        BY <4>1, <4>3 DEF StandsOnSuccess, Busy
      <4>. QED BY <4>1, <4>2, <4>3
    <3>. QED BY <3>1, <3>2
  <2>3. \A q \in Runs, k \in Jobs : status[q][k] = "success" => status'[q][k] = "success"
    BY <2>1, EndedStays
  <2>4. \A j \in Jobs \ {"deploy-summary"} : Needs(j) \subseteq Jobs
    BY Standing
  <2>. QED BY <2>1, <2>2, <2>3, <2>4 DEF StandsOnSuccess, Asked
<1>3. CASE UNCHANGED vars \/ \E a \in Apps : Elsewhere(a)
  BY <1>3 DEF vars, Elsewhere, StandsOnSuccess, Asked
<1>. QED BY <1>1, <1>2, <1>3 DEF Next

(* What a step leaves as it was, or sets, job by job.                      *)
LEMMA BecomesAt ==
  ASSUME TypeOK, NEW r \in Runs, NEW j \in Jobs,
         NEW s \in {"success", "failure"} \union Busy, Becomes(r, j, s)
  PROVE  /\ status'[r][j] = s
         /\ \A i \in Jobs \ {j} : status'[r][i] = status[r][i]
         /\ \A q \in Runs \ {r} : status'[q] = status[q]
<1>1. status' = [status EXCEPT ![r] = [status[r] EXCEPT ![j] = s]]
  BY DEF Becomes, TypeOK
<1>. QED BY <1>1 DEF TypeOK

LEMMA ApprovedStep ==
  ASSUME TypeOK, Approved, [Next]_vars
  PROVE  Approved'
<1>1. ASSUME NEW r \in Runs, Start(r) PROVE Approved'
  <2>1. \A q \in Runs \ {r} : input'[q] = input[q]
    BY <1>1 DEF Start, TypeOK
  <2>2. \A j \in Jobs : status[r][j] = "waiting"
    BY <1>1 DEF Start, Started, TypeOK
  <2>. QED BY <1>1, <2>1, <2>2 DEF Start, Approved, Publishes, Jobs, Busy
<1>2. ASSUME NEW r \in Runs, Step(r) PROVE Approved'
  <2>1. Moves(r) /\ UNCHANGED input
    BY <1>2, StepMoves, StepFrame
  <2>2. CASE UNCHANGED status
    BY <2>1, <2>2 DEF Approved, Publishes
  <2>3. ASSUME NEW j \in Jobs, NEW s \in {"success", "failure"} \union Busy,
               Becomes(r, j, s), Allowed(r, j, s),
               s = "building" => j = "build-publish",
               s \in {"inspecting", "applying"} => j = "protected-apply",
               s = "rolling" => j = "app-rollout"
        PROVE  Approved'
    <3>1. \A q \in Runs \ {r} : status'[q] = status[q]
      BY <2>3, BecomesAt
    <3>2. status'[r][j] = s /\ \A i \in Jobs \ {j} : status'[r][i] = status[r][i]
      BY <2>3, BecomesAt
    <3>3. s \in Busy =>
            /\ s = "building" => Publishes(r)
            /\ s # "building" => input[r].execute
      BY <2>3 DEF Allowed, Approved, Busy
    <3>4. /\ status'[r]["preflight"] = "success" =>
               input[r].ask \intersect {"apply", "config", "rollout"} = {} \/ input[r].phrase
          /\ status'[r]["build-publish"] = "building" => Publishes(r)
          /\ status'[r]["protected-apply"] \in Busy => input[r].execute
          /\ status'[r]["app-rollout"] \in Busy => input[r].execute
      BY <2>3, <3>2, <3>3 DEF Allowed, Approved, Jobs, Busy
    <3>. QED BY <2>1, <3>1, <3>4 DEF Approved, Publishes
  <2>. QED BY <2>1, <2>2, <2>3 DEF Moves
<1>3. CASE UNCHANGED vars \/ \E a \in Apps : Elsewhere(a)
  BY <1>3 DEF vars, Elsewhere, Approved, Publishes
<1>. QED BY <1>1, <1>2, <1>3 DEF Next

(* One job of a run changes Azure at a time.                               *)
LEMMA OneAtWork ==
  ASSUME TypeOK, StandsOnSuccess, NEW r \in Runs
  PROVE  /\ Ready(r, "protected-apply") \/ status[r]["protected-apply"] \notin {"waiting", "failure"} =>
              status[r]["build-publish"] = "success" /\ status[r]["preflight"] = "success"
                /\ "apply" \in input[r].ask
         /\ Ready(r, "app-rollout") \/ status[r]["app-rollout"] \notin {"waiting", "failure"} =>
              status[r]["build-publish"] = "success" /\ status[r]["protected-apply"] = "success"
<1>1. "preflight" \in Needs("protected-apply") /\ "build-publish" \in Needs("protected-apply")
  BY DEF Needs
<1>2. "build-publish" \in Needs("app-rollout") /\ "protected-apply" \in Needs("app-rollout")
  BY DEF Needs
<1>3. {"protected-apply", "app-rollout"} \subseteq Jobs \ {"deploy-summary"}
  BY DEF Jobs
<1>4. \A j \in {"protected-apply", "app-rollout"} :
        Ready(r, j) \/ status[r][j] \notin {"waiting", "failure"} =>
          Asked(r, j) /\ \A k \in Needs(j) : status[r][k] = "success"
  BY <1>3, ReadyMeansNeedsMet DEF StandsOnSuccess
<1>5. Asked(r, "protected-apply") <=> "apply" \in input[r].ask
  BY DEF Asked
<1>. QED BY <1>1, <1>2, <1>4, <1>5

(* While a job works on the apps nobody else of its run does.              *)
LEMMA LoopSteps ==
  ASSUME TypeOK, StandsOnSuccess, FoundStands, NEW r \in Runs, Step(r)
  PROVE  /\ status[r]["build-publish"] = "building" /\ status'[r]["build-publish"] = "building" =>
              UNCHANGED left \/ Push(r)
         /\ status[r]["app-rollout"] = "rolling" /\ status'[r]["app-rollout"] = "rolling" =>
              UNCHANGED <<left, deployed>> \/ Patch(r)
         /\ UNCHANGED deployed \/ status[r]["protected-apply"] \in {"inspecting", "applying"}
              \/ status[r]["app-rollout"] = "rolling"
<1>. USE OneAtWork DEF azure
<1>1. CASE Preflight(r) \/ FailFirst(r)
  BY <1>1 DEF Preflight, FailFirst
<1>2. CASE Login(r) \/ Plan(r) \/ ConfigRollout(r) \/ Summary(r) \/ Smoke(r)
  BY <1>2 DEF Login, Plan, ConfigRollout, Summary, Smoke, Report
<1>3. CASE BuildDry(r) \/ BuildDone(r) \/ Push(r)
  BY <1>3 DEF BuildDry, BuildDone, Push
<1>4. CASE Build(r)
  BY <1>4 DEF Build, Ready
<1>5. CASE ApplyDry(r) \/ ApplyDone(r)
  BY <1>5 DEF ApplyDry, ApplyDone
<1>6. CASE Apply(r) \/ Inspect(r) \/ InspectDone(r) \/ Create(r)
  BY <1>6 DEF Apply, Inspect, InspectDone, Create, Ready
<1>10. CASE Delete(r)
  BY <1>10 DEF Delete, FoundStands
<1>7. CASE RolloutDry(r) \/ RolloutDone(r)
  BY <1>7 DEF RolloutDry, RolloutDone
<1>8. CASE Rollout(r) \/ Patch(r)
  BY <1>8 DEF Rollout, Patch, Ready
<1>9. CASE Fail(r)
  <2>1. PICK j \in Jobs : status[r][j] \in Busy /\ Becomes(r, j, "failure")
    BY <1>9 DEF Fail
  <2>2. status'[r][j] = "failure"
    BY <2>1, BecomesAt
  <2>3. j \in {"build-publish", "protected-apply", "app-rollout"}
    BY <2>1 DEF TypeOK, Busy
  <2>. QED BY <1>9, <2>1, <2>2, <2>3 DEF Fail, Busy
<1>. QED BY <1>1, <1>2, <1>3, <1>4, <1>5, <1>6, <1>7, <1>8, <1>9, <1>10 DEF Step

LEMMA PushedStep ==
  ASSUME TypeOK, StandsOnSuccess, FoundStands, Pushed, [Next]_vars
  PROVE  Pushed'
<1>1. ASSUME NEW r \in Runs, Start(r) PROVE Pushed'
  <2>1. \A q \in Runs \ {r} : input'[q] = input[q]
    BY <1>1 DEF Start, TypeOK
  <2>2. \A j \in Jobs : status[r][j] = "waiting"
    BY <1>1 DEF Start, Started, TypeOK
  <2>. QED BY <1>1, <2>1, <2>2 DEF Start, Pushed, Publishes, Jobs, azure
<1>2. ASSUME NEW r \in Runs, Step(r) PROVE Pushed'
  <2>1. /\ Moves(r) /\ UNCHANGED input
        /\ \A q \in Runs \ {r} : left'[q] = left[q] /\ status'[q] = status[q]
        /\ images \subseteq images'
    BY <1>2, StepMoves, StepFrame, EndedStays
  <2>2. ASSUME status'[r]["build-publish"] = "building"
        PROVE  (Apps \ left'[r]) \X {r} \subseteq images'
    <3>1. CASE status[r]["build-publish"] # "building"
      <4>1. PICK j \in Jobs, s \in {"success", "failure"} \union Busy :
              Becomes(r, j, s) /\ Allowed(r, j, s)
        BY <2>1, <2>2, <3>1 DEF Moves
      <4>2. s = "building"
        BY <2>2, <3>1, <4>1, BecomesAt DEF Jobs
      <4>. QED BY <4>1, <4>2 DEF Allowed
    <3>2. CASE status[r]["build-publish"] = "building"
      <4>1. CASE UNCHANGED left
        BY <2>1, <3>2, <4>1 DEF Pushed
      <4>2. CASE Push(r)
        <5>1. PICK a \in left[r] : images' = images \union {<<a, r>>} /\ left' = [left EXCEPT ![r] = @ \ {a}]
          BY <4>2 DEF Push
        <5>2. left'[r] = left[r] \ {a}
          BY <5>1 DEF TypeOK
        <5>. QED BY <3>2, <5>1, <5>2 DEF Pushed
      <4>. QED BY <1>2, <2>2, <3>2, <4>1, <4>2, LoopSteps
    <3>. QED BY <3>1, <3>2
  <2>3. ASSUME status'[r]["build-publish"] = "success", Publishes(r)
        PROVE  Apps \X {r} \subseteq images'
    <3>1. CASE status[r]["build-publish"] = "success"
      BY <2>1, <2>3, <3>1 DEF Pushed
    <3>2. CASE status[r]["build-publish"] # "success"
      <4>1. status[r]["build-publish"] = "building" /\ left[r] = {}
        BY <2>1, <2>3, <3>2, BecomesAt DEF Moves, Allowed, Jobs
      <4>. QED BY <2>1, <4>1 DEF Pushed
    <3>. QED BY <3>1, <3>2
  <2>. QED BY <2>1, <2>2, <2>3 DEF Pushed, Publishes
<1>3. CASE UNCHANGED vars \/ \E a \in Apps : Elsewhere(a)
  BY <1>3 DEF vars, Elsewhere, Pushed, Publishes
<1>. QED BY <1>1, <1>2, <1>3 DEF Next

LEMMA DeployedStep ==
  ASSUME TypeOK, StandsOnSuccess, Approved, Pushed, DeployedIsPublished, [Next]_vars
  PROVE  DeployedIsPublished'
<1>1. ASSUME NEW r \in Runs, Start(r) PROVE DeployedIsPublished'
  <2>1. \A q \in Runs \ {r} : input'[q] = input[q]
    BY <1>1 DEF Start, TypeOK
  <2>2. \A j \in Jobs : status[r][j] = "waiting"
    BY <1>1 DEF Start, Started, TypeOK
  <2>3. \A a \in Apps : deployed[a] # r
    BY <2>2 DEF DeployedIsPublished, Jobs
  <2>. QED BY <1>1, <2>1, <2>3 DEF Start, DeployedIsPublished, azure
<1>2. ASSUME NEW r \in Runs, Step(r) PROVE DeployedIsPublished'
  <2>1. Moves(r) /\ UNCHANGED input /\ images \subseteq images'
    BY <1>2, StepMoves, StepFrame
  <2>2. \A q \in Runs : status[q]["protected-apply"] = "success" =>
          status'[q]["protected-apply"] = "success"
    BY <2>1, EndedStays DEF Jobs
  <2>3. ASSUME NEW a \in Apps, NEW q \in Runs, deployed'[a] = q
        PROVE  deployed[a] = q \/ (Patch(r) /\ q = r /\ Publishes(r))
    <3>1. CASE UNCHANGED deployed
      BY <2>3, <3>1
    <3>2. CASE Delete(r)
      BY <2>3, <3>2, PipelineAssumption DEF Delete, TypeOK
    <3>3. CASE Create(r)
      BY <2>3, <3>3, PipelineAssumption DEF Create, Created, TypeOK
    <3>4. CASE Patch(r)
      BY <2>3, <3>4, PipelineAssumption DEF Patch, Image, TypeOK
    <3>. QED BY <1>2, <3>1, <3>2, <3>3, <3>4 DEF Step, Preflight, Login, Plan, ConfigRollout, Summary, Smoke, Report, BuildDry, Build, Push, BuildDone, ApplyDry, Apply, Inspect, InspectDone, ApplyDone, RolloutDry, Rollout, RolloutDone, FailFirst, Fail, azure
  <2>4. ASSUME Patch(r), Publishes(r)
        PROVE  /\ Apps \X {r} \subseteq images
               /\ input[r].execute /\ input[r].phrase
               /\ status[r]["protected-apply"] = "success"
    <3>1. status[r]["app-rollout"] = "rolling"
      BY <2>4 DEF Patch
    <3>2. /\ status[r]["build-publish"] = "success" /\ status[r]["protected-apply"] = "success"
          /\ status[r]["preflight"] = "success" /\ "apply" \in input[r].ask
      BY <3>1, OneAtWork
    <3>. QED BY <2>4, <3>1, <3>2 DEF Approved, Pushed, Busy
  <2>. QED BY <2>1, <2>2, <2>3, <2>4 DEF DeployedIsPublished
<1>3. CASE UNCHANGED vars \/ \E a \in Apps : Elsewhere(a)
  BY <1>3 DEF vars, Elsewhere, DeployedIsPublished
<1>. QED BY <1>1, <1>2, <1>3 DEF Next

(* What a job stands on are jobs.                                          *)
LEMMA RequiresJobs ==
  ASSUME NEW j \in Jobs
  PROVE  Requires(j) \subseteq Jobs
<1>1. \A k \in Jobs : Needs(k) \subseteq Jobs
  BY DEF Needs, Jobs
<1>2. \A S \in SUBSET Jobs : Above(S) \in SUBSET Jobs
  BY <1>1 DEF Above
<1>3. Needs(j) \in SUBSET Jobs
  BY <1>1
<1>4. Above(Above(Above(Needs(j)))) \in SUBSET Jobs
  BY <1>2, <1>3
<1>. QED BY <1>4 DEF Requires

(* A job that is over stays over, so a run does not come back to life.     *)
LEMMA OverStays ==
  ASSUME TypeOK, NEW r \in Runs, Step(r), NEW q \in Runs, Active(q)'
  PROVE  Active(q)
<1>1. Moves(r) /\ UNCHANGED input
  BY StepMoves, StepFrame
<1>2. ASSUME NEW j \in Jobs, Over(q, j) PROVE Over(q, j)'
  <2>1. CASE status[q][j] \in {"success", "failure"}
    BY <1>1, <2>1, EndedStays DEF Over
  <2>2. CASE Skipped(q, j)
    <3>1. \A k \in Requires(j) : status[q][k] = "failure" => status'[q][k] = "failure"
      BY <1>1, EndedStays, RequiresJobs
    <3>2. Skipped(q, j)'
      BY <1>1, <2>2, <3>1 DEF Skipped, Asked
    <3>. QED BY <3>2 DEF Over
  <2>. QED BY <1>2, <2>1, <2>2 DEF Over
<1>. QED BY <1>1, <1>2 DEF Active, Started

LEMMA TakeTurnsStep ==
  ASSUME TypeOK, TakeTurns, [Next]_vars
  PROVE  TakeTurns'
<1>1. ASSUME NEW r \in Runs, Start(r) PROVE TakeTurns'
  <2>1. ref' = ref /\ \A q \in Runs : Active(q) => ref[q] # ref[r]
    BY <1>1 DEF Start
  <2>2. \A q \in Runs \ {r} : input'[q] = input[q] /\ status'[q] = status[q]
    BY <1>1 DEF Start, TypeOK
  <2>3. \A q \in Runs \ {r} : Active(q)' => Active(q)
    BY <2>2 DEF Active, Started, Over, Skipped, Asked
  <2>. QED BY <2>1, <2>3 DEF TakeTurns
<1>2. ASSUME NEW r \in Runs, Step(r) PROVE TakeTurns'
  <2>1. \A q \in Runs : Active(q)' => Active(q)
    BY <1>2, OverStays
  <2>. QED BY <1>2, <2>1, StepFrame DEF TakeTurns
<1>3. CASE UNCHANGED vars \/ \E a \in Apps : Elsewhere(a)
  BY <1>3 DEF vars, Elsewhere, TakeTurns, Active, Started, Over, Skipped, Asked
<1>. QED BY <1>1, <1>2, <1>3 DEF Next

(* Once crossed by a run of another ref, a run stays so.                   *)
LEMMA CrossedStays ==
  ASSUME TypeOK, NEW q \in Runs, Step(q), NEW r \in Runs, Crossed(r)
  PROVE  Crossed(r)'
<1>1. Moves(q) /\ UNCHANGED ref
  BY StepMoves, StepFrame
<1>2. \A p \in Runs : status'[p]["protected-apply"] = "waiting" =>
        status[p]["protected-apply"] = "waiting"
  BY <1>1, EndedStays DEF Jobs
<1>. QED BY <1>1, <1>2 DEF Crossed

(* Runs of one ref do not change the apps while the other is at work.      *)
LEMMA OthersCross ==
  ASSUME TypeOK, StandsOnSuccess, TakeTurns, FoundStands,
         NEW q \in Runs, Step(q), deployed' # deployed,
         NEW r \in Runs \ {q}, NEW j \in Jobs, status[r][j] \in Busy
  PROVE  Crossed(r)
<1>1. \/ status[q]["protected-apply"] \in {"inspecting", "applying"}
      \/ status[q]["app-rollout"] = "rolling"
  BY LoopSteps
<1>2. status[q]["protected-apply"] # "waiting"
  BY <1>1, OneAtWork
<1>3. Active(q)
  BY <1>1, WorkingMeansActive DEF Jobs, Busy
<1>4. Active(r)
  BY WorkingMeansActive
<1>. QED BY <1>2, <1>3, <1>4 DEF TakeTurns, Crossed

LEMMA RolledStep ==
  ASSUME TypeOK, StandsOnSuccess, TakeTurns, Rolled, FoundStands, [Next]_vars
  PROVE  Rolled'
<1>1. ASSUME NEW r \in Runs, Start(r) PROVE Rolled'
  <2>1. \A q \in Runs \ {r} : input'[q] = input[q]
    BY <1>1 DEF Start, TypeOK
  <2>2. status[r]["app-rollout"] = "waiting"
    BY <1>1 DEF Start, Started, TypeOK, Jobs
  <2>3. UNCHANGED <<ref, status, left, deployed>>
    BY <1>1 DEF Start, azure
  <2>. QED BY <2>1, <2>2, <2>3 DEF Rolled, Crossed, Image, Publishes
<1>2. ASSUME NEW r \in Runs, Step(r), NEW q \in Runs, status'[q]["app-rollout"] = "rolling"
      PROVE  (\A a \in Apps \ left'[q] : deployed'[a] = Image(q)') \/ Crossed(q)'
  <2>1. Moves(r) /\ UNCHANGED <<ref, input>>
    BY <1>2, StepMoves, StepFrame
  <2>2. Image(q)' = Image(q)
    BY <2>1 DEF Image, Publishes
  <2>3. Crossed(q) => Crossed(q)'
    BY <1>2, CrossedStays
  <2>4. CASE status[q]["app-rollout"] = "rolling" /\ UNCHANGED <<deployed, left>>
    BY <2>1, <2>2, <2>3, <2>4 DEF Rolled
  <2>5. CASE q = r /\ status[r]["app-rollout"] # "rolling"
    <3>1. left'[r] = Apps
      BY <1>2, <2>1, <2>5, BecomesAt DEF Moves, Allowed, Jobs
    <3>. QED BY <2>5, <3>1
  <2>6. CASE q = r /\ status[r]["app-rollout"] = "rolling" /\ Patch(r)
    <3>1. PICK a \in left[r] :
            /\ deployed' = [deployed EXCEPT ![a] = Image(r)]
            /\ \/ left' = [left EXCEPT ![r] = @ \ {a}]
               \/ Becomes(r, "app-rollout", "failure")
      BY <2>6 DEF Patch
    <3>2. left' = [left EXCEPT ![r] = @ \ {a}]
      BY <1>2, <2>6, <3>1, BecomesAt DEF Jobs
    <3>3. left'[r] = left[r] \ {a}
      BY <3>2 DEF TypeOK
    <3>4. deployed'[a] = Image(r) /\ \A b \in Apps \ {a} : deployed'[b] = deployed[b]
      BY <3>1 DEF TypeOK
    <3>. QED BY <2>1, <2>2, <2>3, <2>6, <3>3, <3>4 DEF Rolled
  <2>7. CASE q # r
    <3>1. status'[q] = status[q] /\ left'[q] = left[q]
      BY <1>2, <2>1, <2>7, StepFrame, EndedStays
    <3>2. CASE UNCHANGED deployed
      BY <1>2, <2>1, <2>2, <2>3, <3>1, <3>2 DEF Rolled
    <3>3. CASE deployed' # deployed
      <4>1. Crossed(q)
        BY <1>2, <2>7, <3>1, <3>3, OthersCross DEF Jobs, Busy
      <4>. QED BY <2>3, <4>1
    <3>. QED BY <3>2, <3>3
  <2>. QED BY <1>2, <2>4, <2>5, <2>6, <2>7, LoopSteps
<1>3. CASE UNCHANGED vars \/ \E a \in Apps : Elsewhere(a)
  BY <1>3 DEF vars, Elsewhere, Rolled, Crossed, Image, Publishes
<1>4. CASE \E r \in Runs : Step(r)
  BY <1>2, <1>4 DEF Rolled
<1>. QED BY <1>1, <1>3, <1>4 DEF Next

(* An app is marked while its run inspects, with the image it has then.    *)
LEMMA Marks ==
  ASSUME TypeOK, StandsOnSuccess, FoundStands, NEW r \in Runs, Step(r), doomed'[r] # {}
  PROVE  /\ status'[r]["protected-apply"] = "inspecting" /\ UNCHANGED deployed
         /\ doomed'[r] = doomed[r] \/ \E a \in Apps : doomed'[r] = {<<a, deployed[a]>>}
<1>. USE DEF azure
<1>1. CASE Inspect(r)
  BY <1>1 DEF Inspect, TypeOK
<1>2. CASE Delete(r) \/ Fail(r)
  BY <1>2 DEF Delete, Fail, TypeOK
<1>3. ASSUME UNCHANGED doomed
      PROVE  /\ status[r]["protected-apply"] = "inspecting" /\ doomed[r] # {}
             /\ status[r]["build-publish"] # "building" /\ status[r]["app-rollout"] # "rolling"
  BY <1>3, OneAtWork DEF FoundStands
<1>4. ASSUME UNCHANGED doomed, NEW j \in Jobs, NEW s \in {"success", "failure"} \union Busy,
             Ready(r, j), Becomes(r, j, s)
      PROVE  status'[r]["protected-apply"] = "inspecting"
  <2>1. j # "protected-apply"
    BY <1>3, <1>4 DEF Ready
  <2>. QED BY <1>3, <1>4, <2>1, BecomesAt DEF Jobs
<1>5. CASE Preflight(r) \/ FailFirst(r)
  BY <1>4, <1>5 DEF Preflight, FailFirst, Jobs
<1>6. CASE Login(r) \/ Plan(r) \/ ConfigRollout(r) \/ Summary(r) \/ Smoke(r)
  BY <1>4, <1>6 DEF Login, Plan, ConfigRollout, Summary, Smoke, Report, Jobs
<1>7. CASE BuildDry(r) \/ Build(r)
  BY <1>4, <1>7 DEF BuildDry, Build, Jobs, Busy
<1>8. CASE ApplyDry(r) \/ Apply(r) \/ RolloutDry(r) \/ Rollout(r)
  BY <1>4, <1>8 DEF ApplyDry, Apply, RolloutDry, Rollout, Jobs, Busy
<1>9. CASE Push(r) \/ BuildDone(r)
  BY <1>3, <1>9 DEF Push, BuildDone
<1>10. CASE InspectDone(r) \/ Create(r) \/ ApplyDone(r)
  BY <1>3, <1>10 DEF InspectDone, Create, ApplyDone
<1>11. CASE Patch(r) \/ RolloutDone(r)
  BY <1>3, <1>11 DEF Patch, RolloutDone
<1>. QED BY <1>1, <1>2, <1>5, <1>6, <1>7, <1>8, <1>9, <1>10, <1>11 DEF Step

LEMMA FoundStep ==
  ASSUME TypeOK, StandsOnSuccess, TakeTurns, FoundStands, [Next]_vars
  PROVE  FoundStands'
<1>1. ASSUME NEW r \in Runs, Start(r) PROVE FoundStands'
  BY <1>1 DEF Start, azure, FoundStands, Crossed
<1>2. ASSUME NEW r \in Runs, Step(r), NEW q \in Runs, NEW d \in doomed'[q]
      PROVE  /\ status'[q]["protected-apply"] = "inspecting"
             /\ deployed'[d[1]] = d[2] \/ Crossed(q)'
  <2>1. Crossed(q) => Crossed(q)'
    BY <1>2, CrossedStays
  <2>2. CASE q = r
    BY <1>2, <2>1, <2>2, Marks DEF FoundStands
  <2>3. CASE q # r
    <3>1. status'[q] = status[q] /\ doomed'[q] = doomed[q]
      BY <1>2, <2>3, StepMoves, StepFrame, EndedStays
    <3>2. status[q]["protected-apply"] = "inspecting" /\ (deployed[d[1]] = d[2] \/ Crossed(q))
      BY <1>2, <3>1 DEF FoundStands
    <3>3. UNCHANGED deployed \/ Crossed(q)
      BY <1>2, <2>3, <3>2, OthersCross DEF Jobs, Busy
    <3>. QED BY <2>1, <3>1, <3>2, <3>3
  <2>. QED BY <2>2, <2>3
<1>3. CASE UNCHANGED vars \/ \E a \in Apps : Elsewhere(a)
  BY <1>3 DEF vars, Elsewhere, FoundStands, Crossed
<1>4. CASE \E r \in Runs : Step(r)
  BY <1>2, <1>4 DEF FoundStands
<1>. QED BY <1>1, <1>3, <1>4 DEF Next

------------------------------------------------------------------------------
(* The theorems.                                                           *)

(* The conjuncts of IInv hold one another up: what a rollout leaves counts *)
(* on the turns of the runs of a ref, a published image on the approval    *)
(* and on the order of the jobs.                                           *)
THEOREM Inductive == Spec => []IInv
<1>1. Init => IInv
  <2>. SUFFICES ASSUME Init PROVE IInv
    OBVIOUS
  <2>1. TypeOK
    BY DEF Init, TypeOK, Busy
  <2>2. \A r \in Runs : \A j \in Jobs : status[r][j] = "waiting"
    BY DEF Init
  <2>3. StandsOnSuccess /\ Approved /\ Pushed /\ Rolled
    BY <2>2 DEF StandsOnSuccess, Approved, Pushed, Rolled, Jobs, Busy
  <2>4. DeployedIsPublished
    BY PipelineAssumption DEF Init, DeployedIsPublished
  <2>5. TakeTurns
    BY DEF Init, TakeTurns, Active, Started
  <2>6. FoundStands
    BY DEF Init, FoundStands
  <2>. QED BY <2>1, <2>3, <2>4, <2>5, <2>6 DEF IInv
<1>2. IInv /\ [Next]_vars => IInv'
  BY TypeOKStep, StandsStep, ApprovedStep, PushedStep, DeployedStep, TakeTurnsStep, RolledStep, FoundStep DEF IInv
<1>. QED BY <1>1, <1>2, PTL DEF Spec

(* The registry, the backend, the images and the apps keep their types,    *)
(* and only its own job of a run builds, applies or rolls out.             *)
THEOREM TypeCorrect == Spec => []TypeOK
<1>1. IInv => TypeOK
  BY DEF IInv
<1>. QED BY <1>1, Inductive, PTL

(* What of the order of the stages does hold: a job is at work, or has     *)
(* ended well, only if all that is before it in the graph has ended well.  *)
(* The smoke stage, after a summary that always runs, is the exception.    *)
THEOREM StagesStand ==
  Spec => [](\A r \in Runs : \A j \in Jobs \ {"deploy-summary", "smoke-stage"} :
               status[r][j] \notin {"waiting", "failure"} =>
                 \A k \in Requires(j) : status[r][k] = "success")
<1>1. IInv => \A r \in Runs : \A j \in Jobs \ {"deploy-summary", "smoke-stage"} :
                status[r][j] \notin {"waiting", "failure"} =>
                  \A k \in Requires(j) : status[r][k] = "success"
  BY StandsOnAll DEF IInv
<1>. QED BY <1>1, Inductive, PTL

(* What an app runs was built by a run that has published every image, had *)
(* the phrase and applied the baseline first.                              *)
THEOREM PublishedFirst == Spec => []DeployedIsPublished
<1>1. IInv => DeployedIsPublished
  BY DEF IInv
<1>. QED BY <1>1, Inductive, PTL

(* A run that works on the apps, or on the state backend, has the phrase.  *)
LEMMA WorkIsApproved ==
  ASSUME IInv, NEW r \in Runs, input[r].execute,
         \/ Ready(r, "protected-apply") \/ status[r]["protected-apply"] \in Busy
         \/ status[r]["app-rollout"] \in Busy
  PROVE  status[r]["preflight"] = "success" /\ Started(r) /\ input[r].phrase
<1>1. TypeOK /\ StandsOnSuccess /\ Approved
  BY DEF IInv
<1>2. Started(r)
  BY <1>1, WorkingMeansActive DEF Active, Jobs
<1>3. status[r]["preflight"] = "success" /\ "apply" \in input[r].ask
  BY <1>1, OneAtWork DEF Busy
<1>. QED BY <1>1, <1>2, <1>3 DEF Approved

(* Only a run that was given the phrase and told to execute changes the    *)
(* apps or the state backend, and only one that publishes the registry.    *)
THEOREM Approval == Spec => ChangesAreApproved
<1>. DEFINE Change ==
       /\ <<deployed, backend>>' # <<deployed, backend>> =>
            \E r \in Runs :
              /\ Moved(r) /\ Started(r)
              /\ status[r]["preflight"] = "success" /\ input[r].phrase /\ input[r].execute
       /\ <<acr, images>>' # <<acr, images>> =>
            \E r \in Runs : Moved(r) /\ Started(r) /\ Publishes(r)
<1>1. ASSUME IInv, NEW r \in Runs, Step(r) PROVE Change
  <2>0. TypeOK /\ StandsOnSuccess /\ Approved
    BY <1>1 DEF IInv
  <2>a. \A j \in Jobs, s \in {"success", "failure"} \union Busy :
          Becomes(r, j, s) /\ status[r][j] # s => Moved(r)
    BY <2>0, BecomesAt DEF Moved
  <2>b. \A a \in left[r] : left' = [left EXCEPT ![r] = @ \ {a}] => Moved(r)
    BY <2>0 DEF Moved, TypeOK
  <2>c. Delete(r) => Moved(r)
    BY <2>0 DEF Delete, Moved, TypeOK
  <2>1. CASE Build(r)
    BY <2>1, <2>a DEF Build, Ready, Jobs, Busy
  <2>2. CASE Push(r)
    <3>1. Started(r) /\ Publishes(r)
      BY <2>0, <2>2 DEF Push, Approved, TypeOK, Started, Jobs
    <3>. QED BY <2>2, <2>b, <3>1 DEF Push
  <2>3. CASE Apply(r)
    <3>1. status[r]["preflight"] = "success" /\ Started(r) /\ input[r].phrase /\ input[r].execute
      BY <1>1, <2>3, WorkIsApproved DEF Apply
    <3>2. Moved(r)
      BY <2>3, <2>a DEF Apply, Ready, Jobs, Busy
    <3>. QED BY <2>3, <3>1, <3>2 DEF Apply
  <2>4. CASE Delete(r) \/ Create(r) \/ Patch(r)
    <3>1. status[r]["protected-apply"] \in Busy \/ status[r]["app-rollout"] \in Busy
      BY <1>1, <2>4 DEF Delete, Create, Patch, Busy, IInv, FoundStands
    <3>2. input[r].execute
      BY <2>0, <3>1 DEF Approved
    <3>3. status[r]["preflight"] = "success" /\ Started(r) /\ input[r].phrase
      BY <1>1, <3>1, <3>2, WorkIsApproved
    <3>4. Moved(r)
      BY <2>4, <2>a, <2>b, <2>c DEF Create, Patch, Jobs, Busy
    <3>. QED BY <2>4, <3>2, <3>3, <3>4 DEF Delete, Create, Patch
  <2>5. CASE UNCHANGED azure
    BY <2>5 DEF azure
  <2>. QED BY <1>1, <2>1, <2>2, <2>3, <2>4, <2>5 DEF Step, Preflight, Login, Plan, ConfigRollout, Summary, Smoke, Report, BuildDry, BuildDone, ApplyDry, Inspect, InspectDone, ApplyDone, RolloutDry, Rollout, RolloutDone, FailFirst, Fail
<1>2. ASSUME NEW r \in Runs, Start(r) PROVE Change
  BY <1>2 DEF Start, azure
<1>3. ASSUME NEW a \in Apps, Elsewhere(a) PROVE Change
  BY <1>3 DEF Elsewhere
<1>4. IInv /\ [Next]_vars => [Change]_vars
  BY <1>1, <1>2, <1>3 DEF Next
<1>. QED BY <1>4, Inductive, PTL DEF Spec, ChangesAreApproved

(* A rollout that ends well leaves every app with the image of its run,    *)
(* unless a run of another ref has come between.                           *)
THEOREM OneVersion == Spec => RolloutLeavesOneVersion
<1>. DEFINE Change ==
       \A r \in Runs :
         status[r]["app-rollout"] = "rolling" /\ status'[r]["app-rollout"] = "success" =>
           \/ \A a \in Apps : deployed[a] = Image(r)
           \/ Crossed(r)
<1>1. ASSUME IInv, NEW q \in Runs, Step(q), NEW r \in Runs,
             status[r]["app-rollout"] = "rolling", status'[r]["app-rollout"] = "success"
      PROVE  left[r] = {}
  <2>1. q = r
    BY <1>1, StepMoves, EndedStays DEF IInv
  <2>2. \A j \in Jobs : Becomes(r, j, "success") => j = "app-rollout"
    BY <1>1, BecomesAt DEF IInv, Jobs
  <2>3. ASSUME NEW j \in Jobs, NEW s \in {"failure"} \union Busy, Becomes(r, j, s)
        PROVE  FALSE
    <3>1. status'[r][j] = s /\ \A i \in Jobs \ {j} : status'[r][i] = status[r][i]
      BY <1>1, <2>3, BecomesAt DEF IInv
    <3>. QED BY <1>1, <3>1 DEF Jobs, Busy
  <2>4. status' # status
    BY <1>1
  <2>5. RolloutDone(r)
    BY <1>1, <2>1, <2>2, <2>3, <2>4 DEF Step, Preflight, Login, Plan, ConfigRollout, Summary, Smoke, Report, Ready, BuildDry, Build, Push, BuildDone, ApplyDry, Apply, Inspect, Delete, InspectDone, Create, ApplyDone, RolloutDry, Rollout, Patch, FailFirst, Fail, Jobs, Busy
  <2>. QED BY <2>5 DEF RolloutDone
<1>2. ASSUME IInv, NEW q \in Runs, Step(q) PROVE Change
  BY <1>1, <1>2 DEF IInv, Rolled
<1>3. ASSUME NEW q \in Runs, Start(q) PROVE Change
  BY <1>3 DEF Start
<1>4. ASSUME NEW a \in Apps, Elsewhere(a) PROVE Change
  BY <1>4 DEF Elsewhere
<1>5. IInv /\ [Next]_vars => [Change]_vars
  BY <1>2, <1>3, <1>4 DEF Next
<1>. QED BY <1>5, Inductive, PTL DEF Spec, RolloutLeavesOneVersion

(* A service image gives way only to a rollout, or to a deletion by a run  *)
(* that has found the app unsettled, with that very image unless a run of  *)
(* another ref has come between.                                           *)
THEOREM KeepServices == Spec => ServicesKept
<1>. DEFINE Change ==
       \A a \in Apps : deployed[a] \in Runs /\ deployed'[a] # deployed[a] =>
         \/ \E r \in Runs : status[r]["app-rollout"] = "rolling" /\ deployed'[a] = Image(r)
         \/ /\ deployed'[a] = Absent
            /\ \E r \in Runs : \E d \in doomed[r] :
                 d[1] = a /\ (d[2] = deployed[a] \/ Crossed(r))
<1>1. ASSUME IInv, NEW r \in Runs, Step(r) PROVE Change
  <2>1. CASE UNCHANGED deployed
    BY <2>1
  <2>2. CASE Delete(r)
    <3>1. PICK d \in doomed[r] : deployed' = [deployed EXCEPT ![d[1]] = Absent]
      BY <2>2 DEF Delete
    <3>2. deployed[d[1]] = d[2] \/ Crossed(r)
      BY <1>1, <3>1 DEF IInv, FoundStands
    <3>3. ASSUME NEW a \in Apps, deployed'[a] # deployed[a]
          PROVE  a = d[1] /\ deployed'[a] = Absent
      BY <1>1, <3>1, <3>3 DEF IInv, TypeOK
    <3>. QED BY <3>1, <3>2, <3>3
  <2>3. CASE Create(r)
    BY <1>1, <2>3, PipelineAssumption DEF Create, Created, IInv, TypeOK
  <2>4. CASE Patch(r)
    BY <1>1, <2>4 DEF Patch, IInv, TypeOK
  <2>. QED BY <1>1, <2>1, <2>2, <2>3, <2>4 DEF Step, Preflight, Login, Plan, ConfigRollout, Summary, Smoke, Report, BuildDry, Build, Push, BuildDone, ApplyDry, Apply, Inspect, InspectDone, ApplyDone, RolloutDry, Rollout, RolloutDone, FailFirst, Fail, azure
<1>2. ASSUME NEW r \in Runs, Start(r) PROVE Change
  BY <1>2 DEF Start, azure
<1>3. ASSUME NEW a \in Apps, Elsewhere(a) PROVE Change
  BY <1>3 DEF Elsewhere
<1>4. IInv /\ [Next]_vars => [Change]_vars
  BY <1>1, <1>2, <1>3 DEF Next
<1>. QED BY <1>4, Inductive, PTL DEF Spec, ServicesKept

------------------------------------------------------------------------------
(* A run comes to its end.                                                 *)

(* A job whose needs are over starts, is at work, or is over itself.       *)
LEMMA NextInLine ==
  ASSUME TypeOK, NEW r \in Runs, Started(r), NEW j \in Jobs,
         ~Ready(r, j), status[r][j] \notin Busy, \A k \in Needs(j) : Over(r, k)
  PROVE  Over(r, j)
<1>1. status[r][j] \in {"waiting", "success", "failure"}
  BY DEF TypeOK
<1>. QED BY <1>1 DEF Ready, Over

(* A run that is under way can always go on: the needs of its jobs are not *)
(* circular, and what is skipped or has failed holds nobody up.            *)
THEOREM NoneStuck == Spec => []NoRunStuck
<1>1. TypeOK => NoRunStuck
  <2>. SUFFICES ASSUME TypeOK, NEW r \in Runs, Started(r),
                       \A j \in Jobs : ~Ready(r, j) /\ status[r][j] \notin Busy
                PROVE  \A j \in Jobs : Over(r, j)
    BY DEF NoRunStuck, Active
  <2>1. \A j \in Jobs : (\A k \in Needs(j) : Over(r, k)) => Over(r, j)
    BY NextInLine
  <2>2. Over(r, "preflight")
    BY <2>1 DEF Jobs, Needs
  <2>3. Over(r, "azure-auth-deploy")
    BY <2>1, <2>2 DEF Jobs, Needs
  <2>4. Over(r, "build-publish") /\ Over(r, "terraform-plan")
    BY <2>1, <2>2, <2>3 DEF Jobs, Needs
  <2>5. Over(r, "protected-apply") /\ Over(r, "config-rollout") /\ Over(r, "deploy-summary")
    BY <2>1, <2>2, <2>3, <2>4 DEF Jobs, Needs
  <2>6. Over(r, "app-rollout") /\ Over(r, "smoke-stage")
    BY <2>1, <2>2, <2>3, <2>4, <2>5 DEF Jobs, Needs
  <2>. QED BY <2>2, <2>3, <2>4, <2>5, <2>6 DEF Jobs
<1>. QED BY <1>1, TypeCorrect, PTL

(* Later in the life of a job; a run's step brings one of its jobs on, or  *)
(* the loop of the one that is at work, or does the deletion it owes.      *)
Later(s, t) ==
  \/ s = "waiting" /\ t # "waiting"
  \/ s = "inspecting" /\ t = "applying"
  \/ s \in Busy /\ t \in {"success", "failure"}

Advances(r) ==
  \/ \E j \in Jobs, s \in {"success", "failure"} \union Busy :
       Later(status[r][j], s) /\ Becomes(r, j, s)
  \/ UNCHANGED status /\ left'[r] \subseteq left[r] /\ left'[r] # left[r]
  \/ UNCHANGED <<status, left>> /\ doomed[r] # {} /\ doomed'[r] = {}

(* No run goes on for ever: each of its steps brings a job on, of which    *)
(* there are nine that nothing ever takes back, or a loop over the apps,   *)
(* each of whose rounds owes at most one deletion.                         *)
(* With NoneStuck: a run that goes on whenever it can comes to its end.    *)
THEOREM RunsAdvance == Spec => [][\A r \in Runs : Step(r) => Advances(r)]_vars
<1>1. ASSUME TypeOK, NEW r \in Runs, Step(r) PROVE Advances(r)
  <2>1. \A S : [left EXCEPT ![r] = S][r] = S
    BY <1>1 DEF TypeOK
  <2>2. CASE Push(r)
    BY <1>1, <2>1, <2>2 DEF Push, Advances
  <2>3. CASE Inspect(r)
    BY <1>1, <2>1, <2>3 DEF Inspect, Advances
  <2>11. CASE Delete(r)
    BY <1>1, <2>11 DEF Delete, Advances, TypeOK
  <2>4. CASE Create(r)
    BY <1>1, <2>1, <2>4 DEF Create, Advances, Later, Busy, Jobs
  <2>5. CASE Patch(r)
    BY <1>1, <2>1, <2>5 DEF Patch, Advances, Later, Busy, Jobs
  <2>6. CASE FailFirst(r) \/ Fail(r)
    BY <2>6 DEF FailFirst, Fail, Ready, Advances, Later, Busy
  <2>7. CASE Preflight(r) \/ Login(r) \/ Plan(r) \/ ConfigRollout(r) \/ Summary(r) \/ Smoke(r)
    BY <2>7 DEF Preflight, Login, Plan, ConfigRollout, Summary, Smoke, Report, Ready,
                Advances, Later, Busy, Jobs
  <2>8. CASE BuildDry(r) \/ Build(r) \/ BuildDone(r)
    BY <2>8 DEF BuildDry, Build, BuildDone, Ready, Advances, Later, Busy, Jobs
  <2>9. CASE ApplyDry(r) \/ Apply(r) \/ InspectDone(r) \/ ApplyDone(r)
    BY <2>9 DEF ApplyDry, Apply, InspectDone, ApplyDone, Ready, Advances, Later, Busy, Jobs
  <2>10. CASE RolloutDry(r) \/ Rollout(r) \/ RolloutDone(r)
    BY <2>10 DEF RolloutDry, Rollout, RolloutDone, Ready, Advances, Later, Busy, Jobs
  <2>. QED BY <1>1, <2>2, <2>3, <2>4, <2>5, <2>6, <2>7, <2>8, <2>9, <2>10, <2>11 DEF Step
<1>2. TypeOK /\ [Next]_vars => [\A r \in Runs : Step(r) => Advances(r)]_vars
  BY <1>1
<1>. QED BY <1>2, TypeCorrect, PTL DEF Spec

=============================================================================
