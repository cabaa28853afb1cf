---------------------------- MODULE AcaLifecycle ----------------------------
(***************************************************************************)
(* The container apps of the live lab and the GitHub workflows that change *)
(* them: m8-deploy-live.yml (protected-apply and app-rollout),             *)
(* m8-start-resume.yml, m8-nightly-shutdown.yml and the live job of        *)
(* m8-smoke-trace.yml.                                                     *)
(*                                                                         *)
(* Nothing keeps runs of different workflows apart: a concurrency group    *)
(* holds one workflow on one ref, and the smoke workflow has none.  Each   *)
(* step below is one call of the Azure CLI.  A call that changes an app is *)
(* refused while another operation is pending on it; an accepted one is    *)
(* pending until the platform has settled it, and its caller waits.        *)
(***************************************************************************)
CONSTANTS
  Apps,       \* the container apps
  Inner,      \* those with internal ingress: the Agent and the MCP API
  Resumes, Shutdowns, Smokes, Deploys,  \* runs of the four workflows
  Group,      \* run -> its concurrency group
  Missing,    \* an app that does not exist
  NoApp       \* no app

Runs == Resumes \union Shutdowns \union Smokes \union Deploys
Grouped == Resumes \union Shutdowns \union Deploys

ASSUME LifecycleAssumption ==
  /\ Inner \subseteq Apps
  /\ Resumes \intersect (Shutdowns \union Smokes \union Deploys) = {}
  /\ Shutdowns \intersect (Smokes \union Deploys) = {}
  /\ Smokes \intersect Deploys = {}

App ==
  [min : {0, 1}, external : BOOLEAN, image : {"placeholder", "service"},
   state : {"Succeeded", "InProgress", "Failed"}]

ASSUME MissingAssumption == Missing \notin App /\ NoApp \notin Apps

VARIABLES
  app,      \* app -> its configuration and provisioningState
  pc,       \* run -> the call it makes next
  todo,     \* run -> apps its current loop has still to do
  cur,      \* run -> app it is at
  seen,     \* run -> ingress.external as the rollout read it
  ignored,  \* calls of a restore step whose failure was swallowed
  carried   \* apps a rollout made external that were internal by then

vars == <<app, pc, todo, cur, seen, ignored, carried>>
history == <<ignored, carried>>

Ended == {"idle", "done", "applied", "failed", "lost"}
Scaling == {"look", "scale", "scaling"}
Opening == {"wake", "waking", "open", "opening", "probe"}
Closing == {"close", "closing", "rest", "resting"}
Deploying ==
  {"inspect", "delete", "apply", "applying", "rollout", "patch", "polling"}

\* The calls that are for the app a run is at.
Busy ==
  {"scale", "scaling", "waking", "open", "opening", "closing", "rest", "resting",
   "delete", "applying", "patch", "polling"}

TypeOK ==
  /\ app \in [Apps -> App \union {Missing}]
  /\ pc \in [Runs -> Ended \union Scaling \union Opening \union Closing \union Deploying]
  /\ \A r \in Resumes \union Shutdowns : pc[r] \in Ended \union Scaling
  /\ \A r \in Smokes : pc[r] \in Ended \union Opening \union Closing
  /\ \A r \in Deploys : pc[r] \in Ended \union Deploying
  /\ todo \in [Runs -> SUBSET Apps]
  /\ cur \in [Runs -> Apps \union {NoApp}]
  /\ \A r \in Runs : pc[r] \in Busy => cur[r] \in Apps
  /\ seen \in [Runs -> BOOLEAN]
  /\ ignored \subseteq Apps \X {"ingress", "replicas"}
  /\ carried \subseteq Apps

\* The BFF alone is external; nothing is deployed yet, or all is settled.
Declared(a) == a \notin Inner

Init ==
  /\ app \in [Apps -> App \union {Missing}]
  /\ \A a \in Apps : app[a] # Missing =>
       app[a].external = Declared(a) /\ app[a].state # "InProgress"
  /\ pc = [r \in Runs |-> "idle"]
  /\ todo = [r \in Runs |-> {}]
  /\ cur = [r \in Runs |-> NoApp]
  /\ seen = [r \in Runs |-> FALSE]
  /\ ignored = {}
  /\ carried = {}

Active(r) == pc[r] \notin Ended

------------------------------------------------------------------------------
(* Steps of a run.                                                         *)

\* A loop over some apps starts, with fresh variables.
Loop(r, first, apps) ==
  /\ pc' = [pc EXCEPT ![r] = first]
  /\ todo' = [todo EXCEPT ![r] = apps]
  /\ cur' = [cur EXCEPT ![r] = NoApp]
  /\ seen' = [seen EXCEPT ![r] = FALSE]

Goto(r, call) == pc' = [pc EXCEPT ![r] = call] /\ UNCHANGED todo

\* The call for app a is made and the loop is through with a.
Through(r, a, next) ==
  /\ pc' = [pc EXCEPT ![r] = next]
  /\ todo' = [todo EXCEPT ![r] = @ \ {a}]

End(r, status) == Loop(r, status, {})

\* The resource manager accepts a change of app a.
Accepts(a) == app[a] # Missing /\ app[a].state # "InProgress"
Change(a, x) == app' = [app EXCEPT ![a] = [x EXCEPT !.state = "InProgress"]]

\* An operation on an app comes to its end.
Settle(a) ==
  /\ app[a] # Missing
  /\ app[a].state = "InProgress"
  /\ \E s \in {"Succeeded", "Failed"} : app' = [app EXCEPT ![a].state = s]
  /\ UNCHANGED <<pc, todo, cur, seen, history>>

\* Where a run goes on once the operation it waits for has succeeded.
After ==
  [scaling |-> "look", waking |-> "open", opening |-> "wake", closing |-> "rest",
   resting |-> "close", applying |-> "apply", polling |-> "rollout"]

Settled(r) ==
  /\ pc[r] \in DOMAIN After
  /\ app[cur[r]] # Missing
  /\ app[cur[r]].state = "Succeeded"
  /\ Goto(r, After[pc[r]])
  /\ UNCHANGED <<app, cur, seen, history>>

First(r) ==
  IF r \in Smokes THEN "wake" ELSE IF r \in Deploys THEN "inspect" ELSE "look"

Start(r) ==
  /\ pc[r] = "idle"
  /\ r \in Grouped => \A q \in Grouped : Group[q] = Group[r] => ~Active(q)
  /\ Loop(r, First(r), IF r \in Smokes THEN Inner ELSE Apps)
  /\ UNCHANGED <<app, history>>

------------------------------------------------------------------------------
(* m8-start-resume.yml and m8-nightly-shutdown.yml                         *)

Wanted(r) == IF r \in Resumes THEN 1 ELSE 0

\* Read minReplicas: an app that has what it should is left alone.  A read that
\* fails says nothing, and the app is scaled whatever it has.
Look(r) ==
  /\ pc[r] = "look"
  /\ \E a \in todo[r] :
       \/ /\ app[a] # Missing
          /\ app[a].min = Wanted(r)
          /\ Through(r, a, "look")
          /\ UNCHANGED cur
       \/ /\ cur' = [cur EXCEPT ![r] = a]
          /\ Goto(r, "scale")
  /\ UNCHANGED <<app, seen, history>>

\* az containerapp update --min-replicas
Scale(r) ==
  /\ pc[r] = "scale"
  /\ Accepts(cur[r])
  /\ Change(cur[r], [app[cur[r]] EXCEPT !.min = Wanted(r)])
  /\ Through(r, cur[r], "scaling")
  /\ UNCHANGED <<cur, seen, history>>

LookDone(r) ==
  /\ pc[r] = "look"
  /\ todo[r] = {}
  /\ End(r, "done")
  /\ UNCHANGED <<app, history>>

------------------------------------------------------------------------------
(* m8-smoke-trace.yml, live-smoke-trace                                    *)

\* The inner apps are started and made external, one after the other.
Wake(r) ==
  /\ pc[r] = "wake"
  /\ \E a \in todo[r] :
       /\ Accepts(a)
       /\ Change(a, [app[a] EXCEPT !.min = 1])
       /\ cur' = [cur EXCEPT ![r] = a]
  /\ Goto(r, "waking")
  /\ UNCHANGED <<seen, history>>

Open(r) ==
  /\ pc[r] = "open"
  /\ Accepts(cur[r])
  /\ Change(cur[r], [app[cur[r]] EXCEPT !.external = TRUE])
  /\ Through(r, cur[r], "opening")
  /\ UNCHANGED <<cur, seen, history>>

WakeDoneEarly(r) ==
  /\ pc[r] = "wake"
  /\ Goto(r, "probe")
  /\ UNCHANGED <<app, cur, seen, history>>

WakeDone(r) ==
  /\ pc[r] = "wake"
  /\ todo[r] = {}
  /\ Goto(r, "probe")
  /\ UNCHANGED <<app, cur, seen, history>>

\* The probes, the browser harness and the trace query end; the restore step
\* runs whatever they say.
Probe(r) ==
  /\ pc[r] = "probe"
  /\ Loop(r, "close", Inner)
  /\ UNCHANGED <<app, history>>

Close(r) ==
  /\ pc[r] = "close"
  /\ \E a \in todo[r] :
       /\ Accepts(a)
       /\ Change(a, [app[a] EXCEPT !.external = FALSE])
       /\ cur' = [cur EXCEPT ![r] = a]
  /\ Goto(r, "closing")
  /\ UNCHANGED <<seen, history>>

RestKeepsReplicas(r) ==
  /\ pc[r] = "rest"
  /\ Accepts(cur[r])
  /\ Change(cur[r], app[cur[r]])
  /\ Through(r, cur[r], "resting")
  /\ UNCHANGED <<cur, seen, history>>

Rest(r) ==
  /\ pc[r] = "rest"
  /\ Accepts(cur[r])
  /\ Change(cur[r], [app[cur[r]] EXCEPT !.min = 0])
  /\ Through(r, cur[r], "resting")
  /\ UNCHANGED <<cur, seen, history>>

CloseDone(r) ==
  /\ pc[r] = "close"
  /\ todo[r] = {}
  /\ End(r, "done")
  /\ UNCHANGED <<app, history>>

------------------------------------------------------------------------------
(* m8-deploy-live.yml, protected-apply                                     *)

Created(a) ==
  [min |-> 0, external |-> Declared(a), image |-> "placeholder", state |-> "InProgress"]

\* An app whose last operation failed or is pending is going to be deleted; one
\* whose id cannot be read, missing or not, is passed over.
Inspect(r) ==
  /\ pc[r] = "inspect"
  /\ \E a \in todo[r] :
       \/ /\ Through(r, a, "inspect")
          /\ UNCHANGED cur
       \/ /\ app[a] # Missing
          /\ app[a].state # "Succeeded"
          /\ cur' = [cur EXCEPT ![r] = a]
          /\ Goto(r, "delete")
  /\ UNCHANGED <<app, seen, history>>

\* az containerapp delete, whatever has become of the app since.
Delete(r) ==
  /\ pc[r] = "delete"
  /\ app' = [app EXCEPT ![cur[r]] = Missing]
  /\ Through(r, cur[r], "inspect")
  /\ UNCHANGED <<cur, seen, history>>

InspectDone(r) ==
  /\ pc[r] = "inspect"
  /\ todo[r] = {}
  /\ Loop(r, "apply", Apps)
  /\ UNCHANGED <<app, history>>

\* terraform apply: an app that is missing is created with the placeholder;
\* another gets its declared ingress back and keeps its image, and what
\* happens to its replicas, which are not declared, is the provider's choice.
Apply(r) ==
  /\ pc[r] = "apply"
  /\ \E a \in todo[r] :
       \/ /\ app[a] = Missing
          /\ app' = [app EXCEPT ![a] = Created(a)]
          /\ cur' = [cur EXCEPT ![r] = a]
          /\ Through(r, a, "applying")
       \/ /\ app[a] # Missing
          /\ app[a].external = Declared(a)
          /\ Through(r, a, "apply")
          /\ UNCHANGED <<app, cur>>
       \/ /\ Accepts(a)
          /\ \E m \in {app[a].min, 0} :
               Change(a, [app[a] EXCEPT !.min = m, !.external = Declared(a)])
          /\ cur' = [cur EXCEPT ![r] = a]
          /\ Through(r, a, "applying")
  /\ UNCHANGED <<seen, history>>

ApplyDoneSomeApps(r) ==
  /\ pc[r] = "apply"
  /\ todo[r] = {}
  /\ (\E a \in Apps : Loop(r, "rollout", Apps \ {a})) \/ End(r, "applied")
  /\ UNCHANGED <<app, history>>

\* The run goes on to app-rollout, if it was asked to.
ApplyDone(r) ==
  /\ pc[r] = "apply"
  /\ todo[r] = {}
  /\ Loop(r, "rollout", Apps) \/ End(r, "applied")
  /\ UNCHANGED <<app, history>>

------------------------------------------------------------------------------
(* m8-deploy-live.yml, app-rollout                                         *)

\* The patch is written from what az containerapp show returns.
Rollout(r) ==
  /\ pc[r] = "rollout"
  /\ \E a \in todo[r] :
       /\ app[a] # Missing
       /\ cur' = [cur EXCEPT ![r] = a]
       /\ seen' = [seen EXCEPT ![r] = app[a].external]
  /\ Goto(r, "patch")
  /\ UNCHANGED <<app, history>>

\* az rest --method PATCH: the image, and the ingress as it was read.
Patch(r) ==
  /\ pc[r] = "patch"
  /\ LET a == cur[r]
     IN  /\ Accepts(a)
         /\ Change(a, [app[a] EXCEPT !.image = "service", !.external = seen[r]])
         /\ carried' = IF seen[r] /\ ~app[a].external THEN carried \union {a} ELSE carried
         /\ Through(r, a, "polling")
  /\ UNCHANGED <<cur, seen, ignored>>

RolloutDone(r) ==
  /\ pc[r] = "rollout"
  /\ todo[r] = {}
  /\ End(r, "done")
  /\ UNCHANGED <<app, history>>

------------------------------------------------------------------------------
(* Failures.                                                               *)

\* set -e: a call that is refused or fails, or a rollout that takes too long,
\* ends the run.
Fail(r) ==
  /\ r \notin Smokes
  /\ Active(r)
  /\ End(r, "failed")
  /\ UNCHANGED <<app, history>>

FailSmokeEnds(r) ==
  /\ pc[r] \in Opening
  /\ End(r, "failed")
  /\ UNCHANGED <<app, history>>

\* A smoke run goes to its restore step.
FailSmoke(r) ==
  /\ pc[r] \in Opening
  /\ Loop(r, "close", Inner)
  /\ UNCHANGED <<app, history>>

\* || true: in the restore step the next call is made all the same.
FailRestore(r) ==
  /\ \/ /\ pc[r] = "close"
        /\ \E a \in todo[r] :
             /\ cur' = [cur EXCEPT ![r] = a]
             /\ ignored' = ignored \union {<<a, "ingress">>}
        /\ Goto(r, "rest")
     \/ /\ pc[r] = "rest"
        /\ ignored' = ignored \union {<<cur[r], "replicas">>}
        /\ Through(r, cur[r], "close")
        /\ UNCHANGED cur
     \/ /\ pc[r] \in {"closing", "resting"}
        /\ Goto(r, After[pc[r]])
        /\ UNCHANGED <<cur, ignored>>
  /\ UNCHANGED <<app, seen, carried>>

\* The runner of a smoke run is lost, and its restore step with it.
Lose(r) ==
  /\ r \in Smokes
  /\ Active(r)
  /\ End(r, "lost")
  /\ UNCHANGED <<app, history>>

------------------------------------------------------------------------------
ScaleStep(r) == Look(r) \/ Scale(r) \/ LookDone(r)
SmokeStep(r) ==
  Wake(r) \/ Open(r) \/ WakeDone(r) \/ Probe(r) \/ Close(r) \/ Rest(r) \/ CloseDone(r)
DeployStep(r) ==
  \/ Inspect(r) \/ Delete(r) \/ InspectDone(r) \/ Apply(r) \/ ApplyDone(r)
  \/ Rollout(r) \/ Patch(r) \/ RolloutDone(r)

Next ==
  \/ \E a \in Apps : Settle(a)
  \/ \E r \in Runs :
       \/ Start(r) \/ Settled(r)
       \/ ScaleStep(r) \/ SmokeStep(r) \/ DeployStep(r)
       \/ Fail(r) \/ FailSmoke(r) \/ FailRestore(r) \/ Lose(r)

Spec == Init /\ [][Next]_vars

------------------------------------------------------------------------------
(* What the workflows promise together.                                    *)

\* Smoke run r has made app a external, or may have, and will close it again.
Owes(r, a) ==
  \/ pc[r] \in Opening
  \/ pc[r] \in Closing /\ a \in todo[r] \ {cur[r]}

\* An inner app is reachable from outside only while a smoke run still has to
\* close it, however many of them overlap, fail half-way or meet other
\* workflows: unless the runner of one was lost, the call that would have
\* closed it failed, or a rollout brought the old ingress back.
ExposureEnds ==
  \A a \in Inner :
    app[a] # Missing /\ app[a].external =>
      \/ \E r \in Smokes : Owes(r, a) \/ pc[r] = "lost"
      \/ <<a, "ingress">> \in ignored
      \/ a \in carried

Alone(r) == \A q \in Runs \ {r} : pc[q] = "idle"
Up(a) == app[a] # Missing /\ app[a].external /\ app[a].min = 1

\* A smoke run that has had the lab to itself finds every inner app started and
\* reachable from outside when it sends its probes, whatever became of the apps
\* before: an app that is missing, or will not settle, ends the run earlier.
OpenWhenProbed ==
  \A r \in Smokes : pc[r] = "probe" /\ Alone(r) => \A a \in Inner : Up(a)

\* After a shutdown that ended well no app is kept running, even if smoke runs
\* and deployments overlapped with it: unless somebody resumed the lab, or a
\* smoke run is still on, was lost or could not scale the app down again.
ShutdownSticks ==
  (\E r \in Shutdowns : pc[r] = "done") /\ (\A r \in Resumes : pc[r] = "idle") =>
    \A a \in Apps :
      app[a] # Missing /\ app[a].min # 0 =>
        \/ \E r \in Smokes : Active(r) \/ pc[r] = "lost"
        \/ <<a, "replicas">> \in ignored

\* A deployment that ends well, rollout included, leaves every app running its
\* service's image, although it may have deleted some of them on the way and
\* other workflows change them meanwhile.
RolloutCompletes ==
  [][(\A d, e \in Deploys : Group[d] = Group[e]) =>
       \A d \in Deploys : pc[d] # "done" /\ pc'[d] = "done" =>
         \A a \in Apps : app'[a] # Missing /\ app'[a].image = "service"]_vars

\* Networking between the services is internal: when every run has ended, no
\* smoke run was lost and all their restoring calls succeeded, the Agent and
\* the MCP API have no external ingress.
RestoredMeansInternal ==
  /\ \A r \in Runs : ~Active(r) /\ pc[r] # "lost"
  /\ ignored = {}
  => \A a \in Inner : app[a] # Missing => ~app[a].external

------------------------------------------------------------------------------
(* Why it holds.  ExposureEnds carries itself; the others need to say how  *)
(* far each loop has come.                                                 *)

SmokesStayInside == \A r \in Smokes : todo[r] \subseteq Inner

\* Shutdown run r is through with app a.
Passed(r, a) ==
  \/ pc[r] = "done"
  \/ pc[r] \in Scaling /\ a \notin todo[r]

\* Smoke run r has started app a, or may have, and will scale it down again.
OwesRest(r, a) ==
  /\ a \in Inner
  /\ \/ pc[r] \in Opening
     \/ pc[r] \in Closing /\ a \in todo[r]

ScaledDown ==
  (\A r \in Resumes : pc[r] = "idle") =>
    \A a \in Apps :
      (app[a] # Missing /\ app[a].min # 0 /\ \E r \in Shutdowns : Passed(r, a)) =>
        \/ \E r \in Smokes : OwesRest(r, a) \/ pc[r] = "lost"
        \/ <<a, "replicas">> \in ignored

\* What a smoke run is through with is up, what it is at is started.
Opened ==
  \A r \in Smokes : pc[r] \in Opening /\ Alone(r) =>
    /\ \A a \in Inner \ todo[r] : Up(a)
    /\ pc[r] \in {"waking", "open"} =>
         cur[r] \in Inner /\ app[cur[r]] # Missing /\ app[cur[r]].min = 1
    /\ pc[r] = "probe" => todo[r] = {}

OneGroup == \A d, e \in Deploys : Group[d] = Group[e]
RollingOut == {"rollout", "patch", "polling"}

\* Deployments of one ref take turns, and what a rollout is through with runs
\* its service's image.
RolledOut ==
  OneGroup =>
    /\ \A d, e \in Deploys : Active(d) /\ Active(e) => d = e
    /\ \A d \in Deploys : pc[d] \in RollingOut =>
         \A a \in Apps \ todo[d] : app[a] # Missing /\ app[a].image = "service"

\* The inductive invariant.
IInv == TypeOK /\ SmokesStayInside /\ ExposureEnds /\ ScaledDown /\ RolledOut

==============================================================================
