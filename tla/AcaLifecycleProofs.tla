-------------------------- MODULE AcaLifecycleProofs --------------------------
(***************************************************************************)
(* What the workflows promise together, for any apps and any runs.         *)
(***************************************************************************)
EXTENDS AcaLifecycle, TLAPS

(* An operation changes one field of a configuration.                      *)
LEMMA OneField ==
  ASSUME NEW x \in App
  PROVE  /\ \A m \in {0, 1} : [x EXCEPT !.min = m] \in App
         /\ \A e \in BOOLEAN : [x EXCEPT !.external = e] \in App
         /\ \A i \in {"placeholder", "service"} : [x EXCEPT !.image = i] \in App
         /\ \A s \in {"Succeeded", "InProgress", "Failed"} : [x EXCEPT !.state = s] \in App
BY DEF App

(* Or two.                                                                 *)
LEMMA TwoFields ==
  ASSUME NEW x \in App, NEW e \in BOOLEAN
  PROVE  /\ \A m \in {0, 1} : [x EXCEPT !.min = m, !.external = e] \in App
         /\ [x EXCEPT !.image = "service", !.external = e] \in App
BY DEF App

(* A change of an app leaves the others alone.                             *)
LEMMA ChangeType ==
  ASSUME NEW a \in Apps, NEW x \in App, Change(a, x), app \in [Apps -> App \union {Missing}]
  PROVE  app' \in [Apps -> App \union {Missing}]
<1>1. [x EXCEPT !.state = "InProgress"] \in App
  BY OneField
<1>. QED BY <1>1 DEF Change

(* Every step keeps the types, and every workflow to its own calls.        *)
LEMMA TypeOKStep ==
  ASSUME TypeOK, SmokesStayInside, [Next]_vars
  PROVE  TypeOK'
<1>. USE LifecycleAssumption, MissingAssumption
<1>1. ASSUME NEW a \in Apps, Settle(a) PROVE TypeOK'
  BY <1>1 DEF Settle, Loop, Goto, Through, End, Change, Accepts, history, Active, TypeOK, Ended, Scaling, Opening, Closing, Deploying, Busy, Runs, App, After, First, Wanted, Created, Declared
<1>2. ASSUME NEW r \in Runs, Start(r) PROVE TypeOK'
  BY <1>2 DEF Start, Loop, Goto, Through, End, Change, Accepts, history, Active, TypeOK, Ended, Scaling, Opening, Closing, Deploying, Busy, Runs, App, After, First, Wanted, Created, Declared
<1>3. ASSUME NEW r \in Runs, Settled(r) PROVE TypeOK'
  BY <1>3 DEF Settled, Loop, Goto, Through, End, Change, Accepts, history, Active, TypeOK, Ended, Scaling, Opening, Closing, Deploying, Busy, Runs, App, After, First, Wanted, Created, Declared
<1>4. ASSUME NEW r \in Runs, Look(r) PROVE TypeOK'
  BY <1>4 DEF Look, Loop, Goto, Through, End, Change, Accepts, history, Active, TypeOK, Ended, Scaling, Opening, Closing, Deploying, Busy, Runs, App, After, First, Wanted, Created, Declared
<1>5. ASSUME NEW r \in Runs, Scale(r) PROVE TypeOK'
  <2>1. cur[r] \in Apps /\ app[cur[r]] \in App
    BY <1>5 DEF Scale, Accepts, TypeOK, Busy
  <2>2. [app[cur[r]] EXCEPT !.min = Wanted(r)] \in App
    BY <2>1, OneField DEF Wanted
  <2>3. app' \in [Apps -> App \union {Missing}]
    BY <1>5, <2>1, <2>2, ChangeType DEF Scale, TypeOK
  <2>. QED BY <1>5, <2>3 DEF Scale, Loop, Goto, Through, End, Change, Accepts, history, Active, TypeOK, Ended, Scaling, Opening, Closing, Deploying, Busy, Runs, After
<1>6. ASSUME NEW r \in Runs, LookDone(r) PROVE TypeOK'
  BY <1>6 DEF LookDone, Loop, Goto, Through, End, Change, Accepts, history, Active, TypeOK, Ended, Scaling, Opening, Closing, Deploying, Busy, Runs, App, After, First, Wanted, Created, Declared
<1>7. ASSUME NEW r \in Runs, Wake(r) PROVE TypeOK'
  <2>1. PICK a \in todo[r] : Accepts(a) /\ Change(a, [app[a] EXCEPT !.min = 1])
    BY <1>7 DEF Wake
  <2>2. a \in Apps /\ [app[a] EXCEPT !.min = 1] \in App
    BY <2>1, OneField DEF Accepts, TypeOK
  <2>3. app' \in [Apps -> App \union {Missing}]
    BY <2>1, <2>2, ChangeType DEF TypeOK
  <2>. QED BY <1>7, <2>3 DEF Wake, Loop, Goto, Through, End, Change, Accepts, history, Active, TypeOK, Ended, Scaling, Opening, Closing, Deploying, Busy, Runs, After
<1>8. ASSUME NEW r \in Runs, Open(r) PROVE TypeOK'
  <2>1. cur[r] \in Apps /\ app[cur[r]] \in App
    BY <1>8 DEF Open, Accepts, TypeOK, Busy
  <2>2. [app[cur[r]] EXCEPT !.external = TRUE] \in App
    BY <2>1, OneField DEF Wanted
  <2>3. app' \in [Apps -> App \union {Missing}]
    BY <1>8, <2>1, <2>2, ChangeType DEF Open, TypeOK
  <2>. QED BY <1>8, <2>3 DEF Open, Loop, Goto, Through, End, Change, Accepts, history, Active, TypeOK, Ended, Scaling, Opening, Closing, Deploying, Busy, Runs, After
<1>9. ASSUME NEW r \in Runs, WakeDone(r) PROVE TypeOK'
  BY <1>9 DEF WakeDone, Loop, Goto, Through, End, Change, Accepts, history, Active, TypeOK, Ended, Scaling, Opening, Closing, Deploying, Busy, Runs, App, After, First, Wanted, Created, Declared
<1>10. ASSUME NEW r \in Runs, Probe(r) PROVE TypeOK'
  BY <1>10 DEF Probe, Loop, Goto, Through, End, Change, Accepts, history, Active, TypeOK, Ended, Scaling, Opening, Closing, Deploying, Busy, Runs, App, After, First, Wanted, Created, Declared
<1>11. ASSUME NEW r \in Runs, Close(r) PROVE TypeOK'
  <2>1. PICK a \in todo[r] : Accepts(a) /\ Change(a, [app[a] EXCEPT !.external = FALSE])
    BY <1>11 DEF Close
  <2>2. a \in Apps /\ [app[a] EXCEPT !.external = FALSE] \in App
    BY <2>1, OneField DEF Accepts, TypeOK
  <2>3. app' \in [Apps -> App \union {Missing}]
    BY <2>1, <2>2, ChangeType DEF TypeOK
  <2>. QED BY <1>11, <2>3 DEF Close, Loop, Goto, Through, End, Change, Accepts, history, Active, TypeOK, Ended, Scaling, Opening, Closing, Deploying, Busy, Runs, After
<1>12. ASSUME NEW r \in Runs, Rest(r) PROVE TypeOK'
  <2>1. cur[r] \in Apps /\ app[cur[r]] \in App
    BY <1>12 DEF Rest, Accepts, TypeOK, Busy
  <2>2. [app[cur[r]] EXCEPT !.min = 0] \in App
    BY <2>1, OneField DEF Wanted
  <2>3. app' \in [Apps -> App \union {Missing}]
    BY <1>12, <2>1, <2>2, ChangeType DEF Rest, TypeOK
  <2>. QED BY <1>12, <2>3 DEF Rest, Loop, Goto, Through, End, Change, Accepts, history, Active, TypeOK, Ended, Scaling, Opening, Closing, Deploying, Busy, Runs, After
<1>13. ASSUME NEW r \in Runs, CloseDone(r) PROVE TypeOK'
  BY <1>13 DEF CloseDone, Loop, Goto, Through, End, Change, Accepts, history, Active, TypeOK, Ended, Scaling, Opening, Closing, Deploying, Busy, Runs, App, After, First, Wanted, Created, Declared
<1>14. ASSUME NEW r \in Runs, Inspect(r) PROVE TypeOK'
  BY <1>14 DEF Inspect, Loop, Goto, Through, End, Change, Accepts, history, Active, TypeOK, Ended, Scaling, Opening, Closing, Deploying, Busy, Runs, App, After, First, Wanted, Created, Declared
<1>15. ASSUME NEW r \in Runs, Delete(r) PROVE TypeOK'
  <2>3. app' \in [Apps -> App \union {Missing}]
    BY <1>15 DEF Delete, TypeOK
  <2>. QED BY <1>15, <2>3 DEF Delete, Loop, Goto, Through, End, Change, Accepts, history, Active, TypeOK, Ended, Scaling, Opening, Closing, Deploying, Busy, Runs, After
<1>16. ASSUME NEW r \in Runs, InspectDone(r) PROVE TypeOK'
  BY <1>16 DEF InspectDone, Loop, Goto, Through, End, Change, Accepts, history, Active, TypeOK, Ended, Scaling, Opening, Closing, Deploying, Busy, Runs, App, After, First, Wanted, Created, Declared
<1>17. ASSUME NEW r \in Runs, Apply(r) PROVE TypeOK'
  <2>1. PICK a \in todo[r] :
          \/ app' = [app EXCEPT ![a] = Created(a)] /\ cur' = [cur EXCEPT ![r] = a]
               /\ Through(r, a, "applying")
          \/ UNCHANGED <<app, cur>> /\ Through(r, a, "apply")
          \/ /\ Accepts(a) /\ cur' = [cur EXCEPT ![r] = a] /\ Through(r, a, "applying")
             /\ \E m \in {app[a].min, 0} :
                  Change(a, [app[a] EXCEPT !.min = m, !.external = Declared(a)])
    BY <1>17 DEF Apply
  <2>2. a \in Apps /\ Created(a) \in App
    BY DEF TypeOK, Created, Declared, App
  <2>3. app' \in [Apps -> App \union {Missing}]
    <3>1. CASE app' = [app EXCEPT ![a] = Created(a)]
      BY <2>2, <3>1 DEF TypeOK
    <3>2. CASE UNCHANGED app
      BY <3>2 DEF TypeOK
    <3>3. ASSUME Accepts(a), NEW m \in {app[a].min, 0},
                 Change(a, [app[a] EXCEPT !.min = m, !.external = Declared(a)])
          PROVE  app' \in [Apps -> App \union {Missing}]
      <4>1. [app[a] EXCEPT !.min = m, !.external = Declared(a)] \in App
        <5>1. app[a] \in App
          BY <2>2, <3>3 DEF Accepts, TypeOK
        <5>2. m \in {0, 1}
          BY <3>3, <5>1 DEF App
        <5>. QED BY <5>1, <5>2, TwoFields DEF Declared
      <4>. QED BY <2>2, <3>3, <4>1, ChangeType DEF TypeOK
    <3>. QED BY <2>1, <3>1, <3>2, <3>3
  <2>4. pc[r] = "apply" /\ UNCHANGED <<seen, history>>
    BY <1>17 DEF Apply
  <2>. QED BY <2>1, <2>2, <2>3, <2>4 DEF Through, history, TypeOK, Ended, Scaling, Opening, Closing, Deploying, Busy, Runs
<1>18. ASSUME NEW r \in Runs, ApplyDone(r) PROVE TypeOK'
  <2>1. CASE Loop(r, "rollout", Apps)
    BY <1>18, <2>1 DEF ApplyDone, Loop, Goto, Through, End, Change, Accepts, history, Active, TypeOK, Ended, Scaling, Opening, Closing, Deploying, Busy, Runs, App
  <2>2. CASE End(r, "applied")
    BY <1>18, <2>2 DEF ApplyDone, Loop, Goto, Through, End, Change, Accepts, history, Active, TypeOK, Ended, Scaling, Opening, Closing, Deploying, Busy, Runs, App
  <2>. QED BY <1>18, <2>1, <2>2 DEF ApplyDone
<1>19. ASSUME NEW r \in Runs, Rollout(r) PROVE TypeOK'
  BY <1>19 DEF Rollout, Loop, Goto, Through, End, Change, Accepts, history, Active, TypeOK, Ended, Scaling, Opening, Closing, Deploying, Busy, Runs, App, After, First, Wanted, Created, Declared
<1>20. ASSUME NEW r \in Runs, Patch(r) PROVE TypeOK'
  <2>1. cur[r] \in Apps /\ app[cur[r]] \in App /\ seen[r] \in BOOLEAN
    BY <1>20 DEF Patch, Accepts, TypeOK, Busy
  <2>2. [app[cur[r]] EXCEPT !.image = "service", !.external = seen[r]] \in App
    BY <2>1, TwoFields
  <2>3. app' \in [Apps -> App \union {Missing}]
    BY <1>20, <2>1, <2>2, ChangeType DEF Patch, TypeOK
  <2>. QED BY <1>20, <2>3 DEF Patch, Loop, Goto, Through, End, Change, Accepts, history, Active, TypeOK, Ended, Scaling, Opening, Closing, Deploying, Busy, Runs, After
<1>21. ASSUME NEW r \in Runs, RolloutDone(r) PROVE TypeOK'
  BY <1>21 DEF RolloutDone, Loop, Goto, Through, End, Change, Accepts, history, Active, TypeOK, Ended, Scaling, Opening, Closing, Deploying, Busy, Runs, App, After, First, Wanted, Created, Declared
<1>22. ASSUME NEW r \in Runs, Fail(r) PROVE TypeOK'
  BY <1>22 DEF Fail, Loop, Goto, Through, End, Change, Accepts, history, Active, TypeOK, Ended, Scaling, Opening, Closing, Deploying, Busy, Runs, App, After, First, Wanted, Created, Declared
<1>23. ASSUME NEW r \in Runs, FailSmoke(r) PROVE TypeOK'
  BY <1>23 DEF FailSmoke, Loop, Goto, Through, End, Change, Accepts, history, Active, TypeOK, Ended, Scaling, Opening, Closing, Deploying, Busy, Runs, App, After, First, Wanted, Created, Declared
<1>24. ASSUME NEW r \in Runs, FailRestore(r) PROVE TypeOK'
  BY <1>24 DEF FailRestore, Loop, Goto, Through, End, Change, Accepts, history, Active, TypeOK, Ended, Scaling, Opening, Closing, Deploying, Busy, Runs, App, After, First, Wanted, Created, Declared
<1>25. ASSUME NEW r \in Runs, Lose(r) PROVE TypeOK'
  BY <1>25 DEF Lose, Loop, Goto, Through, End, Change, Accepts, history, Active, TypeOK, Ended, Scaling, Opening, Closing, Deploying, Busy, Runs, App, After, First, Wanted, Created, Declared
<1>26. CASE UNCHANGED vars
  BY <1>26 DEF vars, TypeOK, Ended, Scaling, Opening, Closing, Deploying, Busy, Runs, App
<1>. QED
  BY <1>1, <1>2, <1>3, <1>4, <1>5, <1>6, <1>7, <1>8, <1>9, <1>10, <1>11, <1>12, <1>13, <1>14, <1>15, <1>16, <1>17, <1>18, <1>19, <1>20, <1>21, <1>22, <1>23, <1>24, <1>25, <1>26 DEF Next, ScaleStep, SmokeStep, DeployStep

(* What a call leaves of every app, and what it sets.                      *)
There(b) == app'[b] = Missing <=> app[b] = Missing
KeptMin(b) == app[b] # Missing => app'[b].min = app[b].min
KeptExternal(b) == app[b] # Missing => app'[b].external = app[b].external
KeptImage(b) == app[b] # Missing => app'[b].image = app[b].image

(* The end of an operation changes only the provisioningState of its app.  *)
LEMMA SettleEffect ==
  ASSUME TypeOK, NEW a \in Apps, Settle(a), NEW b \in Apps
  PROVE  There(b) /\ KeptMin(b) /\ KeptExternal(b) /\ KeptImage(b)
<1>1. app[a] \in App /\ Missing \notin App
  BY MissingAssumption DEF Settle, TypeOK
<1>2. PICK s \in {"Succeeded", "Failed"} : app' = [app EXCEPT ![a].state = s]
  BY DEF Settle
<1>3. /\ [app[a] EXCEPT !.state = s] \in App
      /\ [app[a] EXCEPT !.state = s].min = app[a].min
      /\ [app[a] EXCEPT !.state = s].external = app[a].external
      /\ [app[a] EXCEPT !.state = s].image = app[a].image
  BY <1>1 DEF App
<1>4. app'[b] = IF b = a THEN [app[a] EXCEPT !.state = s] ELSE app[b]
  BY <1>2 DEF TypeOK
<1>. QED BY <1>1, <1>3, <1>4 DEF There, KeptMin, KeptExternal, KeptImage

(* An accepted change gives its app the new configuration and leaves the   *)
(* others alone.                                                           *)
LEMMA ChangeEffect ==
  ASSUME TypeOK, NEW a \in Apps, NEW x \in App, Accepts(a), Change(a, x), NEW b \in Apps
  PROVE  /\ There(b)
         /\ b # a => app'[b] = app[b]
         /\ b = a => /\ app'[b].min = x.min /\ app'[b].external = x.external
                     /\ app'[b].image = x.image
<1>1. /\ [x EXCEPT !.state = "InProgress"] \in App
      /\ [x EXCEPT !.state = "InProgress"].min = x.min
      /\ [x EXCEPT !.state = "InProgress"].external = x.external
      /\ [x EXCEPT !.state = "InProgress"].image = x.image
  BY DEF App
<1>2. app'[b] = IF b = a THEN [x EXCEPT !.state = "InProgress"] ELSE app[b]
  BY DEF Change, TypeOK
<1>. QED BY <1>1, <1>2, MissingAssumption DEF There, Accepts

(* az containerapp update --min-replicas changes nothing but the           *)
(* replicas.                                                               *)
LEMMA SetMin ==
  ASSUME TypeOK, NEW a \in Apps, Accepts(a), NEW m \in {0, 1},
         Change(a, [app[a] EXCEPT !.min = m]), NEW b \in Apps
  PROVE  /\ There(b) /\ KeptExternal(b) /\ KeptImage(b)
         /\ b # a => app'[b] = app[b]
         /\ b = a => app'[b].min = m
<1>1. app[a] \in App
  BY DEF Accepts, TypeOK
<1>2. /\ [app[a] EXCEPT !.min = m] \in App
      /\ [app[a] EXCEPT !.min = m].min = m
      /\ [app[a] EXCEPT !.min = m].external = app[a].external
      /\ [app[a] EXCEPT !.min = m].image = app[a].image
  BY <1>1 DEF App
<1>. QED BY <1>2, ChangeEffect DEF KeptExternal, KeptImage

(* az containerapp ingress update changes nothing but the ingress.         *)
LEMMA SetExternal ==
  ASSUME TypeOK, NEW a \in Apps, Accepts(a), NEW e \in BOOLEAN,
         Change(a, [app[a] EXCEPT !.external = e]), NEW b \in Apps
  PROVE  /\ There(b) /\ KeptMin(b) /\ KeptImage(b)
         /\ b # a => app'[b] = app[b]
         /\ b = a => app'[b].external = e
<1>1. app[a] \in App
  BY DEF Accepts, TypeOK
<1>2. /\ [app[a] EXCEPT !.external = e] \in App
      /\ [app[a] EXCEPT !.external = e].external = e
      /\ [app[a] EXCEPT !.external = e].min = app[a].min
      /\ [app[a] EXCEPT !.external = e].image = app[a].image
  BY <1>1 DEF App
<1>. QED BY <1>2, ChangeEffect DEF KeptMin, KeptImage

(* terraform apply deletes no app, keeps images, and gives back the        *)
(* declared ingress.                                                       *)
LEMMA ApplyEffect ==
  ASSUME TypeOK, NEW r \in Runs, Apply(r), NEW b \in Apps
  PROVE  /\ app[b] # Missing => app'[b] # Missing
         /\ KeptImage(b)
         /\ app'[b] # Missing =>
              /\ app'[b].min = 0 \/ (app[b] # Missing /\ app'[b].min = app[b].min)
              /\ app'[b].external = Declared(b) \/ app'[b] = app[b]
<1>1. PICK a \in todo[r] :
        \/ app[a] = Missing /\ app' = [app EXCEPT ![a] = Created(a)]
        \/ UNCHANGED app
        \/ /\ Accepts(a)
           /\ \E m \in {app[a].min, 0} :
                Change(a, [app[a] EXCEPT !.min = m, !.external = Declared(a)])
  BY DEF Apply
<1>2. a \in Apps /\ Missing \notin App /\ Declared(a) \in BOOLEAN
  BY MissingAssumption DEF TypeOK, Declared
<1>3. CASE app[a] = Missing /\ app' = [app EXCEPT ![a] = Created(a)]
  <2>1. Created(a).min = 0 /\ Created(a).external = Declared(a)
    BY DEF Created
  <2>2. app'[b] = IF b = a THEN Created(a) ELSE app[b]
    BY <1>3 DEF TypeOK
  <2>3. app[b] # Missing => b # a /\ app[b].min \in {0, 1}
    BY <1>3 DEF TypeOK, App
  <2>. QED BY <2>1, <2>2, <2>3 DEF KeptImage
<1>4. CASE UNCHANGED app
  BY <1>4 DEF KeptImage
<1>5. ASSUME Accepts(a), NEW m \in {app[a].min, 0},
             Change(a, [app[a] EXCEPT !.min = m, !.external = Declared(a)])
      PROVE  /\ There(b) /\ KeptImage(b)
             /\ b # a => app'[b] = app[b]
             /\ b = a => /\ app'[b].min = m /\ app'[b].external = Declared(b)
                         /\ app[b] # Missing
  <2>1. app[a] \in App /\ m \in {0, 1}
    <3>1. app[a] \in App
      BY <1>2, <1>5 DEF Accepts, TypeOK
    <3>. QED BY <3>1, <1>5 DEF App
  <2>2. /\ [app[a] EXCEPT !.min = m, !.external = Declared(a)] \in App
        /\ [app[a] EXCEPT !.min = m, !.external = Declared(a)].min = m
        /\ [app[a] EXCEPT !.min = m, !.external = Declared(a)].external = Declared(a)
        /\ [app[a] EXCEPT !.min = m, !.external = Declared(a)].image = app[a].image
    BY <1>2, <2>1 DEF App
  <2>. QED BY <1>2, <1>5, <2>2, ChangeEffect DEF KeptImage, Accepts
<1>. QED BY <1>1, <1>3, <1>4, <1>5 DEF There

(* The rollout's PATCH sets the image and the ingress it had read.         *)
LEMMA PatchEffect ==
  ASSUME TypeOK, NEW r \in Runs, Patch(r), NEW b \in Apps
  PROVE  /\ There(b) /\ KeptMin(b)
         /\ b # cur[r] => app'[b] = app[b]
         /\ b = cur[r] => /\ app'[b] # Missing
                          /\ app'[b].image = "service" /\ app'[b].external = seen[r]
<1>1. cur[r] \in Apps /\ app[cur[r]] \in App /\ seen[r] \in BOOLEAN
  BY DEF Patch, Accepts, TypeOK, Busy
<1>2. /\ [app[cur[r]] EXCEPT !.image = "service", !.external = seen[r]] \in App
      /\ [app[cur[r]] EXCEPT !.image = "service", !.external = seen[r]].min = app[cur[r]].min
      /\ [app[cur[r]] EXCEPT !.image = "service", !.external = seen[r]].external = seen[r]
      /\ [app[cur[r]] EXCEPT !.image = "service", !.external = seen[r]].image = "service"
  BY <1>1 DEF App
<1>3. Accepts(cur[r])
      /\ Change(cur[r], [app[cur[r]] EXCEPT !.image = "service", !.external = seen[r]])
  BY DEF Patch
<1>. QED BY <1>1, <1>2, <1>3, ChangeEffect DEF KeptMin, There, Accepts

(* Each workflow makes its own calls.                                      *)
LEMMA Kinds ==
  ASSUME TypeOK, NEW r \in Runs
  PROVE  /\ pc[r] \in Scaling => r \in Resumes \union Shutdowns /\ r \notin Smokes /\ r \notin Deploys
         /\ pc[r] \in Opening \union Closing => r \in Smokes /\ r \notin Shutdowns /\ r \notin Deploys
         /\ pc[r] \in Deploying => r \in Deploys /\ r \notin Smokes /\ r \notin Shutdowns
BY LifecycleAssumption
   DEF TypeOK, Runs, Ended, Scaling, Opening, Closing, Deploying



(* A step of a run.                                                        *)
RunStep(r) ==
  \/ Start(r) \/ Settled(r)
  \/ ScaleStep(r) \/ SmokeStep(r) \/ DeployStep(r)
  \/ Fail(r) \/ FailSmoke(r) \/ FailRestore(r) \/ Lose(r)

(* A run's step touches no other run.                                      *)
LEMMA Bystander ==
  ASSUME TypeOK, NEW r \in Runs, RunStep(r), NEW q \in Runs, q # r
  PROVE  pc'[q] = pc[q] /\ todo'[q] = todo[q] /\ cur'[q] = cur[q] /\ seen'[q] = seen[q]
<1>1. CASE Start(r)
  BY <1>1 DEF Start, Loop, Goto, Through, End, TypeOK
<1>2. CASE Settled(r)
  BY <1>2 DEF Settled, Loop, Goto, Through, End, TypeOK
<1>3. CASE Look(r)
  BY <1>3 DEF Look, Loop, Goto, Through, End, TypeOK
<1>4. CASE Scale(r)
  BY <1>4 DEF Scale, Loop, Goto, Through, End, TypeOK
<1>5. CASE LookDone(r)
  BY <1>5 DEF LookDone, Loop, Goto, Through, End, TypeOK
<1>6. CASE Wake(r)
  BY <1>6 DEF Wake, Loop, Goto, Through, End, TypeOK
<1>7. CASE Open(r)
  BY <1>7 DEF Open, Loop, Goto, Through, End, TypeOK
<1>8. CASE WakeDone(r)
  BY <1>8 DEF WakeDone, Loop, Goto, Through, End, TypeOK
<1>9. CASE Probe(r)
  BY <1>9 DEF Probe, Loop, Goto, Through, End, TypeOK
<1>10. CASE Close(r)
  BY <1>10 DEF Close, Loop, Goto, Through, End, TypeOK
<1>11. CASE Rest(r)
  BY <1>11 DEF Rest, Loop, Goto, Through, End, TypeOK
<1>12. CASE CloseDone(r)
  BY <1>12 DEF CloseDone, Loop, Goto, Through, End, TypeOK
<1>13. CASE Inspect(r)
  BY <1>13 DEF Inspect, Loop, Goto, Through, End, TypeOK
<1>14. CASE Delete(r)
  BY <1>14 DEF Delete, Loop, Goto, Through, End, TypeOK
<1>15. CASE InspectDone(r)
  BY <1>15 DEF InspectDone, Loop, Goto, Through, End, TypeOK
<1>16. CASE Apply(r)
  BY <1>16 DEF Apply, Loop, Goto, Through, End, TypeOK
<1>17. CASE ApplyDone(r)
  BY <1>17 DEF ApplyDone, Loop, Goto, Through, End, TypeOK
<1>18. CASE Rollout(r)
  BY <1>18 DEF Rollout, Loop, Goto, Through, End, TypeOK
<1>19. CASE Patch(r)
  BY <1>19 DEF Patch, Loop, Goto, Through, End, TypeOK
<1>20. CASE RolloutDone(r)
  BY <1>20 DEF RolloutDone, Loop, Goto, Through, End, TypeOK
<1>21. CASE Fail(r)
  BY <1>21 DEF Fail, Loop, Goto, Through, End, TypeOK
<1>22. CASE FailSmoke(r)
  BY <1>22 DEF FailSmoke, Loop, Goto, Through, End, TypeOK
<1>23. CASE FailRestore(r)
  BY <1>23 DEF FailRestore, Loop, Goto, Through, End, TypeOK
<1>24. CASE Lose(r)
  BY <1>24 DEF Lose, Loop, Goto, Through, End, TypeOK
<1>. QED
  BY <1>1, <1>2, <1>3, <1>4, <1>5, <1>6, <1>7, <1>8, <1>9, <1>10, <1>11, <1>12, <1>13, <1>14, <1>15, <1>16, <1>17, <1>18, <1>19, <1>20, <1>21, <1>22, <1>23, <1>24 DEF RunStep, ScaleStep, SmokeStep, DeployStep

(* A smoke run's loops stay within the inner apps.                         *)
LEMMA InsideStep ==
  ASSUME TypeOK, SmokesStayInside, [Next]_vars
  PROVE  SmokesStayInside'
<1>. USE LifecycleAssumption
<1>1. ASSUME NEW a \in Apps, Settle(a) PROVE SmokesStayInside'
  BY <1>1, Kinds DEF Settle, Loop, Goto, Through, End, history, SmokesStayInside, TypeOK, Ended, Scaling, Opening, Closing, Deploying
<1>2. ASSUME NEW r \in Runs, Start(r) PROVE SmokesStayInside'
  BY <1>2, Kinds DEF Start, Loop, Goto, Through, End, history, SmokesStayInside, TypeOK, Ended, Scaling, Opening, Closing, Deploying
<1>3. ASSUME NEW r \in Runs, Settled(r) PROVE SmokesStayInside'
  BY <1>3, Kinds DEF Settled, Loop, Goto, Through, End, history, SmokesStayInside, TypeOK, Ended, Scaling, Opening, Closing, Deploying
<1>4. ASSUME NEW r \in Runs, Look(r) PROVE SmokesStayInside'
  <2>1. r \notin Smokes
    BY <1>4, Kinds DEF Look, Scaling
  <2>2. ASSUME NEW s \in Smokes PROVE todo'[s] = todo[s]
    BY <1>4, <2>1, Bystander DEF RunStep, ScaleStep, Runs
  <2>. QED BY <2>2 DEF SmokesStayInside
<1>5. ASSUME NEW r \in Runs, Scale(r) PROVE SmokesStayInside'
  BY <1>5, Kinds DEF Scale, Loop, Goto, Through, End, history, SmokesStayInside, TypeOK, Ended, Scaling, Opening, Closing, Deploying
<1>6. ASSUME NEW r \in Runs, LookDone(r) PROVE SmokesStayInside'
  BY <1>6, Kinds DEF LookDone, Loop, Goto, Through, End, history, SmokesStayInside, TypeOK, Ended, Scaling, Opening, Closing, Deploying
<1>7. ASSUME NEW r \in Runs, Wake(r) PROVE SmokesStayInside'
  BY <1>7, Kinds DEF Wake, Loop, Goto, Through, End, history, SmokesStayInside, TypeOK, Ended, Scaling, Opening, Closing, Deploying
<1>8. ASSUME NEW r \in Runs, Open(r) PROVE SmokesStayInside'
  BY <1>8, Kinds DEF Open, Loop, Goto, Through, End, history, SmokesStayInside, TypeOK, Ended, Scaling, Opening, Closing, Deploying
<1>9. ASSUME NEW r \in Runs, WakeDone(r) PROVE SmokesStayInside'
  BY <1>9, Kinds DEF WakeDone, Loop, Goto, Through, End, history, SmokesStayInside, TypeOK, Ended, Scaling, Opening, Closing, Deploying
<1>10. ASSUME NEW r \in Runs, Probe(r) PROVE SmokesStayInside'
  BY <1>10, Kinds DEF Probe, Loop, Goto, Through, End, history, SmokesStayInside, TypeOK, Ended, Scaling, Opening, Closing, Deploying
<1>11. ASSUME NEW r \in Runs, Close(r) PROVE SmokesStayInside'
  BY <1>11, Kinds DEF Close, Loop, Goto, Through, End, history, SmokesStayInside, TypeOK, Ended, Scaling, Opening, Closing, Deploying
<1>12. ASSUME NEW r \in Runs, Rest(r) PROVE SmokesStayInside'
  BY <1>12, Kinds DEF Rest, Loop, Goto, Through, End, history, SmokesStayInside, TypeOK, Ended, Scaling, Opening, Closing, Deploying
<1>13. ASSUME NEW r \in Runs, CloseDone(r) PROVE SmokesStayInside'
  BY <1>13, Kinds DEF CloseDone, Loop, Goto, Through, End, history, SmokesStayInside, TypeOK, Ended, Scaling, Opening, Closing, Deploying
<1>14. ASSUME NEW r \in Runs, Inspect(r) PROVE SmokesStayInside'
  <2>1. r \notin Smokes
    BY <1>14, Kinds DEF Inspect, Deploying
  <2>2. ASSUME NEW s \in Smokes PROVE todo'[s] = todo[s]
    BY <1>14, <2>1, Bystander DEF RunStep, DeployStep, Runs
  <2>. QED BY <2>2 DEF SmokesStayInside
<1>15. ASSUME NEW r \in Runs, Delete(r) PROVE SmokesStayInside'
  BY <1>15, Kinds DEF Delete, Loop, Goto, Through, End, history, SmokesStayInside, TypeOK, Ended, Scaling, Opening, Closing, Deploying
<1>16. ASSUME NEW r \in Runs, InspectDone(r) PROVE SmokesStayInside'
  BY <1>16, Kinds DEF InspectDone, Loop, Goto, Through, End, history, SmokesStayInside, TypeOK, Ended, Scaling, Opening, Closing, Deploying
<1>17. ASSUME NEW r \in Runs, Apply(r) PROVE SmokesStayInside'
  <2>1. r \notin Smokes
    BY <1>17, Kinds DEF Apply, Deploying
  <2>2. ASSUME NEW s \in Smokes PROVE todo'[s] = todo[s]
    BY <1>17, <2>1, Bystander DEF RunStep, DeployStep, Runs
  <2>. QED BY <2>2 DEF SmokesStayInside
<1>18. ASSUME NEW r \in Runs, ApplyDone(r) PROVE SmokesStayInside'
  <2>1. r \notin Smokes
    BY <1>18, Kinds DEF ApplyDone, Deploying
  <2>2. ASSUME NEW s \in Smokes PROVE todo'[s] = todo[s]
    BY <1>18, <2>1, Bystander DEF RunStep, DeployStep, Runs
  <2>. QED BY <2>2 DEF SmokesStayInside
<1>19. ASSUME NEW r \in Runs, Rollout(r) PROVE SmokesStayInside'
  BY <1>19, Kinds DEF Rollout, Loop, Goto, Through, End, history, SmokesStayInside, TypeOK, Ended, Scaling, Opening, Closing, Deploying
<1>20. ASSUME NEW r \in Runs, Patch(r) PROVE SmokesStayInside'
  BY <1>20, Kinds DEF Patch, Loop, Goto, Through, End, history, SmokesStayInside, TypeOK, Ended, Scaling, Opening, Closing, Deploying
<1>21. ASSUME NEW r \in Runs, RolloutDone(r) PROVE SmokesStayInside'
  BY <1>21, Kinds DEF RolloutDone, Loop, Goto, Through, End, history, SmokesStayInside, TypeOK, Ended, Scaling, Opening, Closing, Deploying
<1>22. ASSUME NEW r \in Runs, Fail(r) PROVE SmokesStayInside'
  BY <1>22, Kinds DEF Fail, Loop, Goto, Through, End, history, SmokesStayInside, TypeOK, Ended, Scaling, Opening, Closing, Deploying
<1>23. ASSUME NEW r \in Runs, FailSmoke(r) PROVE SmokesStayInside'
  BY <1>23, Kinds DEF FailSmoke, Loop, Goto, Through, End, history, SmokesStayInside, TypeOK, Ended, Scaling, Opening, Closing, Deploying
<1>24. ASSUME NEW r \in Runs, FailRestore(r) PROVE SmokesStayInside'
  <2>1. todo'[r] \subseteq todo[r]
    <3>1. CASE UNCHANGED todo
      BY <3>1
    <3>2. CASE Through(r, cur[r], "close")
      BY <3>2 DEF Through, TypeOK
    <3>. QED BY <1>24, <3>1, <3>2 DEF FailRestore, Goto
  <2>2. ASSUME NEW s \in Smokes, s # r PROVE todo'[s] = todo[s]
    BY <1>24, <2>2, Bystander DEF RunStep, Runs
  <2>. QED BY <2>1, <2>2 DEF SmokesStayInside
<1>25. ASSUME NEW r \in Runs, Lose(r) PROVE SmokesStayInside'
  BY <1>25, Kinds DEF Lose, Loop, Goto, Through, End, history, SmokesStayInside, TypeOK, Ended, Scaling, Opening, Closing, Deploying
<1>26. CASE UNCHANGED vars
  BY <1>26 DEF vars, SmokesStayInside
<1>. QED
  BY <1>1, <1>2, <1>3, <1>4, <1>5, <1>6, <1>7, <1>8, <1>9, <1>10, <1>11, <1>12, <1>13, <1>14, <1>15, <1>16, <1>17, <1>18, <1>19, <1>20, <1>21, <1>22, <1>23, <1>24, <1>25, <1>26 DEF Next, ScaleStep, SmokeStep, DeployStep

(* A step is the end of an operation or a step of one run.                 *)
LEMMA NextRuns ==
  Next <=> (\E a \in Apps : Settle(a)) \/ (\E r \in Runs : RunStep(r))
BY DEF Next, RunStep

(* No run is started twice.                                                *)
LEMMA NeverIdle ==
  ASSUME TypeOK, NEW r \in Runs, RunStep(r)
  PROVE  pc'[r] # "idle"
<1>1. CASE Start(r)
  BY <1>1 DEF Start, First, Loop, TypeOK
<1>2. CASE Settled(r)
  <2>1. pc'[r] = After[pc[r]] /\ pc[r] \in DOMAIN After
    BY <1>2 DEF Settled, Goto, TypeOK
  <2>. QED BY <2>1 DEF After
<1>3. CASE Look(r)
  BY <1>3 DEF Look, Loop, Goto, Through, End, TypeOK
<1>4. CASE Scale(r)
  BY <1>4 DEF Scale, Loop, Goto, Through, End, TypeOK
<1>5. CASE LookDone(r)
  BY <1>5 DEF LookDone, Loop, Goto, Through, End, TypeOK
<1>6. CASE Wake(r)
  BY <1>6 DEF Wake, Loop, Goto, Through, End, TypeOK
<1>7. CASE Open(r)
  BY <1>7 DEF Open, Loop, Goto, Through, End, TypeOK
<1>8. CASE WakeDone(r)
  BY <1>8 DEF WakeDone, Loop, Goto, Through, End, TypeOK
<1>9. CASE Probe(r)
  BY <1>9 DEF Probe, Loop, Goto, Through, End, TypeOK
<1>10. CASE Close(r)
  BY <1>10 DEF Close, Loop, Goto, Through, End, TypeOK
<1>11. CASE Rest(r)
  BY <1>11 DEF Rest, Loop, Goto, Through, End, TypeOK
<1>12. CASE CloseDone(r)
  BY <1>12 DEF CloseDone, Loop, Goto, Through, End, TypeOK
<1>13. CASE Inspect(r)
  BY <1>13 DEF Inspect, Loop, Goto, Through, End, TypeOK
<1>14. CASE Delete(r)
  BY <1>14 DEF Delete, Loop, Goto, Through, End, TypeOK
<1>15. CASE InspectDone(r)
  BY <1>15 DEF InspectDone, Loop, Goto, Through, End, TypeOK
<1>16. CASE Apply(r)
  BY <1>16 DEF Apply, Loop, Goto, Through, End, TypeOK
<1>17. CASE ApplyDone(r)
  BY <1>17 DEF ApplyDone, Loop, Goto, Through, End, TypeOK
<1>18. CASE Rollout(r)
  BY <1>18 DEF Rollout, Loop, Goto, Through, End, TypeOK
<1>19. CASE Patch(r)
  BY <1>19 DEF Patch, Loop, Goto, Through, End, TypeOK
<1>20. CASE RolloutDone(r)
  BY <1>20 DEF RolloutDone, Loop, Goto, Through, End, TypeOK
<1>21. CASE Fail(r)
  BY <1>21 DEF Fail, Loop, Goto, Through, End, TypeOK
<1>22. CASE FailSmoke(r)
  BY <1>22 DEF FailSmoke, Loop, Goto, Through, End, TypeOK
<1>23. CASE FailRestore(r)
  <2>1. pc'[r] \in {"rest", "close"}
    <3>1. CASE pc[r] \in {"closing", "resting"}
      BY <1>23, <3>1 DEF FailRestore, Goto, After, TypeOK
    <3>2. CASE pc[r] = "close"
      BY <1>23, <3>2 DEF FailRestore, Goto, TypeOK
    <3>3. CASE pc[r] = "rest"
      BY <1>23, <3>3 DEF FailRestore, Through, TypeOK
    <3>. QED BY <1>23, <3>1, <3>2, <3>3 DEF FailRestore
  <2>. QED BY <2>1
<1>24. CASE Lose(r)
  BY <1>24 DEF Lose, Loop, Goto, Through, End, TypeOK
<1>. QED
  BY <1>1, <1>2, <1>3, <1>4, <1>5, <1>6, <1>7, <1>8, <1>9, <1>10, <1>11, <1>12, <1>13, <1>14, <1>15, <1>16, <1>17, <1>18, <1>19, <1>20, <1>21, <1>22, <1>23, <1>24 DEF RunStep, ScaleStep, SmokeStep, DeployStep

(* A failure that was swallowed stays on record, and only a rollout's      *)
(* patch carries an ingress over.                                          *)
LEMMA HistoryGrows ==
  ASSUME NEW r \in Runs, RunStep(r)
  PROVE  ignored \subseteq ignored' /\ (carried' = carried \/ Patch(r))
<1>1. CASE Start(r)
  BY <1>1 DEF Start, history
<1>2. CASE Settled(r)
  BY <1>2 DEF Settled, history
<1>3. CASE Look(r)
  BY <1>3 DEF Look, history
<1>4. CASE Scale(r)
  BY <1>4 DEF Scale, history
<1>5. CASE LookDone(r)
  BY <1>5 DEF LookDone, history
<1>6. CASE Wake(r)
  BY <1>6 DEF Wake, history
<1>7. CASE Open(r)
  BY <1>7 DEF Open, history
<1>8. CASE WakeDone(r)
  BY <1>8 DEF WakeDone, history
<1>9. CASE Probe(r)
  BY <1>9 DEF Probe, history
<1>10. CASE Close(r)
  BY <1>10 DEF Close, history
<1>11. CASE Rest(r)
  BY <1>11 DEF Rest, history
<1>12. CASE CloseDone(r)
  BY <1>12 DEF CloseDone, history
<1>13. CASE Inspect(r)
  BY <1>13 DEF Inspect, history
<1>14. CASE Delete(r)
  BY <1>14 DEF Delete, history
<1>15. CASE InspectDone(r)
  BY <1>15 DEF InspectDone, history
<1>16. CASE Apply(r)
  BY <1>16 DEF Apply, history
<1>17. CASE ApplyDone(r)
  BY <1>17 DEF ApplyDone, history
<1>18. CASE Rollout(r)
  BY <1>18 DEF Rollout, history
<1>19. CASE Patch(r)
  BY <1>19 DEF Patch, history
<1>20. CASE RolloutDone(r)
  BY <1>20 DEF RolloutDone, history
<1>21. CASE Fail(r)
  BY <1>21 DEF Fail, history
<1>22. CASE FailSmoke(r)
  BY <1>22 DEF FailSmoke, history
<1>23. CASE FailRestore(r)
  BY <1>23 DEF FailRestore, history
<1>24. CASE Lose(r)
  BY <1>24 DEF Lose, history
<1>. QED
  BY <1>1, <1>2, <1>3, <1>4, <1>5, <1>6, <1>7, <1>8, <1>9, <1>10, <1>11, <1>12, <1>13, <1>14, <1>15, <1>16, <1>17, <1>18, <1>19, <1>20, <1>21, <1>22, <1>23, <1>24 DEF RunStep, ScaleStep, SmokeStep, DeployStep

(* Who answers for an external inner app: ExposureEnds, app by app.        *)
Owner(b) ==
  \/ \E r \in Smokes : Owes(r, b) \/ pc[r] = "lost"
  \/ <<b, "ingress">> \in ignored
  \/ b \in carried

(* A step that is not of the one run that answers changes nothing for it.  *)
LEMMA OwnerStays ==
  ASSUME NEW b, Owner(b), ignored \subseteq ignored', carried \subseteq carried',
         \A s \in Smokes : Owes(s, b) \/ pc[s] = "lost" => Owes(s, b)' \/ pc'[s] = "lost"
  PROVE  Owner(b)'
BY DEF Owner

(* Nothing an inner app is exposed by goes without somebody to answer.     *)
LEMMA ExposureStep ==
  ASSUME TypeOK, SmokesStayInside, ExposureEnds, [Next]_vars
  PROVE  ExposureEnds'
<1>. SUFFICES ASSUME NEW b \in Inner, app'[b] # Missing, app'[b].external
             PROVE  Owner(b)'
  BY DEF ExposureEnds, Owner
<1>. USE LifecycleAssumption
<1>a. b \in Apps /\ ~Declared(b)
  BY DEF Declared
<1>b. app[b] # Missing /\ app[b].external => Owner(b)
  BY DEF ExposureEnds, Owner
<1>1. ASSUME NEW a \in Apps, Settle(a) PROVE Owner(b)'
  <2>1. app[b] # Missing /\ app[b].external
    BY <1>1, <1>a, SettleEffect DEF There, KeptExternal
  <2>2. Owner(b)
    BY <1>b, <2>1
  <2>3. \A s \in Smokes : Owes(s, b) \/ pc[s] = "lost" => Owes(s, b)' \/ pc'[s] = "lost"
    BY <1>1, Kinds DEF Settle, Loop, Goto, Through, End, history, Owes, TypeOK, Ended, Scaling, Opening, Closing, Deploying
  <2>4. ignored \subseteq ignored' /\ carried \subseteq carried'
    BY <1>1 DEF Settle, history
  <2>. QED BY <2>2, <2>3, <2>4, OwnerStays
<1>2. ASSUME NEW r \in Runs, Start(r) PROVE Owner(b)'
  <2>1. UNCHANGED app
    BY <1>2 DEF Start
  <2>2. Owner(b)
    BY <1>b, <2>1
  <2>3. \A s \in Smokes : Owes(s, b) \/ pc[s] = "lost" => Owes(s, b)' \/ pc'[s] = "lost"
    BY <1>2, Kinds DEF Start, First, Loop, Goto, Through, End, history, Owes, TypeOK, Ended, Scaling, Opening, Closing, Deploying
  <2>4. ignored \subseteq ignored' /\ carried \subseteq carried'
    BY <1>2 DEF Start, history
  <2>. QED BY <2>2, <2>3, <2>4, OwnerStays
<1>3. ASSUME NEW r \in Runs, Settled(r) PROVE Owner(b)'
  <2>1. UNCHANGED app
    BY <1>3 DEF Settled
  <2>2. Owner(b)
    BY <1>b, <2>1
  <2>3. \A s \in Smokes : Owes(s, b) \/ pc[s] = "lost" => Owes(s, b)' \/ pc'[s] = "lost"
    BY <1>3, Kinds DEF Settled, Loop, Goto, Through, End, history, After, Owes, TypeOK, Ended, Scaling, Opening, Closing, Deploying
  <2>4. ignored \subseteq ignored' /\ carried \subseteq carried'
    BY <1>3 DEF Settled, history
  <2>. QED BY <2>2, <2>3, <2>4, OwnerStays
<1>4. ASSUME NEW r \in Runs, Look(r) PROVE Owner(b)'
  <2>1. UNCHANGED app
    BY <1>4 DEF Look
  <2>2. Owner(b)
    BY <1>b, <2>1
  <2>3. \A s \in Smokes : Owes(s, b) \/ pc[s] = "lost" => Owes(s, b)' \/ pc'[s] = "lost"
    <3>1. r \notin Smokes
      BY <1>4, Kinds DEF Look, Scaling
    <3>2. ASSUME NEW s \in Smokes
          PROVE  pc'[s] = pc[s] /\ todo'[s] = todo[s] /\ cur'[s] = cur[s]
      BY <1>4, <3>1, Bystander DEF RunStep, ScaleStep, Runs
    <3>. QED BY <3>2 DEF Owes
  <2>4. ignored \subseteq ignored' /\ carried \subseteq carried'
    BY <1>4 DEF Look, history
  <2>. QED BY <2>2, <2>3, <2>4, OwnerStays
<1>5. ASSUME NEW r \in Runs, Scale(r) PROVE Owner(b)'
  <2>1. app[b] # Missing /\ app[b].external
    <3>1. cur[r] \in Apps /\ Wanted(r) \in {0, 1}
      BY <1>5 DEF Scale, TypeOK, Busy, Wanted
    <3>. QED BY <1>5, <1>a, <3>1, SetMin DEF Scale, There, KeptExternal
  <2>2. Owner(b)
    BY <1>b, <2>1
  <2>3. \A s \in Smokes : Owes(s, b) \/ pc[s] = "lost" => Owes(s, b)' \/ pc'[s] = "lost"
    BY <1>5, Kinds DEF Scale, Loop, Goto, Through, End, history, Owes, TypeOK, Ended, Scaling, Opening, Closing, Deploying
  <2>4. ignored \subseteq ignored' /\ carried \subseteq carried'
    BY <1>5 DEF Scale, history
  <2>. QED BY <2>2, <2>3, <2>4, OwnerStays
<1>6. ASSUME NEW r \in Runs, LookDone(r) PROVE Owner(b)'
  <2>1. UNCHANGED app
    BY <1>6 DEF LookDone
  <2>2. Owner(b)
    BY <1>b, <2>1
  <2>3. \A s \in Smokes : Owes(s, b) \/ pc[s] = "lost" => Owes(s, b)' \/ pc'[s] = "lost"
    BY <1>6, Kinds DEF LookDone, Loop, Goto, Through, End, history, Owes, TypeOK, Ended, Scaling, Opening, Closing, Deploying
  <2>4. ignored \subseteq ignored' /\ carried \subseteq carried'
    BY <1>6 DEF LookDone, history
  <2>. QED BY <2>2, <2>3, <2>4, OwnerStays
<1>7. ASSUME NEW r \in Runs, Wake(r) PROVE Owner(b)'
  <2>1. app[b] # Missing /\ app[b].external
    <3>1. PICK a \in todo[r] : Accepts(a) /\ Change(a, [app[a] EXCEPT !.min = 1])
      BY <1>7 DEF Wake
    <3>2. a \in Apps
      BY DEF TypeOK
    <3>. QED BY <1>a, <3>1, <3>2, SetMin DEF There, KeptExternal
  <2>2. Owner(b)
    BY <1>b, <2>1
  <2>3. \A s \in Smokes : Owes(s, b) \/ pc[s] = "lost" => Owes(s, b)' \/ pc'[s] = "lost"
    BY <1>7, Kinds DEF Wake, Loop, Goto, Through, End, history, Owes, TypeOK, Ended, Scaling, Opening, Closing, Deploying
  <2>4. ignored \subseteq ignored' /\ carried \subseteq carried'
    BY <1>7 DEF Wake, history
  <2>. QED BY <2>2, <2>3, <2>4, OwnerStays
<1>8. ASSUME NEW r \in Runs, Open(r) PROVE Owner(b)'
  <2>1. r \in Smokes /\ pc'[r] = "opening"
    BY <1>8, Kinds DEF Open, Loop, Goto, Through, End, history, TypeOK, Ended, Scaling, Opening, Closing, Deploying
  <2>. QED BY <2>1 DEF Owner, Owes, Opening
<1>9. ASSUME NEW r \in Runs, WakeDone(r) PROVE Owner(b)'
  <2>1. UNCHANGED app
    BY <1>9 DEF WakeDone
  <2>2. Owner(b)
    BY <1>b, <2>1
  <2>3. \A s \in Smokes : Owes(s, b) \/ pc[s] = "lost" => Owes(s, b)' \/ pc'[s] = "lost"
    BY <1>9, Kinds DEF WakeDone, Loop, Goto, Through, End, history, Owes, TypeOK, Ended, Scaling, Opening, Closing, Deploying
  <2>4. ignored \subseteq ignored' /\ carried \subseteq carried'
    BY <1>9 DEF WakeDone, history
  <2>. QED BY <2>2, <2>3, <2>4, OwnerStays
<1>10. ASSUME NEW r \in Runs, Probe(r) PROVE Owner(b)'
  <2>1. UNCHANGED app
    BY <1>10 DEF Probe
  <2>2. Owner(b)
    BY <1>b, <2>1
  <2>3. \A s \in Smokes : Owes(s, b) \/ pc[s] = "lost" => Owes(s, b)' \/ pc'[s] = "lost"
    <3>1. pc'[r] = "close" /\ todo'[r] = Inner /\ cur'[r] = NoApp
      BY <1>10 DEF Probe, Loop, TypeOK
    <3>2. Owes(r, b)'
      BY <3>1, <1>a, MissingAssumption DEF Owes, Closing
    <3>3. ASSUME NEW s \in Smokes, s # r
          PROVE  pc'[s] = pc[s] /\ todo'[s] = todo[s] /\ cur'[s] = cur[s]
      BY <1>10, <3>3, Bystander DEF RunStep, SmokeStep, Runs
    <3>. QED BY <3>2, <3>3 DEF Owes
  <2>4. ignored \subseteq ignored' /\ carried \subseteq carried'
    BY <1>10 DEF Probe, history
  <2>. QED BY <2>2, <2>3, <2>4, OwnerStays
<1>11. ASSUME NEW r \in Runs, Close(r) PROVE Owner(b)'
  <2>1. PICK a \in todo[r] : /\ Accepts(a) /\ Change(a, [app[a] EXCEPT !.external = FALSE])
                            /\ cur' = [cur EXCEPT ![r] = a]
    BY <1>11 DEF Close
  <2>2. a \in Apps
    BY DEF TypeOK
  <2>3. b # a /\ app'[b] = app[b]
    BY <1>a, <2>1, <2>2, SetExternal
  <2>4. Owner(b)
    BY <1>b, <2>3
  <2>5. \A s \in Smokes : Owes(s, b) \/ pc[s] = "lost" => Owes(s, b)' \/ pc'[s] = "lost"
    BY <1>11, <2>1, <2>3, Kinds DEF Close, Loop, Goto, Through, End, history, Owes, TypeOK, Ended, Scaling, Opening, Closing, Deploying
  <2>6. UNCHANGED history
    BY <1>11 DEF Close
  <2>. QED BY <2>4, <2>5, <2>6, OwnerStays DEF history
<1>12. ASSUME NEW r \in Runs, Rest(r) PROVE Owner(b)'
  <2>1. app[b] # Missing /\ app[b].external
    <3>1. cur[r] \in Apps
      BY <1>12 DEF Rest, TypeOK, Busy
    <3>. QED BY <1>12, <1>a, <3>1, SetMin DEF Rest, There, KeptExternal
  <2>2. Owner(b)
    BY <1>b, <2>1
  <2>3. \A s \in Smokes : Owes(s, b) \/ pc[s] = "lost" => Owes(s, b)' \/ pc'[s] = "lost"
    BY <1>12, Kinds DEF Rest, Loop, Goto, Through, End, history, Owes, TypeOK, Ended, Scaling, Opening, Closing, Deploying
  <2>4. ignored \subseteq ignored' /\ carried \subseteq carried'
    BY <1>12 DEF Rest, history
  <2>. QED BY <2>2, <2>3, <2>4, OwnerStays
<1>13. ASSUME NEW r \in Runs, CloseDone(r) PROVE Owner(b)'
  <2>1. UNCHANGED app
    BY <1>13 DEF CloseDone
  <2>2. Owner(b)
    BY <1>b, <2>1
  <2>3. \A s \in Smokes : Owes(s, b) \/ pc[s] = "lost" => Owes(s, b)' \/ pc'[s] = "lost"
    BY <1>13, Kinds DEF CloseDone, Loop, Goto, Through, End, history, Owes, TypeOK, Ended, Scaling, Opening, Closing, Deploying
  <2>4. ignored \subseteq ignored' /\ carried \subseteq carried'
    BY <1>13 DEF CloseDone, history
  <2>. QED BY <2>2, <2>3, <2>4, OwnerStays
<1>14. ASSUME NEW r \in Runs, Inspect(r) PROVE Owner(b)'
  <2>1. UNCHANGED app
    BY <1>14 DEF Inspect
  <2>2. Owner(b)
    BY <1>b, <2>1
  <2>3. \A s \in Smokes : Owes(s, b) \/ pc[s] = "lost" => Owes(s, b)' \/ pc'[s] = "lost"
    <3>1. r \notin Smokes
      BY <1>14, Kinds DEF Inspect, Deploying
    <3>2. ASSUME NEW s \in Smokes
          PROVE  pc'[s] = pc[s] /\ todo'[s] = todo[s] /\ cur'[s] = cur[s]
      BY <1>14, <3>1, Bystander DEF RunStep, DeployStep, Runs
    <3>. QED BY <3>2 DEF Owes
  <2>4. ignored \subseteq ignored' /\ carried \subseteq carried'
    BY <1>14 DEF Inspect, history
  <2>. QED BY <2>2, <2>3, <2>4, OwnerStays
<1>15. ASSUME NEW r \in Runs, Delete(r) PROVE Owner(b)'
  <2>1. app[b] # Missing /\ app[b].external
    BY <1>15, <1>a DEF Delete, TypeOK
  <2>2. Owner(b)
    BY <1>b, <2>1
  <2>3. \A s \in Smokes : Owes(s, b) \/ pc[s] = "lost" => Owes(s, b)' \/ pc'[s] = "lost"
    BY <1>15, Kinds DEF Delete, Loop, Goto, Through, End, history, Owes, TypeOK, Ended, Scaling, Opening, Closing, Deploying
  <2>4. ignored \subseteq ignored' /\ carried \subseteq carried'
    BY <1>15 DEF Delete, history
  <2>. QED BY <2>2, <2>3, <2>4, OwnerStays
<1>16. ASSUME NEW r \in Runs, InspectDone(r) PROVE Owner(b)'
  <2>1. UNCHANGED app
    BY <1>16 DEF InspectDone
  <2>2. Owner(b)
    BY <1>b, <2>1
  <2>3. \A s \in Smokes : Owes(s, b) \/ pc[s] = "lost" => Owes(s, b)' \/ pc'[s] = "lost"
    BY <1>16, Kinds DEF InspectDone, Loop, Goto, Through, End, history, Owes, TypeOK, Ended, Scaling, Opening, Closing, Deploying
  <2>4. ignored \subseteq ignored' /\ carried \subseteq carried'
    BY <1>16 DEF InspectDone, history
  <2>. QED BY <2>2, <2>3, <2>4, OwnerStays
<1>17. ASSUME NEW r \in Runs, Apply(r) PROVE Owner(b)'
  <2>1. app[b] # Missing /\ app[b].external
    BY <1>17, <1>a, ApplyEffect
  <2>2. Owner(b)
    BY <1>b, <2>1
  <2>3. \A s \in Smokes : Owes(s, b) \/ pc[s] = "lost" => Owes(s, b)' \/ pc'[s] = "lost"
    <3>1. r \notin Smokes
      BY <1>17, Kinds DEF Apply, Deploying
    <3>2. ASSUME NEW s \in Smokes
          PROVE  pc'[s] = pc[s] /\ todo'[s] = todo[s] /\ cur'[s] = cur[s]
      BY <1>17, <3>1, Bystander DEF RunStep, DeployStep, Runs
    <3>. QED BY <3>2 DEF Owes
  <2>4. ignored \subseteq ignored' /\ carried \subseteq carried'
    BY <1>17 DEF Apply, history
  <2>. QED BY <2>2, <2>3, <2>4, OwnerStays
<1>18. ASSUME NEW r \in Runs, ApplyDone(r) PROVE Owner(b)'
  <2>1. UNCHANGED app
    BY <1>18 DEF ApplyDone
  <2>2. Owner(b)
    BY <1>b, <2>1
  <2>3. \A s \in Smokes : Owes(s, b) \/ pc[s] = "lost" => Owes(s, b)' \/ pc'[s] = "lost"
    <3>1. r \notin Smokes
      BY <1>18, Kinds DEF ApplyDone, Deploying
    <3>2. ASSUME NEW s \in Smokes
          PROVE  pc'[s] = pc[s] /\ todo'[s] = todo[s] /\ cur'[s] = cur[s]
      BY <1>18, <3>1, Bystander DEF RunStep, DeployStep, Runs
    <3>. QED BY <3>2 DEF Owes
  <2>4. ignored \subseteq ignored' /\ carried \subseteq carried'
    BY <1>18 DEF ApplyDone, history
  <2>. QED BY <2>2, <2>3, <2>4, OwnerStays
<1>19. ASSUME NEW r \in Runs, Rollout(r) PROVE Owner(b)'
  <2>1. UNCHANGED app
    BY <1>19 DEF Rollout
  <2>2. Owner(b)
    BY <1>b, <2>1
  <2>3. \A s \in Smokes : Owes(s, b) \/ pc[s] = "lost" => Owes(s, b)' \/ pc'[s] = "lost"
    BY <1>19, Kinds DEF Rollout, Loop, Goto, Through, End, history, Owes, TypeOK, Ended, Scaling, Opening, Closing, Deploying
  <2>4. ignored \subseteq ignored' /\ carried \subseteq carried'
    BY <1>19 DEF Rollout, history
  <2>. QED BY <2>2, <2>3, <2>4, OwnerStays
<1>20. ASSUME NEW r \in Runs, Patch(r) PROVE Owner(b)'
  <2>1. \A s \in Smokes : Owes(s, b) \/ pc[s] = "lost" => Owes(s, b)' \/ pc'[s] = "lost"
    BY <1>20, Kinds DEF Patch, Through, Owes, TypeOK, Ended, Scaling, Opening, Closing, Deploying
  <2>2. ignored \subseteq ignored' /\ carried \subseteq carried'
    BY <1>20 DEF Patch
  <2>3. CASE app[b] # Missing /\ app[b].external
    BY <1>b, <2>1, <2>2, <2>3, OwnerStays
  <2>4. CASE ~(app[b] # Missing /\ app[b].external)
    <3>1. b = cur[r] /\ seen[r]
      BY <1>20, <1>a, <2>4, PatchEffect
    <3>2. ~app[b].external /\ b \in carried'
      BY <1>20, <2>4, <3>1 DEF Patch, Accepts
    <3>. QED BY <3>2 DEF Owner
  <2>. QED BY <2>3, <2>4
<1>21. ASSUME NEW r \in Runs, RolloutDone(r) PROVE Owner(b)'
  <2>1. UNCHANGED app
    BY <1>21 DEF RolloutDone
  <2>2. Owner(b)
    BY <1>b, <2>1
  <2>3. \A s \in Smokes : Owes(s, b) \/ pc[s] = "lost" => Owes(s, b)' \/ pc'[s] = "lost"
    BY <1>21, Kinds DEF RolloutDone, Loop, Goto, Through, End, history, Owes, TypeOK, Ended, Scaling, Opening, Closing, Deploying
  <2>4. ignored \subseteq ignored' /\ carried \subseteq carried'
    BY <1>21 DEF RolloutDone, history
  <2>. QED BY <2>2, <2>3, <2>4, OwnerStays
<1>22. ASSUME NEW r \in Runs, Fail(r) PROVE Owner(b)'
  <2>1. UNCHANGED app
    BY <1>22 DEF Fail
  <2>2. Owner(b)
    BY <1>b, <2>1
  <2>3. \A s \in Smokes : Owes(s, b) \/ pc[s] = "lost" => Owes(s, b)' \/ pc'[s] = "lost"
    BY <1>22, Kinds DEF Fail, Loop, Goto, Through, End, history, Owes, TypeOK, Ended, Scaling, Opening, Closing, Deploying
  <2>4. ignored \subseteq ignored' /\ carried \subseteq carried'
    BY <1>22 DEF Fail, history
  <2>. QED BY <2>2, <2>3, <2>4, OwnerStays
<1>23. ASSUME NEW r \in Runs, FailSmoke(r) PROVE Owner(b)'
  <2>1. UNCHANGED app
    BY <1>23 DEF FailSmoke
  <2>2. Owner(b)
    BY <1>b, <2>1
  <2>3. \A s \in Smokes : Owes(s, b) \/ pc[s] = "lost" => Owes(s, b)' \/ pc'[s] = "lost"
    <3>1. pc'[r] = "close" /\ todo'[r] = Inner /\ cur'[r] = NoApp
      BY <1>23 DEF FailSmoke, Loop, TypeOK
    <3>2. Owes(r, b)'
      BY <3>1, <1>a, MissingAssumption DEF Owes, Closing
    <3>3. ASSUME NEW s \in Smokes, s # r
          PROVE  pc'[s] = pc[s] /\ todo'[s] = todo[s] /\ cur'[s] = cur[s]
      BY <1>23, <3>3, Bystander DEF RunStep, SmokeStep, Runs
    <3>. QED BY <3>2, <3>3 DEF Owes
  <2>4. ignored \subseteq ignored' /\ carried \subseteq carried'
    BY <1>23 DEF FailSmoke, history
  <2>. QED BY <2>2, <2>3, <2>4, OwnerStays
<1>24. ASSUME NEW r \in Runs, FailRestore(r) PROVE Owner(b)'
  <2>1. UNCHANGED app /\ Owner(b) /\ r \in Smokes /\ carried' = carried
    BY <1>24, <1>b, Kinds DEF FailRestore, Closing
  <2>2. ASSUME NEW s \in Smokes, s # r
        PROVE  Owes(s, b) \/ pc[s] = "lost" => Owes(s, b)' \/ pc'[s] = "lost"
    <3>1. pc'[s] = pc[s] /\ todo'[s] = todo[s] /\ cur'[s] = cur[s]
      BY <1>24, <2>2, Bystander DEF RunStep, Runs
    <3>. QED BY <3>1 DEF Owes
  <2>3. ASSUME NEW a \in todo[r], pc[r] = "close", cur' = [cur EXCEPT ![r] = a],
               ignored' = ignored \union {<<a, "ingress">>}, Goto(r, "rest")
        PROVE  Owner(b)'
    <3>1. CASE a = b
      BY <2>3, <3>1 DEF Owner
    <3>2. CASE a # b
      <4>1. pc'[r] = "rest" /\ todo'[r] = todo[r] /\ cur'[r] = a
        BY <2>3 DEF Goto, TypeOK
      <4>2. Owes(r, b) => Owes(r, b)'
        BY <2>3, <3>2, <4>1 DEF Owes, Opening, Closing
      <4>3. pc[r] # "lost"
        BY <2>3
      <4>. QED BY <2>1, <2>2, <2>3, <4>2, <4>3, OwnerStays
    <3>. QED BY <3>1, <3>2
  <2>4. ASSUME pc[r] = "rest", ignored' = ignored \union {<<cur[r], "replicas">>},
               Through(r, cur[r], "close"), UNCHANGED cur
        PROVE  Owner(b)'
    <3>1. pc'[r] = "close" /\ todo'[r] = todo[r] \ {cur[r]} /\ cur'[r] = cur[r]
      BY <2>4 DEF Through, TypeOK
    <3>2. Owes(r, b) => Owes(r, b)'
      BY <2>4, <3>1 DEF Owes, Opening, Closing
    <3>. QED BY <2>1, <2>2, <2>4, <3>2, OwnerStays
  <2>5. ASSUME pc[r] \in {"closing", "resting"}, Goto(r, After[pc[r]]), UNCHANGED <<cur, ignored>>
        PROVE  Owner(b)'
    <3>1. pc'[r] \in Closing /\ todo'[r] = todo[r] /\ cur'[r] = cur[r]
      BY <2>5 DEF Goto, After, TypeOK, Closing
    <3>2. Owes(r, b) => Owes(r, b)'
      BY <2>5, <3>1 DEF Owes, Opening, Closing
    <3>. QED BY <2>1, <2>2, <2>5, <3>2, OwnerStays
  <2>. QED BY <1>24, <2>3, <2>4, <2>5 DEF FailRestore
<1>25. ASSUME NEW r \in Runs, Lose(r) PROVE Owner(b)'
  <2>1. UNCHANGED app
    BY <1>25 DEF Lose
  <2>2. Owner(b)
    BY <1>b, <2>1
  <2>3. \A s \in Smokes : Owes(s, b) \/ pc[s] = "lost" => Owes(s, b)' \/ pc'[s] = "lost"
    BY <1>25, Kinds DEF Lose, Loop, Goto, Through, End, history, Owes, TypeOK, Ended, Scaling, Opening, Closing, Deploying
  <2>4. ignored \subseteq ignored' /\ carried \subseteq carried'
    BY <1>25 DEF Lose, history
  <2>. QED BY <2>2, <2>3, <2>4, OwnerStays
<1>26. CASE UNCHANGED vars
  <2>1. UNCHANGED app /\ Owner(b)
    BY <1>26, <1>b DEF vars
  <2>. QED BY <1>26, <2>1, OwnerStays DEF vars, Owes
<1>. QED
  BY <1>1, <1>2, <1>3, <1>4, <1>5, <1>6, <1>7, <1>8, <1>9, <1>10, <1>11, <1>12, <1>13, <1>14, <1>15, <1>16, <1>17, <1>18, <1>19, <1>20, <1>21, <1>22, <1>23, <1>24, <1>25, <1>26 DEF Next, ScaleStep, SmokeStep, DeployStep

(* An app that is kept running was so before, or a smoke run has just      *)
(* started it and answers for it, or the lab is being resumed.             *)
LEMMA MinStep ==
  ASSUME TypeOK, SmokesStayInside, NEW r \in Runs, RunStep(r), NEW b \in Apps,
         app'[b] # Missing, app'[b].min # 0
  PROVE  \/ app[b] # Missing /\ app[b].min # 0
         \/ r \in Smokes /\ OwesRest(r, b)'
         \/ r \in Resumes /\ pc[r] # "idle" /\ pc'[r] # "idle"
<1>1. CASE Start(r)
  BY <1>1 DEF Start
<1>2. CASE Settled(r)
  BY <1>2 DEF Settled
<1>3. CASE Look(r)
  BY <1>3 DEF Look
<1>4. CASE Scale(r)
  <2>1. r \in Resumes \union Shutdowns /\ cur[r] \in Apps /\ pc'[r] = "scaling"
    BY <1>4, Kinds DEF Scale, Scaling, Through, TypeOK, Busy
  <2>2. CASE r \in Resumes
    BY <1>4, <2>1, <2>2 DEF Scale
  <2>3. CASE r \notin Resumes
    <3>1. /\ There(b)
          /\ b # cur[r] => app'[b] = app[b]
          /\ b = cur[r] => app'[b].min = 0
      BY <1>4, <2>1, <2>3, SetMin DEF Scale, Wanted
    <3>. QED BY <3>1 DEF There
  <2>. QED BY <2>2, <2>3
<1>5. CASE LookDone(r)
  BY <1>5 DEF LookDone
<1>6. CASE Wake(r)
  <2>1. PICK a \in todo[r] : /\ Accepts(a) /\ Change(a, [app[a] EXCEPT !.min = 1])
    BY <1>6 DEF Wake
  <2>2. r \in Smokes /\ a \in Apps /\ a \in Inner /\ pc'[r] = "waking"
    BY <1>6, Kinds DEF Wake, Goto, Opening, TypeOK, SmokesStayInside
  <2>3. CASE b = a
    BY <2>2, <2>3 DEF OwesRest, Opening
  <2>4. CASE b # a
    BY <2>1, <2>2, <2>4, SetMin DEF There
  <2>. QED BY <2>3, <2>4
<1>7. CASE Open(r)
  <2>1. cur[r] \in Apps
    BY <1>7 DEF Open, TypeOK, Busy
  <2>. QED BY <1>7, <2>1, SetExternal DEF Open, There, KeptMin
<1>8. CASE WakeDone(r)
  BY <1>8 DEF WakeDone
<1>9. CASE Probe(r)
  BY <1>9 DEF Probe
<1>10. CASE Close(r)
  <2>1. PICK a \in todo[r] : Accepts(a) /\ Change(a, [app[a] EXCEPT !.external = FALSE])
    BY <1>10 DEF Close
  <2>2. a \in Apps
    BY DEF TypeOK
  <2>. QED BY <2>1, <2>2, SetExternal DEF There, KeptMin
<1>11. CASE Rest(r)
  <2>1. cur[r] \in Apps
    BY <1>11 DEF Rest, TypeOK, Busy
  <2>. QED BY <1>11, <2>1, SetMin DEF Rest, There
<1>12. CASE CloseDone(r)
  BY <1>12 DEF CloseDone
<1>13. CASE Inspect(r)
  BY <1>13 DEF Inspect
<1>14. CASE Delete(r)
  BY <1>14 DEF Delete, TypeOK
<1>15. CASE InspectDone(r)
  BY <1>15 DEF InspectDone
<1>16. CASE Apply(r)
  BY <1>16, ApplyEffect
<1>17. CASE ApplyDone(r)
  BY <1>17 DEF ApplyDone
<1>18. CASE Rollout(r)
  BY <1>18 DEF Rollout
<1>19. CASE Patch(r)
  BY <1>19, PatchEffect DEF There, KeptMin
<1>20. CASE RolloutDone(r)
  BY <1>20 DEF RolloutDone
<1>21. CASE Fail(r)
  BY <1>21 DEF Fail
<1>22. CASE FailSmoke(r)
  BY <1>22 DEF FailSmoke
<1>23. CASE FailRestore(r)
  BY <1>23 DEF FailRestore
<1>24. CASE Lose(r)
  BY <1>24 DEF Lose
<1>. QED
  BY <1>1, <1>2, <1>3, <1>4, <1>5, <1>6, <1>7, <1>8, <1>9, <1>10, <1>11, <1>12, <1>13, <1>14, <1>15, <1>16, <1>17, <1>18, <1>19, <1>20, <1>21, <1>22, <1>23, <1>24 DEF RunStep, ScaleStep, SmokeStep, DeployStep

(* A shutdown is through with an app only when it found or made it idle.   *)
LEMMA PassedStep ==
  ASSUME TypeOK, NEW r \in Runs, RunStep(r), NEW b \in Apps, NEW q \in Shutdowns,
         Passed(q, b)', app'[b] # Missing, app'[b].min # 0
  PROVE  Passed(q, b)
<1>. USE LifecycleAssumption
<1>a. q \in Runs /\ q \notin Resumes /\ q \notin Smokes /\ q \notin Deploys
  BY DEF Runs
<1>b. CASE q # r
  BY <1>a, <1>b, Bystander DEF Passed
<1>c. CASE q = r
  <2>1. CASE Start(q)
    BY <1>a, <2>1 DEF Start, First, Loop, Passed, TypeOK, Scaling
  <2>2. CASE Settled(q)
    <3>1. pc[q] = "scaling"
      BY <1>a, <2>2 DEF Settled, After, TypeOK, Ended, Scaling
    <3>2. pc'[q] = "look" /\ todo'[q] = todo[q]
      BY <1>a, <2>2, <3>1 DEF Settled, Goto, After, TypeOK
    <3>. QED BY <3>1, <3>2 DEF Passed, Scaling
  <2>3. CASE Look(q)
    <3>1. pc[q] = "look" /\ UNCHANGED app /\ Wanted(q) = 0
      BY <1>a, <2>3 DEF Look, Wanted
    <3>2. PICK a \in todo[q] :
            \/ app[a].min = 0 /\ Through(q, a, "look")
            \/ Goto(q, "scale")
      BY <2>3, <3>1 DEF Look
    <3>3. CASE app[a].min = 0 /\ Through(q, a, "look")
      BY <1>a, <3>1, <3>3 DEF Through, Passed, TypeOK, Scaling
    <3>4. CASE Goto(q, "scale")
      BY <1>a, <3>1, <3>4 DEF Goto, Passed, TypeOK, Scaling
    <3>. QED BY <3>2, <3>3, <3>4
  <2>4. CASE Scale(q)
    <3>1. pc[q] = "scale" /\ cur[q] \in Apps /\ Wanted(q) = 0
      BY <1>a, <2>4 DEF Scale, TypeOK, Busy, Wanted
    <3>2. b # cur[q]
      BY <2>4, <3>1, SetMin DEF Scale
    <3>. QED BY <1>a, <2>4, <3>1, <3>2 DEF Scale, Through, Passed, TypeOK, Scaling
  <2>5. CASE LookDone(q)
    BY <1>a, <2>5 DEF LookDone, Passed, Scaling
  <2>6. CASE Fail(q)
    BY <1>a, <2>6 DEF Fail, End, Loop, Passed, TypeOK, Scaling
  <2>7. pc[q] \in Ended \union Scaling /\ q \notin Smokes
    BY <1>a DEF TypeOK
  <2>8. ~SmokeStep(q) /\ ~DeployStep(q) /\ ~FailSmoke(q) /\ ~FailRestore(q) /\ ~Lose(q)
    <3>1. ~SmokeStep(q)
      BY <2>7 DEF SmokeStep, Wake, Open, WakeDone, Probe, Close, Rest, CloseDone, Ended, Scaling
    <3>2. ~DeployStep(q)
      BY <2>7 DEF DeployStep, Inspect, Delete, InspectDone, Apply, ApplyDone, Rollout, Patch, RolloutDone, Ended, Scaling
    <3>3. ~FailSmoke(q) /\ ~FailRestore(q) /\ ~Lose(q)
      BY <2>7 DEF FailSmoke, FailRestore, Lose, Opening, Ended, Scaling
    <3>. QED BY <3>1, <3>2, <3>3
  <2>. QED BY <1>c, <2>1, <2>2, <2>3, <2>4, <2>5, <2>6, <2>8 DEF RunStep, ScaleStep
<1>. QED BY <1>b, <1>c


(* Who answers for an app that is kept running after a shutdown.           *)
Keeper(b) ==
  \/ \E r \in Smokes : OwesRest(r, b) \/ pc[r] = "lost"
  \/ <<b, "replicas">> \in ignored

(* A smoke run answers for it until it has scaled the app down, has failed *)
(* to, or is lost.                                                         *)
LEMMA OwesRestStep ==
  ASSUME TypeOK, NEW r \in Smokes, RunStep(r), NEW b \in Apps,
         app'[b] # Missing, app'[b].min # 0, OwesRest(r, b) \/ pc[r] = "lost"
  PROVE  OwesRest(r, b)' \/ pc'[r] = "lost" \/ <<b, "replicas">> \in ignored'
<1>. USE LifecycleAssumption
<1>a. r \in Runs /\ r \notin Resumes /\ r \notin Shutdowns /\ r \notin Deploys
  BY DEF Runs
<1>b. pc[r] \in Opening \/ (pc[r] \in Closing /\ b \in todo[r]) \/ pc[r] = "lost"
  BY DEF OwesRest
<1>c. pc[r] # "lost" => b \in Inner
  BY DEF OwesRest
<1>1. CASE Settled(r)
  <2>1. pc[r] \in {"waking", "opening", "closing", "resting"}
    BY <1>b, <1>1 DEF Settled, After, Opening, Closing
  <2>2. pc'[r] = After[pc[r]] /\ todo'[r] = todo[r]
    BY <1>a, <1>1 DEF Settled, Goto, TypeOK
  <2>3. pc[r] \in Opening => pc'[r] \in Opening
    BY <2>1, <2>2 DEF After, Opening
  <2>4. pc[r] \in Closing => pc'[r] \in Closing
    BY <2>1, <2>2 DEF After, Closing
  <2>. QED BY <1>b, <1>c, <2>1, <2>2, <2>3, <2>4 DEF OwesRest
<1>2. CASE Wake(r) \/ Open(r) \/ WakeDone(r)
  <2>1. pc'[r] \in Opening /\ pc[r] # "lost"
    BY <1>a, <1>2 DEF Wake, Open, WakeDone, Goto, Through, TypeOK, Opening
  <2>. QED BY <1>c, <2>1 DEF OwesRest
<1>3. CASE Probe(r) \/ FailSmoke(r)
  <2>1. pc'[r] = "close" /\ todo'[r] = Inner /\ pc[r] # "lost"
    BY <1>a, <1>3 DEF Probe, FailSmoke, Loop, TypeOK, Opening
  <2>. QED BY <1>c, <2>1 DEF OwesRest, Closing
<1>4. CASE Close(r)
  <2>1. pc'[r] = "closing" /\ todo'[r] = todo[r] /\ pc[r] = "close"
    BY <1>a, <1>4 DEF Close, Goto, TypeOK
  <2>. QED BY <1>b, <1>c, <2>1 DEF OwesRest, Opening, Closing
<1>5. CASE Rest(r)
  <2>1. pc'[r] = "resting" /\ todo'[r] = todo[r] \ {cur[r]} /\ pc[r] = "rest"
    BY <1>a, <1>5 DEF Rest, Through, TypeOK
  <2>2. cur[r] \in Apps
    BY <1>a, <2>1 DEF TypeOK, Busy
  <2>3. b # cur[r]
    BY <1>5, <2>2, SetMin DEF Rest
  <2>. QED BY <1>b, <1>c, <2>1, <2>3 DEF OwesRest, Opening, Closing
<1>6. CASE CloseDone(r)
  BY <1>b, <1>6 DEF CloseDone, Opening
<1>7. CASE FailRestore(r)
  <2>1. ASSUME NEW a \in todo[r], pc[r] = "close", Goto(r, "rest")
        PROVE  OwesRest(r, b)'
    <3>1. pc'[r] = "rest" /\ todo'[r] = todo[r]
      BY <1>a, <2>1 DEF Goto, TypeOK
    <3>. QED BY <1>b, <1>c, <2>1, <3>1 DEF OwesRest, Opening, Closing
  <2>2. ASSUME pc[r] = "rest", ignored' = ignored \union {<<cur[r], "replicas">>},
               Through(r, cur[r], "close")
        PROVE  OwesRest(r, b)' \/ <<b, "replicas">> \in ignored'
    <3>1. pc'[r] = "close" /\ todo'[r] = todo[r] \ {cur[r]}
      BY <1>a, <2>2 DEF Through, TypeOK
    <3>2. CASE b = cur[r]
      BY <2>2, <3>2
    <3>3. CASE b # cur[r]
      BY <1>b, <1>c, <2>2, <3>1, <3>3 DEF OwesRest, Opening, Closing
    <3>. QED BY <3>2, <3>3
  <2>3. ASSUME pc[r] \in {"closing", "resting"}, Goto(r, After[pc[r]])
        PROVE  OwesRest(r, b)'
    <3>1. pc'[r] \in Closing /\ todo'[r] = todo[r]
      BY <1>a, <2>3 DEF Goto, After, TypeOK, Closing
    <3>. QED BY <1>b, <1>c, <2>3, <3>1 DEF OwesRest, Opening, Closing
  <2>. QED BY <1>7, <2>1, <2>2, <2>3 DEF FailRestore
<1>8. CASE Lose(r)
  BY <1>a, <1>8 DEF Lose, End, Loop, TypeOK
<1>9. ~Start(r) /\ ~ScaleStep(r) /\ ~DeployStep(r) /\ ~Fail(r)
  <2>1. pc[r] # "idle" /\ pc[r] \notin Scaling /\ pc[r] \notin Deploying
    BY <1>b DEF Opening, Closing, Scaling, Deploying
  <2>2. ~DeployStep(r)
    BY <2>1 DEF DeployStep, Inspect, Delete, InspectDone, Apply, ApplyDone, Rollout, Patch, RolloutDone, Deploying
  <2>3. ~ScaleStep(r) /\ ~Start(r) /\ ~Fail(r)
    BY <2>1 DEF ScaleStep, Look, Scale, LookDone, Start, Fail, Scaling
  <2>. QED BY <2>2, <2>3
<1>. QED BY <1>1, <1>2, <1>3, <1>4, <1>5, <1>6, <1>7, <1>8, <1>9 DEF RunStep, SmokeStep

(* So a shutdown that is through with an app leaves it idle, or answered   *)
(* for.                                                                    *)
LEMMA ScaledDownStep ==
  ASSUME TypeOK, SmokesStayInside, ScaledDown, [Next]_vars
  PROVE  ScaledDown'
<1>. USE LifecycleAssumption
<1>. SUFFICES ASSUME \A q \in Resumes : pc'[q] = "idle", NEW b \in Apps,
                    app'[b] # Missing, app'[b].min # 0,
                    NEW q \in Shutdowns, Passed(q, b)'
             PROVE  Keeper(b)'
  BY DEF ScaledDown, Keeper
<1>a. (\A p \in Resumes : pc[p] = "idle") /\ app[b] # Missing /\ app[b].min # 0 /\ Passed(q, b)
        => Keeper(b)
  BY DEF ScaledDown, Keeper
<1>1. ASSUME NEW a \in Apps, Settle(a) PROVE Keeper(b)'
  <2>1. app[b] # Missing /\ app[b].min # 0
    BY <1>1, SettleEffect DEF There, KeptMin
  <2>2. UNCHANGED <<pc, todo, ignored>>
    BY <1>1 DEF Settle, history
  <2>. QED BY <1>a, <2>1, <2>2 DEF Keeper, OwesRest, Passed
<1>2. ASSUME NEW r \in Runs, RunStep(r) PROVE Keeper(b)'
  <2>1. \A p \in Resumes : pc[p] = "idle"
    <3>1. ASSUME NEW p \in Resumes, pc[p] # "idle" PROVE FALSE
      <4>1. p \in Runs /\ p = r
        BY <1>2, <3>1, Bystander DEF Runs
      <4>. QED BY <1>2, <3>1, <4>1, NeverIdle
    <3>. QED BY <3>1
  <2>2. ignored \subseteq ignored'
    BY <1>2, HistoryGrows
  <2>3. CASE app[b] # Missing /\ app[b].min # 0
    <3>1. Passed(q, b)
      BY <1>2, PassedStep
    <3>2. Keeper(b)
      BY <1>a, <2>1, <2>3, <3>1
    <3>3. ASSUME NEW s \in Smokes, OwesRest(s, b) \/ pc[s] = "lost"
          PROVE  Keeper(b)'
      <4>1. CASE s = r
        BY <1>2, <3>3, <4>1, OwesRestStep DEF Keeper
      <4>2. CASE s # r
        <5>1. pc'[s] = pc[s] /\ todo'[s] = todo[s]
          BY <1>2, <4>2, Bystander DEF Runs
        <5>. QED BY <3>3, <5>1 DEF Keeper, OwesRest
      <4>. QED BY <4>1, <4>2
    <3>. QED BY <2>2, <3>2, <3>3 DEF Keeper
  <2>4. CASE ~(app[b] # Missing /\ app[b].min # 0)
    <3>1. r \in Smokes /\ OwesRest(r, b)'
      BY <1>2, <2>1, <2>4, MinStep
    <3>. QED BY <3>1 DEF Keeper
  <2>. QED BY <2>3, <2>4
<1>3. CASE UNCHANGED vars
  BY <1>a, <1>3 DEF vars, Keeper, OwesRest, Passed
<1>. QED BY <1>1, <1>2, <1>3, NextRuns


(* Only Start makes a run active.                                          *)
LEMMA ActiveStep ==
  ASSUME TypeOK, NEW r \in Runs, RunStep(r), ~Start(r), pc'[r] \notin Ended
  PROVE  Active(r)
<1>1. CASE Start(r)
  BY <1>1
<1>2. CASE Settled(r)
  BY <1>2 DEF Settled, After, Active, Ended
<1>3. CASE Look(r)
  BY <1>3 DEF Look, Active, Opening, Ended
<1>4. CASE Scale(r)
  BY <1>4 DEF Scale, Active, Opening, Ended
<1>5. CASE LookDone(r)
  BY <1>5 DEF LookDone, Active, Opening, Ended
<1>6. CASE Wake(r)
  BY <1>6 DEF Wake, Active, Opening, Ended
<1>7. CASE Open(r)
  BY <1>7 DEF Open, Active, Opening, Ended
<1>8. CASE WakeDone(r)
  BY <1>8 DEF WakeDone, Active, Opening, Ended
<1>9. CASE Probe(r)
  BY <1>9 DEF Probe, Active, Opening, Ended
<1>10. CASE Close(r)
  BY <1>10 DEF Close, Active, Opening, Ended
<1>11. CASE Rest(r)
  BY <1>11 DEF Rest, Active, Opening, Ended
<1>12. CASE CloseDone(r)
  BY <1>12 DEF CloseDone, Active, Opening, Ended
<1>13. CASE Inspect(r)
  BY <1>13 DEF Inspect, Active, Opening, Ended
<1>14. CASE Delete(r)
  BY <1>14 DEF Delete, Active, Opening, Ended
<1>15. CASE InspectDone(r)
  BY <1>15 DEF InspectDone, Active, Opening, Ended
<1>16. CASE Apply(r)
  BY <1>16 DEF Apply, Active, Opening, Ended
<1>17. CASE ApplyDone(r)
  BY <1>17 DEF ApplyDone, Active, Opening, Ended
<1>18. CASE Rollout(r)
  BY <1>18 DEF Rollout, Active, Opening, Ended
<1>19. CASE Patch(r)
  BY <1>19 DEF Patch, Active, Opening, Ended
<1>20. CASE RolloutDone(r)
  BY <1>20 DEF RolloutDone, Active, Opening, Ended
<1>21. CASE Fail(r)
  BY <1>21 DEF Fail, Active, Opening, Ended
<1>22. CASE FailSmoke(r)
  BY <1>22 DEF FailSmoke, Active, Opening, Ended
<1>23. CASE FailRestore(r)
  BY <1>23 DEF FailRestore, Active, Opening, Ended
<1>24. CASE Lose(r)
  BY <1>24 DEF Lose, Active, Opening, Ended
<1>. QED
  BY <1>1, <1>2, <1>3, <1>4, <1>5, <1>6, <1>7, <1>8, <1>9, <1>10, <1>11, <1>12, <1>13, <1>14, <1>15, <1>16, <1>17, <1>18, <1>19, <1>20, <1>21, <1>22, <1>23, <1>24 DEF RunStep, ScaleStep, SmokeStep, DeployStep

(* Three calls of a deployment aside, nothing creates or deletes an app or *)
(* changes its image.                                                      *)
LEMMA ImageKept ==
  ASSUME TypeOK, NEW r \in Runs, RunStep(r), ~Delete(r), ~Apply(r), ~Patch(r), NEW b \in Apps
  PROVE  There(b) /\ KeptImage(b)
<1>. USE DEF There, KeptImage
<1>1. CASE Start(r)
  BY <1>1 DEF Start
<1>2. CASE Settled(r)
  BY <1>2 DEF Settled
<1>3. CASE Look(r)
  BY <1>3 DEF Look
<1>4. CASE Scale(r)
  <2>1. cur[r] \in Apps /\ Wanted(r) \in {0, 1}
    BY <1>4 DEF Scale, TypeOK, Busy, Wanted
  <2>. QED BY <1>4, <2>1, SetMin DEF Scale
<1>5. CASE LookDone(r)
  BY <1>5 DEF LookDone
<1>6. CASE Wake(r)
  <2>1. PICK a \in todo[r] : Accepts(a) /\ Change(a, [app[a] EXCEPT !.min = 1])
    BY <1>6 DEF Wake
  <2>2. a \in Apps
    BY DEF TypeOK
  <2>. QED BY <2>1, <2>2, SetMin
<1>7. CASE Open(r)
  <2>1. cur[r] \in Apps
    BY <1>7 DEF Open, TypeOK, Busy
  <2>. QED BY <1>7, <2>1, SetExternal DEF Open
<1>8. CASE WakeDone(r)
  BY <1>8 DEF WakeDone
<1>9. CASE Probe(r)
  BY <1>9 DEF Probe
<1>10. CASE Close(r)
  <2>1. PICK a \in todo[r] : Accepts(a) /\ Change(a, [app[a] EXCEPT !.external = FALSE])
    BY <1>10 DEF Close
  <2>2. a \in Apps
    BY DEF TypeOK
  <2>. QED BY <2>1, <2>2, SetExternal
<1>11. CASE Rest(r)
  <2>1. cur[r] \in Apps
    BY <1>11 DEF Rest, TypeOK, Busy
  <2>. QED BY <1>11, <2>1, SetMin DEF Rest
<1>12. CASE CloseDone(r)
  BY <1>12 DEF CloseDone
<1>13. CASE Inspect(r)
  BY <1>13 DEF Inspect
<1>14. CASE Delete(r)
  BY <1>14
<1>15. CASE InspectDone(r)
  BY <1>15 DEF InspectDone
<1>16. CASE Apply(r)
  BY <1>16
<1>17. CASE ApplyDone(r)
  BY <1>17 DEF ApplyDone
<1>18. CASE Rollout(r)
  BY <1>18 DEF Rollout
<1>19. CASE Patch(r)
  BY <1>19
<1>20. CASE RolloutDone(r)
  BY <1>20 DEF RolloutDone
<1>21. CASE Fail(r)
  BY <1>21 DEF Fail
<1>22. CASE FailSmoke(r)
  BY <1>22 DEF FailSmoke
<1>23. CASE FailRestore(r)
  BY <1>23 DEF FailRestore
<1>24. CASE Lose(r)
  BY <1>24 DEF Lose
<1>. QED
  BY <1>1, <1>2, <1>3, <1>4, <1>5, <1>6, <1>7, <1>8, <1>9, <1>10, <1>11, <1>12, <1>13, <1>14, <1>15, <1>16, <1>17, <1>18, <1>19, <1>20, <1>21, <1>22, <1>23, <1>24 DEF RunStep, ScaleStep, SmokeStep, DeployStep

(* No call but a deletion takes a service's image from an app.             *)
LEMMA ImageStep ==
  ASSUME TypeOK, NEW r \in Runs, RunStep(r), ~Delete(r), NEW b \in Apps,
         app[b] # Missing, app[b].image = "service"
  PROVE  app'[b] # Missing /\ app'[b].image = "service"
<1>1. CASE Apply(r)
  BY <1>1, ApplyEffect DEF KeptImage
<1>2. CASE Patch(r)
  <2>1. CASE b = cur[r]
    BY <1>2, <2>1, PatchEffect
  <2>2. CASE b # cur[r]
    BY <1>2, <2>2, PatchEffect
  <2>. QED BY <2>1, <2>2
<1>3. CASE ~Apply(r) /\ ~Patch(r)
  BY <1>3, ImageKept DEF There, KeptImage
<1>. QED BY <1>1, <1>2, <1>3

(* A rollout's own step leaves its service's image on what it is through   *)
(* with.                                                                   *)
LEMMA RolloutStep ==
  ASSUME TypeOK, NEW d \in Deploys, RunStep(d), pc'[d] \in RollingOut,
         pc[d] \in RollingOut =>
           \A a \in Apps \ todo[d] : app[a] # Missing /\ app[a].image = "service",
         NEW b \in Apps \ todo'[d]
  PROVE  app'[b] # Missing /\ app'[b].image = "service"
<1>. USE LifecycleAssumption
<1>a. d \in Runs /\ d \notin Resumes /\ d \notin Shutdowns /\ d \notin Smokes
  BY DEF Runs
<1>1. CASE Settled(d)
  <2>1. pc'[d] = After[pc[d]] /\ todo'[d] = todo[d] /\ UNCHANGED app /\ pc[d] \in DOMAIN After
    BY <1>a, <1>1 DEF Settled, Goto, TypeOK
  <2>2. pc[d] = "polling"
    BY <2>1 DEF After, RollingOut
  <2>. QED BY <2>1, <2>2 DEF RollingOut
<1>2. CASE Rollout(d)
  <2>1. pc[d] = "rollout" /\ todo'[d] = todo[d] /\ UNCHANGED app
    BY <1>a, <1>2 DEF Rollout, Goto
  <2>. QED BY <2>1 DEF RollingOut
<1>3. CASE Patch(d)
  <2>1. pc[d] = "patch" /\ todo'[d] = todo[d] \ {cur[d]}
    BY <1>a, <1>3 DEF Patch, Through, TypeOK
  <2>2. CASE b = cur[d]
    BY <1>a, <1>3, <2>2, PatchEffect
  <2>3. CASE b # cur[d]
    <3>1. app[b] # Missing /\ app[b].image = "service" /\ app'[b] = app[b]
      BY <1>a, <1>3, <2>1, <2>3, PatchEffect DEF RollingOut
    <3>. QED BY <3>1
  <2>. QED BY <2>2, <2>3
<1>4. CASE ApplyDone(d)
  <2>1. CASE Loop(d, "rollout", Apps)
    BY <1>a, <2>1 DEF Loop, TypeOK
  <2>2. CASE End(d, "applied")
    BY <1>a, <2>2 DEF End, Loop, TypeOK, RollingOut
  <2>. QED BY <1>4, <2>1, <2>2 DEF ApplyDone
<1>5. CASE Start(d)
  BY <1>a, <1>5 DEF Start, First, Loop, TypeOK, RollingOut
<1>6. CASE Inspect(d) \/ Delete(d) \/ InspectDone(d) \/ Apply(d)
  <2>1. pc'[d] \in {"inspect", "delete", "apply", "applying"}
    BY <1>a, <1>6 DEF Inspect, Delete, InspectDone, Apply, Loop, Goto, Through, TypeOK
  <2>. QED BY <2>1 DEF RollingOut
<1>7. CASE RolloutDone(d) \/ Fail(d) \/ Lose(d)
  BY <1>a, <1>7 DEF RolloutDone, Fail, Lose, End, Loop, TypeOK, RollingOut
<1>8. ~ScaleStep(d) /\ ~SmokeStep(d) /\ ~FailSmoke(d) /\ ~FailRestore(d)
  <2>1. pc[d] \in Ended \union Deploying
    BY DEF TypeOK
  <2>2. ~ScaleStep(d) /\ ~FailSmoke(d) /\ ~FailRestore(d)
    BY <2>1 DEF ScaleStep, Look, Scale, LookDone, FailSmoke, FailRestore, Opening, Ended, Deploying
  <2>3. ~SmokeStep(d)
    BY <2>1 DEF SmokeStep, Wake, Open, WakeDone, Probe, Close, Rest, CloseDone, Ended, Deploying
  <2>. QED BY <2>2, <2>3
<1>. QED BY <1>1, <1>2, <1>3, <1>4, <1>5, <1>6, <1>7, <1>8 DEF RunStep, DeployStep

(* Deployments of one ref take turns, and what a rollout has done stays.   *)
LEMMA RolledOutStep ==
  ASSUME TypeOK, RolledOut, [Next]_vars
  PROVE  RolledOut'
<1>. USE LifecycleAssumption
<1>. SUFFICES ASSUME OneGroup
             PROVE  /\ \A d, e \in Deploys : pc'[d] \notin Ended /\ pc'[e] \notin Ended => d = e
                    /\ \A d \in Deploys : pc'[d] \in RollingOut =>
                         \A b \in Apps \ todo'[d] : app'[b] # Missing /\ app'[b].image = "service"
  BY DEF RolledOut, OneGroup, Active
<1>a. /\ \A d, e \in Deploys : Active(d) /\ Active(e) => d = e
      /\ \A d \in Deploys : pc[d] \in RollingOut =>
           \A b \in Apps \ todo[d] : app[b] # Missing /\ app[b].image = "service"
  BY DEF RolledOut
<1>1. ASSUME NEW a \in Apps, Settle(a)
      PROVE  /\ UNCHANGED <<pc, todo>>
             /\ \A b \in Apps : app[b] # Missing /\ app[b].image = "service" =>
                                  app'[b] # Missing /\ app'[b].image = "service"
  <2>1. UNCHANGED <<pc, todo>>
    BY <1>1 DEF Settle
  <2>. QED BY <1>1, <2>1, SettleEffect DEF There, KeptImage
<1>2. ASSUME NEW r \in Runs, RunStep(r), NEW d \in Deploys, NEW e \in Deploys,
             pc'[d] \notin Ended, pc'[e] \notin Ended
      PROVE  d = e
  <2>1. ASSUME NEW x \in Deploys, NEW y \in Deploys, x = r, y # r,
               pc'[x] \notin Ended, pc'[y] \notin Ended
        PROVE  FALSE
    <3>1. Active(y)
      BY <1>2, <2>1, Bystander DEF Active, Runs
    <3>2. CASE Start(r)
      BY <2>1, <3>1, <3>2 DEF Start, Grouped, OneGroup
    <3>3. CASE ~Start(r)
      BY <1>2, <1>a, <2>1, <3>1, <3>3, ActiveStep
    <3>. QED BY <3>2, <3>3
  <2>2. CASE d # r /\ e # r
    <3>1. Active(d) /\ Active(e)
      BY <1>2, <2>2, Bystander DEF Active, Runs
    <3>. QED BY <1>a, <3>1
  <2>. QED BY <1>2, <2>1, <2>2
<1>3. ASSUME NEW r \in Runs, RunStep(r), NEW d \in Deploys, pc'[d] \in RollingOut,
             NEW b \in Apps \ todo'[d]
      PROVE  app'[b] # Missing /\ app'[b].image = "service"
  <2>1. CASE d = r
    BY <1>3, <1>a, <2>1, RolloutStep
  <2>2. CASE d # r
    <3>1. pc'[d] = pc[d] /\ todo'[d] = todo[d]
      BY <1>3, <2>2, Bystander DEF Runs
    <3>2. app[b] # Missing /\ app[b].image = "service"
      BY <1>3, <1>a, <3>1
    <3>3. ~Delete(r)
      <4>1. SUFFICES ASSUME Delete(r) PROVE FALSE
        OBVIOUS
      <4>2. r \in Deploys /\ Active(r)
        BY <4>1, Kinds DEF Delete, Active, Deploying, Ended
      <4>3. Active(d)
        BY <1>3, <3>1 DEF Active, RollingOut, Ended
      <4>. QED BY <1>a, <2>2, <4>2, <4>3
    <3>. QED BY <1>3, <3>2, <3>3, ImageStep
  <2>. QED BY <2>1, <2>2
<1>4. CASE UNCHANGED vars
  BY <1>a, <1>4 DEF vars, Active
<1>5. CASE \E a \in Apps : Settle(a)
  BY <1>1, <1>5, <1>a DEF Active
<1>. QED BY <1>2, <1>3, <1>4, <1>5, NextRuns


(* The lab may be in any settled state when the first run starts.          *)
LEMMA InitIInv ==
  Init => IInv
<1>. SUFFICES ASSUME Init PROVE IInv
  OBVIOUS
<1>. USE LifecycleAssumption
<1>1. \A r \in Runs : pc[r] = "idle" /\ todo[r] = {} /\ cur[r] = NoApp /\ seen[r] = FALSE
  BY DEF Init
<1>2. TypeOK
  BY <1>1 DEF Init, TypeOK, Runs, Ended, Busy
<1>3. SmokesStayInside
  BY <1>1 DEF SmokesStayInside, Runs
<1>4. ExposureEnds
  BY DEF Init, ExposureEnds, Declared
<1>5. ScaledDown
  BY <1>1 DEF ScaledDown, Passed, Runs, Scaling
<1>6. RolledOut
  BY <1>1 DEF RolledOut, Active, RollingOut, Ended, Runs
<1>. QED BY <1>2, <1>3, <1>4, <1>5, <1>6 DEF IInv

(* The inductive invariant: the types, the smoke runs' loops, who answers  *)
(* for what is external or kept running, and how far each loop has come.   *)
THEOREM Inductive ==
  Spec => []IInv
<1>1. IInv /\ [Next]_vars => IInv'
  BY TypeOKStep, InsideStep, ExposureStep, ScaledDownStep, RolledOutStep DEF IInv
<1>. QED BY InitIInv, <1>1, PTL DEF Spec

(* Every workflow makes only its own calls, for an app that exists to it.  *)
THEOREM TypeCorrect ==
  Spec => []TypeOK
<1>1. IInv => TypeOK
  BY DEF IInv
<1>. QED BY <1>1, Inductive, PTL

(* For any number of overlapping runs of the four workflows, an inner app  *)
(* is external only while a smoke run still has to close it, or after one  *)
(* of the three ways in which the code lets that go wrong.                 *)
THEOREM ExposureAnswered ==
  Spec => []ExposureEnds
<1>1. IInv => ExposureEnds
  BY DEF IInv
<1>. QED BY <1>1, Inductive, PTL

(* A shutdown that ended well leaves nothing running that no resume and no *)
(* smoke run answers for.                                                  *)
THEOREM ShutdownHolds ==
  Spec => []ShutdownSticks
<1>1. IInv => ShutdownSticks
  <2>. SUFFICES ASSUME IInv, NEW q \in Shutdowns, pc[q] = "done",
                       \A r \in Resumes : pc[r] = "idle",
                       NEW a \in Apps, app[a] # Missing, app[a].min # 0
                PROVE  \/ \E r \in Smokes : Active(r) \/ pc[r] = "lost"
                       \/ <<a, "replicas">> \in ignored
    BY DEF ShutdownSticks
  <2>1. Passed(q, a)
    BY DEF Passed
  <2>2. Keeper(a)
    BY <2>1 DEF IInv, ScaledDown, Keeper
  <2>3. \A r \in Smokes : OwesRest(r, a) => Active(r)
    BY DEF OwesRest, Active, Opening, Closing, Ended
  <2>. QED BY <2>2, <2>3 DEF Keeper
<1>. QED BY <1>1, Inductive, PTL

(* A smoke run that is alone has up what it is through with: nobody else   *)
(* takes a step, and its own touch the app it is at.                       *)
LEMMA OpenedStep ==
  ASSUME TypeOK, SmokesStayInside, Opened, [Next]_vars
  PROVE  Opened'
<1>. USE LifecycleAssumption, MissingAssumption
<1>. DEFINE Good(r) ==
       /\ \A a \in Inner \ todo[r] : Up(a)
       /\ pc[r] \in {"waking", "open"} =>
            cur[r] \in Inner /\ app[cur[r]] # Missing /\ app[cur[r]].min = 1
       /\ pc[r] = "probe" => todo[r] = {}
<1>. SUFFICES ASSUME NEW r \in Smokes, pc'[r] \in Opening, Alone(r)'
              PROVE  Good(r)'
  BY DEF Opened
<1>0. r \in Runs /\ todo[r] \subseteq Inner /\ pc[r] \in Ended \union Opening \union Closing
  BY DEF Runs, SmokesStayInside, TypeOK
<1>1. CASE UNCHANGED vars
  BY <1>1 DEF vars, Opened, Alone, Up
<1>2. ASSUME NEW b \in Apps, Settle(b) PROVE Good(r)'
  <2>1. UNCHANGED <<pc, todo, cur>>
    BY <1>2 DEF Settle
  <2>2. Good(r)
    BY <2>1 DEF Opened, Alone
  <2>3. \A a \in Inner : There(a) /\ KeptMin(a) /\ KeptExternal(a)
    BY <1>2, SettleEffect
  <2>. QED BY <2>1, <2>2, <2>3 DEF There, KeptMin, KeptExternal, Up
<1>3. ASSUME RunStep(r) PROVE Good(r)'
  <2>0. Alone(r)
    BY <1>0, <1>3, Bystander DEF Alone
  <2>1. CASE Start(r)
    BY <1>0, <2>1 DEF Start, First, Loop, TypeOK
  <2>2. CASE Settled(r)
    <3>1. /\ pc[r] \in {"waking", "opening"} /\ pc'[r] = After[pc[r]]
          /\ UNCHANGED <<app, todo, cur>>
      <4>1. pc[r] \in DOMAIN After /\ pc'[r] = After[pc[r]] /\ UNCHANGED <<app, todo, cur>>
        BY <1>0, <2>2 DEF Settled, Goto, TypeOK
      <4>. QED BY <4>1, <1>0 DEF After, Opening
    <3>2. Good(r) /\ pc'[r] # "probe" /\ (pc'[r] \in {"waking", "open"} => pc[r] = "waking")
      BY <2>0, <3>1 DEF Opened, Opening, After
    <3>. QED BY <3>1, <3>2 DEF Up
  <2>3. CASE Wake(r)
    <3>1. PICK b \in todo[r] : /\ Accepts(b) /\ cur' = [cur EXCEPT ![r] = b]
                               /\ Change(b, [app[b] EXCEPT !.min = 1])
      BY <2>3 DEF Wake
    <3>2. pc'[r] = "waking" /\ todo' = todo /\ cur'[r] = b /\ b \in Inner /\ Good(r)
      BY <1>0, <2>0, <2>3, <3>1 DEF Wake, Goto, Opened, Opening, TypeOK
    <3>3. \A a \in Inner \ todo[r] : app'[a] = app[a]
      BY <3>1, <3>2, SetMin
    <3>4. There(b) /\ app'[b].min = 1
      BY <3>1, <3>2, SetMin
    <3>. QED BY <3>1, <3>2, <3>3, <3>4 DEF There, Accepts, Up
  <2>4. CASE Open(r)
    <3>. DEFINE b == cur[r]
    <3>1. Good(r) /\ b \in Inner /\ app[b].min = 1 /\ app[b] # Missing
      BY <2>0, <2>4 DEF Open, Opened, Opening
    <3>2. /\ pc'[r] = "opening" /\ todo'[r] = todo[r] \ {b}
          /\ Accepts(b) /\ Change(b, [app[b] EXCEPT !.external = TRUE])
      BY <1>0, <2>4 DEF Open, Through, TypeOK
    <3>3. \A a \in Inner \ {b} : app'[a] = app[a]
      BY <3>1, <3>2, SetExternal
    <3>4. There(b) /\ KeptMin(b) /\ app'[b].external = TRUE
      BY <3>1, <3>2, SetExternal
    <3>. QED BY <3>1, <3>2, <3>3, <3>4 DEF There, KeptMin, Up
  <2>5. CASE WakeDone(r)
    <3>1. Good(r) /\ pc'[r] = "probe" /\ todo[r] = {} /\ UNCHANGED <<app, todo, cur>>
      BY <1>0, <2>0, <2>5 DEF WakeDone, Goto, Opened, Opening, TypeOK
    <3>. QED BY <3>1 DEF Up
  <2>6. ~ScaleStep(r) /\ ~DeployStep(r)
    BY <1>0 DEF ScaleStep, Look, Scale, LookDone, DeployStep, Inspect, Delete, InspectDone, Apply,
                ApplyDone, Rollout, Patch, RolloutDone, Ended, Opening, Closing
  <2>7. ~Probe(r) /\ ~Close(r) /\ ~Rest(r) /\ ~CloseDone(r)
    BY <1>0 DEF Probe, Close, Rest, CloseDone, Loop, Goto, Through, End, Opening, TypeOK
  <2>8. ~Fail(r) /\ ~FailSmoke(r) /\ ~Lose(r)
    BY <1>0 DEF Fail, FailSmoke, Lose, Loop, End, Opening, TypeOK
  <2>9. ~FailRestore(r)
    <3>. SUFFICES ASSUME FailRestore(r) PROVE FALSE
      OBVIOUS
    <3>1. CASE pc[r] \in {"closing", "resting"}
      BY <1>0, <3>1 DEF FailRestore, Goto, After, Opening, TypeOK
    <3>2. CASE pc[r] = "close"
      BY <1>0, <3>2 DEF FailRestore, Goto, Opening, TypeOK
    <3>3. CASE pc[r] = "rest"
      BY <1>0, <3>3 DEF FailRestore, Through, Opening, TypeOK
    <3>. QED BY <3>1, <3>2, <3>3 DEF FailRestore
  <2>. QED BY <1>3, <2>1, <2>2, <2>3, <2>4, <2>5, <2>6, <2>7, <2>8, <2>9 DEF RunStep, SmokeStep
<1>4. ASSUME NEW q \in Runs, q # r, RunStep(q) PROVE FALSE
  BY <1>4, NeverIdle DEF Alone
<1>. QED BY <1>1, <1>2, <1>3, <1>4, NextRuns

(* A smoke run that has had the lab to itself finds the inner apps up when *)
(* it probes them.                                                         *)
THEOREM ProbesFindOpen ==
  Spec => []OpenWhenProbed
<1>1. Init => Opened
  BY LifecycleAssumption DEF Init, Opened, Opening, Runs
<1>2. IInv /\ Opened /\ [Next]_vars => Opened'
  BY OpenedStep DEF IInv
<1>3. Opened => OpenWhenProbed
  BY DEF Opened, OpenWhenProbed, Opening
<1>. QED BY <1>1, <1>2, <1>3, Inductive, PTL DEF Spec

(* A deployment that ends well leaves every app with its service's image.  *)
THEOREM RolloutsComplete ==
  Spec => RolloutCompletes
<1>1. IInv /\ [Next]_vars =>
        [OneGroup => \A d \in Deploys : pc[d] # "done" /\ pc'[d] = "done" =>
           \A a \in Apps : app'[a] # Missing /\ app'[a].image = "service"]_vars
  <2>. SUFFICES ASSUME IInv, Next, OneGroup, NEW d \in Deploys,
                       pc[d] # "done", pc'[d] = "done", NEW a \in Apps
                PROVE  app'[a] # Missing /\ app'[a].image = "service"
    OBVIOUS
  <2>. USE LifecycleAssumption
  <2>1. TypeOK /\ RolledOut /\ d \in Runs /\ d \notin Smokes /\ pc[d] \in Ended \union Deploying
    BY DEF IInv, TypeOK, Runs
  <2>2. PICK r \in Runs : RunStep(r)
    BY NextRuns DEF Settle
  <2>3. r = d
    BY <2>1, <2>2, Bystander
  <2>4. RolloutDone(d)
    <3>1. ~ScaleStep(d) /\ ~SmokeStep(d) /\ ~FailSmoke(d) /\ ~FailRestore(d)
      <4>1. ~ScaleStep(d) /\ ~FailSmoke(d) /\ ~FailRestore(d)
        BY <2>1 DEF ScaleStep, Look, Scale, LookDone, FailSmoke, FailRestore, Opening, Ended, Deploying
      <4>2. ~SmokeStep(d)
        BY <2>1 DEF SmokeStep, Wake, Open, WakeDone, Probe, Close, Rest, CloseDone, Ended, Deploying
      <4>. QED BY <4>1, <4>2
    <3>2. ~Start(d) /\ ~Fail(d) /\ ~Lose(d)
      BY <2>1 DEF Start, First, Fail, Lose, End, Loop, TypeOK
    <3>3. ~Settled(d)
      <4>1. Settled(d) => pc[d] \in DOMAIN After /\ pc'[d] = After[pc[d]]
        BY <2>1 DEF Settled, Goto, TypeOK
      <4>. QED BY <4>1 DEF After
    <3>4. ~Inspect(d) /\ ~Delete(d) /\ ~InspectDone(d) /\ ~Apply(d) /\ ~ApplyDone(d)
      BY <2>1 DEF Inspect, Delete, InspectDone, Apply, ApplyDone, End, Loop, Goto, Through, TypeOK
    <3>5. ~Rollout(d) /\ ~Patch(d)
      BY <2>1 DEF Rollout, Patch, Goto, Through, TypeOK
    <3>. QED BY <2>2, <2>3, <3>1, <3>2, <3>3, <3>4, <3>5 DEF RunStep, DeployStep
  <2>5. pc[d] = "rollout" /\ todo[d] = {} /\ UNCHANGED app
    BY <2>4 DEF RolloutDone
  <2>. QED BY <2>1, <2>5 DEF RolledOut, RollingOut
<1>. QED BY <1>1, Inductive, PTL DEF Spec, RolloutCompletes, OneGroup

(* The image of an app, if there is one.                                   *)
ImageOf(a) == IF app[a] = Missing THEN "absent" ELSE app[a].image

(* What DeployPipeline takes the steps of a deployment to do to an app, and *)
(* all others to leave alone, is what the calls of the four workflows do:  *)
(* an image changes when an apply creates a missing app with the           *)
(* placeholder, when a rollout patches an app that exists, and when a      *)
(* deployment deletes the one it is at, by these calls alone.              *)
THEOREM ImageCalls ==
  Spec => [][\A a \in Apps : ImageOf(a)' # ImageOf(a) =>
               \E d \in Deploys :
                 \/ Apply(d) /\ ImageOf(a) = "absent" /\ ImageOf(a)' = "placeholder"
                 \/ Patch(d) /\ a = cur[d] /\ ImageOf(a) # "absent" /\ ImageOf(a)' = "service"
                 \/ Delete(d) /\ a = cur[d] /\ ImageOf(a)' = "absent"]_vars
<1>. DEFINE Caused(a) ==
       \E d \in Deploys :
         \/ Apply(d) /\ ImageOf(a) = "absent" /\ ImageOf(a)' = "placeholder"
         \/ Patch(d) /\ a = cur[d] /\ ImageOf(a) # "absent" /\ ImageOf(a)' = "service"
         \/ Delete(d) /\ a = cur[d] /\ ImageOf(a)' = "absent"
<1>. USE MissingAssumption
<1>1. ASSUME TypeOK, NEW a \in Apps, There(a), KeptImage(a) PROVE ImageOf(a)' = ImageOf(a)
  BY <1>1 DEF There, KeptImage, ImageOf
<1>2. ASSUME TypeOK, NEW r \in Runs, RunStep(r), NEW a \in Apps, ImageOf(a)' # ImageOf(a)
      PROVE  Caused(a)
  <2>1. CASE Apply(r)
    <3>1. r \in Deploys
      BY <1>2, <2>1, Kinds DEF Apply, Deploying
    <3>2. app[a] # Missing => app'[a] # Missing /\ KeptImage(a)
      BY <1>2, <2>1, ApplyEffect
    <3>3. app[a] = Missing
      BY <1>2, <3>2 DEF KeptImage, ImageOf
    <3>4. app'[a] = Missing \/ app'[a].image = "placeholder"
      <4>1. PICK b \in todo[r] :
              \/ app[b] = Missing /\ app' = [app EXCEPT ![b] = Created(b)]
              \/ UNCHANGED app
              \/ Accepts(b) /\ \E x : Change(b, x)
        BY <2>1 DEF Apply
      <4>2. Created(b).image = "placeholder"
        BY DEF Created
      <4>3. app'[a] = app[a] \/ app'[a] = Created(b)
        BY <1>2, <3>3, <4>1 DEF Change, Accepts, TypeOK
      <4>. QED BY <3>3, <4>2, <4>3
    <3>. QED BY <1>2, <2>1, <3>1, <3>3, <3>4 DEF ImageOf
  <2>2. CASE Patch(r)
    <3>1. r \in Deploys
      BY <1>2, <2>2, Kinds DEF Patch, Deploying
    <3>2. a = cur[r]
      <4>1. a # cur[r] => app'[a] = app[a]
        BY <1>2, <2>2, PatchEffect
      <4>. QED BY <1>2, <4>1 DEF ImageOf
    <3>3. app[a] # Missing /\ app'[a] # Missing /\ app'[a].image = "service"
      BY <1>2, <2>2, <3>2, PatchEffect DEF There
    <3>4. app[a].image # "absent"
      BY <1>2, <3>3 DEF TypeOK, App
    <3>. QED BY <2>2, <3>1, <3>2, <3>3, <3>4 DEF ImageOf
  <2>3. CASE Delete(r)
    <3>1. r \in Deploys
      BY <1>2, <2>3, Kinds DEF Delete, Deploying
    <3>2. app'[a] = IF a = cur[r] THEN Missing ELSE app[a]
      BY <1>2, <2>3 DEF Delete, TypeOK
    <3>. QED BY <1>2, <2>3, <3>1, <3>2 DEF ImageOf
  <2>4. CASE ~Apply(r) /\ ~Patch(r) /\ ~Delete(r)
    BY <1>1, <1>2, <2>4, ImageKept
  <2>. QED BY <2>1, <2>2, <2>3, <2>4
<1>3. ASSUME TypeOK, NEW b \in Apps, Settle(b), NEW a \in Apps PROVE ImageOf(a)' = ImageOf(a)
  BY <1>1, <1>3, SettleEffect
<1>4. TypeOK /\ [Next]_vars => [\A a \in Apps : ImageOf(a)' # ImageOf(a) => Caused(a)]_vars
  <2>. SUFFICES ASSUME TypeOK, Next, NEW a \in Apps, ImageOf(a)' # ImageOf(a) PROVE Caused(a)
    OBVIOUS
  <2>. QED BY <1>2, <1>3, NextRuns
<1>. QED BY <1>4, TypeCorrect, PTL DEF Spec

(* The lab is undisturbed while no smoke run and no other deployment is on *)
(* between a rollout's read of an app and its patch of it.                 *)
Undisturbed ==
  \A d \in Deploys : pc[d] = "patch" =>
    \A r \in (Smokes \union Deploys) \ {d} : ~Active(r)

(* The ingress a rollout has read as external is external still.           *)
SeenStands ==
  \A d \in Deploys : pc[d] = "patch" /\ seen[d] =>
    app[cur[d]] # Missing /\ app[cur[d]].external

(* A run that starts changes no app; resumes and shutdowns change no       *)
(* ingress.                                                                *)
LEMMA IngressKept ==
  ASSUME TypeOK, NEW r \in Runs, RunStep(r), r \in Resumes \union Shutdowns \/ ~Active(r),
         NEW b \in Apps
  PROVE  There(b) /\ KeptExternal(b)
<1>. USE LifecycleAssumption
<1>1. CASE UNCHANGED app
  BY <1>1 DEF There, KeptExternal
<1>2. CASE Scale(r)
  <2>1. cur[r] \in Apps /\ Wanted(r) \in {0, 1}
    BY <1>2 DEF Scale, TypeOK, Busy, Wanted
  <2>. QED BY <1>2, <2>1, SetMin DEF Scale
<1>3. CASE Start(r) \/ Settled(r)
  BY <1>1, <1>3 DEF Start, Settled
<1>4. CASE Look(r) \/ LookDone(r)
  BY <1>1, <1>4 DEF Look, LookDone
<1>5. CASE Fail(r) \/ FailSmoke(r) \/ FailRestore(r) \/ Lose(r)
  BY <1>1, <1>5 DEF Fail, FailSmoke, FailRestore, Lose
<1>6. pc[r] \in Ended \union Scaling
  BY DEF TypeOK, Active
<1>7. ~SmokeStep(r)
  BY <1>6 DEF SmokeStep, Wake, Open, WakeDone, Probe, Close, Rest, CloseDone, Ended, Scaling
<1>8. ~DeployStep(r)
  BY <1>6 DEF DeployStep, Inspect, Delete, InspectDone, Apply, ApplyDone, Rollout, Patch,
              RolloutDone, Ended, Scaling
<1>. QED BY <1>2, <1>3, <1>4, <1>5, <1>7, <1>8 DEF RunStep, ScaleStep

(* Only its read of an app brings a rollout to the patch.                  *)
LEMMA ReadFirst ==
  ASSUME TypeOK, NEW d \in Deploys, RunStep(d), pc'[d] = "patch"
  PROVE  Rollout(d)
<1>. USE LifecycleAssumption
<1>a. d \in Runs /\ d \notin Smokes /\ pc[d] \in Ended \union Deploying
  BY DEF Runs, TypeOK
<1>1. ~Settled(d)
  <2>1. Settled(d) => pc[d] \in DOMAIN After /\ pc'[d] = After[pc[d]]
    BY <1>a DEF Settled, Goto, TypeOK
  <2>. QED BY <2>1 DEF After
<1>2. ~Start(d) /\ ~Fail(d) /\ ~Lose(d)
  BY <1>a DEF Start, First, Fail, Lose, End, Loop, TypeOK
<1>3. ~ScaleStep(d) /\ ~FailSmoke(d) /\ ~FailRestore(d)
  BY <1>a DEF ScaleStep, Look, Scale, LookDone, FailSmoke, FailRestore, Opening, Ended, Deploying
<1>4. ~SmokeStep(d)
  BY <1>a DEF SmokeStep, Wake, Open, WakeDone, Probe, Close, Rest, CloseDone, Ended, Deploying
<1>5. ~Inspect(d) /\ ~Delete(d) /\ ~InspectDone(d) /\ ~Apply(d) /\ ~ApplyDone(d)
  BY <1>a DEF Inspect, Delete, InspectDone, Apply, ApplyDone, End, Loop, Goto, Through, TypeOK
<1>6. ~Patch(d) /\ ~RolloutDone(d)
  BY <1>a DEF Patch, RolloutDone, End, Loop, Through, TypeOK
<1>. QED BY <1>1, <1>2, <1>3, <1>4, <1>5, <1>6 DEF RunStep, DeployStep

(* What an undisturbed rollout writes back is what is there.               *)
LEMMA SeenStep ==
  ASSUME TypeOK, Undisturbed, SeenStands, carried = {}, [Next]_vars
  PROVE  SeenStands' /\ carried' = {}
<1>. USE LifecycleAssumption
<1>1. ASSUME NEW a \in Apps, Settle(a) PROVE SeenStands' /\ carried' = {}
  <2>1. UNCHANGED <<pc, cur, seen, carried>>
    BY <1>1 DEF Settle, history
  <2>2. \A d \in Deploys : pc[d] = "patch" => cur[d] \in Apps
    BY DEF TypeOK, Busy, Runs
  <2>3. \A b \in Apps : There(b) /\ KeptExternal(b)
    BY <1>1, SettleEffect
  <2>. QED BY <2>1, <2>2, <2>3 DEF SeenStands, There, KeptExternal
<1>2. ASSUME NEW r \in Runs, RunStep(r) PROVE carried' = {}
  <2>1. CASE Patch(r)
    <3>1. r \in Deploys
      BY <2>1, Kinds DEF Patch, Deploying
    <3>. QED BY <2>1, <3>1 DEF Patch, SeenStands
  <2>. QED BY <1>2, <2>1, HistoryGrows
<1>3. ASSUME NEW r \in Runs, RunStep(r), NEW d \in Deploys, pc'[d] = "patch", seen'[d]
      PROVE  app'[cur'[d]] # Missing /\ app'[cur'[d]].external
  <2>1. CASE d = r
    BY <1>3, <2>1, ReadFirst DEF Rollout, TypeOK
  <2>2. CASE d # r
    <3>1. pc[d] = "patch" /\ cur'[d] = cur[d] /\ seen[d]
      BY <1>3, <2>2, Bystander DEF Runs
    <3>2. cur[d] \in Apps /\ app[cur[d]] # Missing /\ app[cur[d]].external
      BY <3>1 DEF TypeOK, Busy, Runs, SeenStands
    <3>3. r \in Resumes \union Shutdowns \/ ~Active(r)
      BY <2>2, <3>1 DEF Undisturbed, Runs
    <3>. QED BY <1>3, <3>1, <3>2, <3>3, IngressKept DEF There, KeptExternal
  <2>. QED BY <2>1, <2>2
<1>4. CASE UNCHANGED vars
  BY <1>4 DEF vars, SeenStands
<1>. QED BY <1>1, <1>2, <1>3, <1>4, NextRuns DEF SeenStands

(* Networking between the services is internal again once every run has    *)
(* ended, none was lost and every restoring call succeeded, provided no    *)
(* smoke run and no other deployment was on between a rollout's read of an *)
(* app and its patch.  The code provides for nothing of the kind, and      *)
(* RestoredMeansInternal fails; this is all it fails by.                   *)
THEOREM RestoredUndisturbed ==
  Spec /\ []Undisturbed => []RestoredMeansInternal
<1>1. Init => SeenStands /\ carried = {}
  BY DEF Init, SeenStands, Runs
<1>2. IInv /\ Undisturbed /\ (SeenStands /\ carried = {}) /\ [Next]_vars =>
        (SeenStands /\ carried = {})'
  BY SeenStep DEF IInv
<1>3. IInv /\ carried = {} => RestoredMeansInternal
  <2>. SUFFICES ASSUME IInv, carried = {} PROVE RestoredMeansInternal
    OBVIOUS
  <2>1. \A a \in Inner : app[a] # Missing => app[a].external \in BOOLEAN
    <3>1. \A a \in Inner : app[a] # Missing => app[a] \in App
      BY LifecycleAssumption DEF IInv, TypeOK
    <3>. QED BY <3>1 DEF App
  <2>2. ASSUME \A r \in Runs : ~Active(r) /\ pc[r] # "lost", ignored = {},
               NEW a \in Inner, app[a] # Missing, app[a].external
        PROVE  FALSE
    <3>1. PICK s \in Smokes : Owes(s, a) \/ pc[s] = "lost"
      BY <2>2 DEF IInv, ExposureEnds
    <3>. QED BY <2>2, <3>1 DEF Owes, Active, Opening, Closing, Ended, Runs
  <2>. QED BY <2>1, <2>2 DEF RestoredMeansInternal
<1>. QED BY <1>1, <1>2, <1>3, Inductive, PTL DEF Spec

==============================================================================
