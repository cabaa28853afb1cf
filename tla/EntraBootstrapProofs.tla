------------------------ MODULE EntraBootstrapProofs ------------------------
(***************************************************************************)
(* Proofs about EntraBootstrap, for any number of runs and refs and any    *)
(* directory they may find: type correctness, one id per scope for ever,   *)
(* what a run may take away, and one application of each name as long as   *)
(* the concurrency group keeps the runs apart.                             *)
(***************************************************************************)
EXTENDS EntraBootstrap, TLAPS

\* The tables of the program, written out.
LEMMA Tables ==
  /\ Len(Order) = 4 /\ Len(Grants) = 5
  /\ \A i \in 1 .. 4 : Order[i] \in Keys
  /\ \A i \in 1 .. 5 : Grants[i].app \in Keys /\ Grants[i].api \in BOOLEAN
                         /\ Grants[i].access \in BOOLEAN
  /\ \A k \in Keys : \E i \in 1 .. 4 : Order[i] = k
  /\ \A i, j \in 1 .. 4 : Order[i] = Order[j] => i = j
  /\ \A k \in Keys : Scopes(k) \subseteq ScopeNames
<1>1. Len(Order) = 4 /\ Order[1] = "bff" /\ Order[2] = "agent" /\ Order[3] = "mcp"
        /\ Order[4] = "smoke"
  BY DEF Order
<1>2. /\ Len(Grants) = 5
      /\ \A i \in 1 .. 5 : Grants[i].app \in Keys /\ Grants[i].api \in BOOLEAN
                             /\ Grants[i].access \in BOOLEAN
  <2>1. Len(Grants) = 5
    BY DEF Grants
  <2>2. Grants[1].app = "bff" /\ Grants[1].api = TRUE /\ Grants[1].access = FALSE
    BY DEF Grants
  <2>3. Grants[2].app = "agent" /\ Grants[2].api = TRUE /\ Grants[2].access = TRUE
    BY DEF Grants
  <2>4. Grants[3].app = "mcp" /\ Grants[3].api = TRUE /\ Grants[3].access = FALSE
    BY DEF Grants
  <2>5. Grants[4].app = "bff" /\ Grants[4].api = FALSE /\ Grants[4].access = TRUE
    BY DEF Grants
  <2>6. Grants[5].app = "smoke" /\ Grants[5].api = FALSE /\ Grants[5].access = TRUE
    BY DEF Grants
  <2>7. ASSUME NEW i \in 1 .. 5
        PROVE  Grants[i].app \in Keys /\ Grants[i].api \in BOOLEAN /\ Grants[i].access \in BOOLEAN
    <3>1. i = 1 \/ i = 2 \/ i = 3 \/ i = 4 \/ i = 5
      OBVIOUS
    <3> QED
      BY <2>2, <2>3, <2>4, <2>5, <2>6, <3>1 DEF Keys
  <2> QED
    BY <2>1, <2>7
<1>3. \A i \in 1 .. 4 : i = 1 \/ i = 2 \/ i = 3 \/ i = 4
  OBVIOUS
<1>4. \A i \in 1 .. 4 : Order[i] \in Keys
  BY <1>1, <1>3 DEF Keys
<1>5. \A k \in Keys : \E i \in 1 .. 4 : Order[i] = k
  BY <1>1 DEF Keys
<1>6. \A k \in Keys : Scopes(k) \subseteq ScopeNames
  BY DEF Keys, Scopes, ScopeNames
<1>7. \A i, j \in 1 .. 4 : Order[i] = Order[j] => i = j
  BY <1>1, <1>3
<1> QED
  BY <1>1, <1>2, <1>4, <1>5, <1>6, <1>7

USE BootstrapAssumption

\* A derived scope id is a scope id.
LEMMA Stable == ASSUME NEW k \in Keys, NEW s \in ScopeNames PROVE StableId(k, s) \in ScopeIds
BY DEF ScopeIds

\* What a run computes has the type of what it patches.
LEMMA Data ==
  ASSUME TypeOK, NEW r \in Runs, NEW k \in Keys
  PROVE  /\ Merged(r, k) \in SUBSET (ScopeNames \X ScopeIds)
         /\ PreAuthorised(r, k) \in SUBSET (Clients \X ScopeIds)
         /\ Requested(r, k) \in SUBSET (AppIds \X ScopeIds)
<1>1. \A j \in Keys : Merged(r, j) \in SUBSET (Scopes(j) \X ScopeIds)
  BY DEF Merged, MergeScopes
<1>2. \A j \in Keys : Merged(r, j) \in SUBSET (ScopeNames \X ScopeIds)
  BY <1>1, Tables
<1>3. \A j \in Keys : \A names : IdsOf(r, j, names) \subseteq ScopeIds
  BY <1>2 DEF IdsOf
<1>4. \A j \in Keys : found[r][j] \in AppIds
  BY DEF TypeOK
<1>5. {"bff", "agent", "mcp", "smoke"} = Keys
  BY DEF Keys
<1>6. PreAuthorised(r, k) \in SUBSET (Clients \X ScopeIds)
  <2>1. CASE k = "bff"
    BY <1>3, <1>4, <1>5, <2>1 DEF PreAuthorised, Clients
  <2>2. CASE k = "agent"
    BY <1>3, <1>4, <1>5, <2>2 DEF PreAuthorised, Clients
  <2>3. CASE k = "mcp"
    BY <1>3, <1>4, <1>5, <2>3 DEF PreAuthorised, Clients
  <2>4. CASE k = "smoke"
    BY <2>4 DEF PreAuthorised
  <2> QED
    BY <2>1, <2>2, <2>3, <2>4, <1>5
<1>7. Requested(r, k) \in SUBSET (AppIds \X ScopeIds)
  <2>1. CASE k = "bff"
    BY <1>3, <1>4, <1>5, <2>1 DEF Requested
  <2>2. CASE k = "agent"
    BY <1>3, <1>4, <1>5, <2>2 DEF Requested
  <2>3. CASE k = "mcp"
    BY <2>3 DEF Requested
  <2>4. CASE k = "smoke"
    BY <1>3, <1>4, <1>5, <2>4 DEF Requested
  <2> QED
    BY <2>1, <2>2, <2>3, <2>4, <1>5
<1> QED
  BY <1>2, <1>6, <1>7

\* A run keeps the ref it was dispatched on.
LEMMA RefKept == [Next]_vars => UNCHANGED ref
BY Zenon DEF Next, Step, Start, Find, Create, Show, CheckPrincipal, CreatePrincipal,
             Declare, Grant, Fail, OperatorGrants, vars

\* Where a wiring patch leaves its run.
LEMMA GrantControl ==
  ASSUME NEW r \in Runs, Grant(r)
  PROVE  /\ pc[r] = "grant" /\ UNCHANGED <<ref, starts>>
         /\ \/ at[r] < 5 /\ at' = [at EXCEPT ![r] = at[r] + 1] /\ UNCHANGED <<pc, found, snapshot>>
            \/ ~(at[r] < 5) /\ End(r, "done")
<1>1. pc[r] = "grant" /\ NextGrant(r) /\ UNCHANGED <<ref, starts>>
  BY Zenon DEF Grant
<1> QED
  BY <1>1, Tables DEF NextGrant

\* How a loop goes on.
LEMMA RoundType ==
  ASSUME TypeOK, NEW r \in Runs, at[r] \in 1 .. 4,
         NEW again \in Calls, NEW next \in Calls, Round(r, again, next)
  PROVE  /\ pc' \in [Runs -> Calls \union Ended] /\ at' \in [Runs -> 1 .. 5]
         /\ pc' = [pc EXCEPT ![r] = pc'[r]] /\ at' = [at EXCEPT ![r] = at'[r]]
         /\ \/ at[r] < 4 /\ pc'[r] = again /\ at'[r] = at[r] + 1
            \/ at[r] = 4 /\ pc'[r] = next /\ at'[r] = 1
<1>1. CASE at[r] < 4
  <2>1. pc' = [pc EXCEPT ![r] = again] /\ at' = [at EXCEPT ![r] = at[r] + 1]
    BY <1>1, Tables DEF Round
  <2> QED
    BY <1>1, <2>1 DEF TypeOK
<1>2. CASE at[r] = 4
  <2>1. pc' = [pc EXCEPT ![r] = next] /\ at' = [at EXCEPT ![r] = 1]
    BY <1>2, Tables DEF Round
  <2> QED
    BY <1>2, <2>1 DEF TypeOK
<1> QED
  BY <1>1, <1>2

\* What a step does to the directory.
Patched ==
  \/ UNCHANGED directory
  \/ \E a \in AppIds, x \in App : directory' = [directory EXCEPT ![a] = x]

\* Type correctness is preserved by every step, which patches one application
\* at most.
LEMMA TypeOKStep == TypeOK /\ FoundExist /\ [Next]_vars => TypeOK' /\ Patched
<1> SUFFICES ASSUME TypeOK, FoundExist, [Next]_vars PROVE TypeOK' /\ Patched
  OBVIOUS
<1>0. ASSUME NEW r \in Runs, pc[r] \in Calls \ {"grant"}
      PROVE  at[r] \in 1 .. 4 /\ Key(r) \in Keys /\ found[r][Key(r)] \in AppIds
  BY <1>0, Tables DEF FoundExist, Key, TypeOK
<1>1. ASSUME NEW r \in Runs, Start(r) PROVE TypeOK' /\ Patched
  BY <1>1 DEF Start, Goto, TypeOK, Calls, Patched
<1>2. ASSUME NEW r \in Runs, NEW status \in Ended, End(r, status),
             UNCHANGED <<ref, starts>>, directory' \in Directory
      PROVE  TypeOK'
  <2>1. NoIds \in [Keys -> AppIds] /\ Nothing \in [Keys -> App]
    BY DEF NoIds, Nothing, NewApp, App, AppIds
  <2> QED
    BY <1>2, <2>1 DEF End, TypeOK
<1>3. ASSUME NEW r \in Runs, Find(r) PROVE TypeOK' /\ Patched
  <2>1. CASE End(r, "failed") /\ UNCHANGED <<directory, ref, starts>>
    BY <1>2, <2>1 DEF TypeOK, Ended, Patched
  <2>2. CASE Goto(r, "create") /\ UNCHANGED <<found, snapshot, directory, ref, starts>>
    BY <2>2 DEF Goto, TypeOK, Calls, Patched
  <2>3. ASSUME NEW a \in AppIds, found' = [found EXCEPT ![r][Key(r)] = a],
               Goto(r, "show"), UNCHANGED <<snapshot, directory, ref, starts>>
        PROVE  TypeOK' /\ Patched
    BY <2>3, <1>3, <1>0 DEF Find, Goto, TypeOK, Calls, Patched
  <2> QED
    BY <1>3, <2>1, <2>2, <2>3 DEF Find, Named
<1>4. ASSUME NEW r \in Runs, Create(r) PROVE TypeOK' /\ Patched
  <2>1. pc[r] = "create" /\ Key(r) \in Keys
    BY <1>4, <1>0 DEF Create, Calls
  <2>2. PICK n \in 1 .. Copies : /\ Patch(<<Key(r), n>>, NewApp)
                                 /\ found' = [found EXCEPT ![r][Key(r)] = <<Key(r), n>>]
    BY <1>4 DEF Create
  <2>3. <<Key(r), n>> \in AppIds /\ NewApp \in App
    BY <2>1, <2>2 DEF AppIds, NewApp, App
  <2>4. directory' \in Directory /\ Patched
    BY <2>2, <2>3 DEF Patch, Patched, TypeOK, Directory
  <2>5. found' \in [Runs -> [Keys -> AppIds]]
    BY <2>1, <2>2, <2>3 DEF TypeOK
  <2> QED
    BY <1>4, <2>4, <2>5 DEF Create, Goto, TypeOK, Calls
<1>5. ASSUME NEW r \in Runs, Show(r) PROVE TypeOK' /\ Patched
  <2>1. pc[r] = "show" /\ at[r] \in 1 .. 4 /\ Key(r) \in Keys /\ found[r][Key(r)] \in AppIds
    BY <1>5, <1>0 DEF Show, Calls
  <2>2. directory[found[r][Key(r)]] \in App
    BY <2>1 DEF FoundExist, Known, TypeOK, Directory
  <2>3. snapshot' \in [Runs -> [Keys -> App]]
    BY <1>5, <2>1, <2>2 DEF Show, TypeOK
  <2>4. pc' \in [Runs -> Calls \union Ended] /\ at' \in [Runs -> 1 .. 5]
    BY <1>5, <2>1, RoundType DEF Show, Calls
  <2> QED
    BY <1>5, <2>3, <2>4 DEF Show, TypeOK, Patched
<1>6. ASSUME NEW r \in Runs, CheckPrincipal(r) PROVE TypeOK' /\ Patched
  <2>1. pc[r] = "check" /\ at[r] \in 1 .. 4
    BY <1>6, <1>0 DEF CheckPrincipal, Calls
  <2>2. CASE Round(r, "check", "declare")
    BY <1>6, <2>1, <2>2, RoundType DEF CheckPrincipal, TypeOK, Calls, Patched
  <2>3. CASE Goto(r, "principal")
    BY <1>6, <2>3 DEF CheckPrincipal, Goto, TypeOK, Calls, Patched
  <2> QED
    BY <1>6, <2>2, <2>3 DEF CheckPrincipal
<1>7. ASSUME NEW r \in Runs, NEW k \in Keys, k \in Known(r), NEW app \in App,
             Patch(found[r][k], app)
      PROVE  directory' \in Directory /\ Patched
  BY <1>7 DEF Patch, Patched, TypeOK, Directory
<1>8. ASSUME NEW r \in Runs, pc[r] \in {"check", "principal", "declare", "grant"}
      PROVE  \A k \in Keys : k \in Known(r) /\ directory[found[r][k]] \in App
  BY <1>8 DEF Known, Shown, Calls, FoundExist, TypeOK, Directory
<1>9. ASSUME NEW r \in Runs, CreatePrincipal(r) PROVE TypeOK' /\ Patched
  <2>1. pc[r] = "principal" /\ at[r] \in 1 .. 4 /\ Key(r) \in Keys
    BY <1>9, <1>0 DEF CreatePrincipal, Calls
  <2>2. [directory[found[r][Key(r)]] EXCEPT !.principal = TRUE] \in App
    BY Zenon, <2>1, <1>8 DEF App
  <2>3. directory' \in Directory /\ Patched
    BY <1>7, <1>8, <1>9, <2>1, <2>2 DEF CreatePrincipal
  <2>4. pc' \in [Runs -> Calls \union Ended] /\ at' \in [Runs -> 1 .. 5]
    BY <1>9, <2>1, RoundType DEF CreatePrincipal, Calls
  <2> QED
    BY <1>9, <2>3, <2>4 DEF CreatePrincipal, TypeOK
<1>10. ASSUME NEW r \in Runs, Declare(r) PROVE TypeOK' /\ Patched
  <2>1. pc[r] = "declare" /\ at[r] \in 1 .. 4 /\ Key(r) \in Keys
    BY <1>10, <1>0 DEF Declare, Calls
  <2>2. [directory[found[r][Key(r)]] EXCEPT !.declared = TRUE, !.scopes = Merged(r, Key(r)),
                                            !.pre = snapshot[r][Key(r)].pre] \in App
    <3>1. snapshot[r][Key(r)] \in App
      BY <2>1 DEF TypeOK
    <3> QED
      BY Zenon, <2>1, <3>1, <1>8, Data DEF App
  <2>3. directory' \in Directory /\ Patched
    BY <1>7, <1>8, <1>10, <2>1, <2>2 DEF Declare
  <2>4. pc' \in [Runs -> Calls \union Ended] /\ at' \in [Runs -> 1 .. 5]
    BY <1>10, <2>1, RoundType DEF Declare, Calls
  <2> QED
    BY <1>10, <2>3, <2>4 DEF Declare, TypeOK
<1>11. ASSUME NEW r \in Runs, Grant(r) PROVE TypeOK' /\ Patched
  <2> DEFINE g == Grants[at[r]]
             app == directory[found[r][g.app]]
             old == snapshot[r][g.app]
  <2>1. pc[r] = "grant" /\ g.app \in Keys
    BY <1>11, Tables DEF Grant, TypeOK
  <2>2. app \in App /\ old \in App
    BY <2>1, <1>8 DEF TypeOK
  <2>3. [app EXCEPT
           !.scopes = IF g.api THEN Merged(r, g.app) ELSE app.scopes,
           !.pre = IF g.api THEN old.pre \union PreAuthorised(r, g.app) ELSE app.pre,
           !.access = IF g.access THEN old.access \union Requested(r, g.app)
                      ELSE app.access] \in App
    <3> HIDE DEF g, app, old
    <3> QED
      BY Zenon, <2>1, <2>2, Data DEF App
  <2>4. directory' \in Directory /\ Patched
    BY Zenon, <1>7, <1>8, <1>11, <2>1, <2>3 DEF Grant
  <2>5. CASE End(r, "done")
    BY <1>2, <1>11, <2>4, <2>5, GrantControl DEF Ended
  <2>6. CASE at[r] < 5 /\ at' = [at EXCEPT ![r] = at[r] + 1] /\ UNCHANGED <<pc, found, snapshot>>
    BY <1>11, <2>4, <2>6, GrantControl DEF TypeOK
  <2> QED
    BY Zenon, <1>11, <2>5, <2>6, GrantControl
<1>12. ASSUME NEW r \in Runs, Fail(r) PROVE TypeOK' /\ Patched
  BY <1>2, <1>12 DEF Fail, TypeOK, Ended, Patched
<1>13. ASSUME NEW a \in AppIds, OperatorGrants(a) PROVE TypeOK' /\ Patched
  <2>1. directory[a] \in App
    BY <1>13 DEF OperatorGrants, TypeOK, Directory
  <2>2. PICK p \in directory[a].scopes :
          Patch(a, [directory[a] EXCEPT !.pre = @ \union {<<Guest, p[2]>>}])
    BY <1>13 DEF OperatorGrants
  <2>3. [directory[a] EXCEPT !.pre = @ \union {<<Guest, p[2]>>}] \in App
    BY <2>1, <2>2 DEF App, Clients
  <2>4. directory' \in Directory /\ Patched
    BY <2>2, <2>3 DEF Patch, Patched, TypeOK, Directory
  <2> QED
    BY <1>13, <2>4 DEF OperatorGrants, TypeOK
<1>14. CASE UNCHANGED vars
  BY <1>14 DEF vars, TypeOK, Patched
<1> QED
  BY <1>1, <1>3, <1>4, <1>5, <1>6, <1>9, <1>10, <1>11, <1>12, <1>13, <1>14 DEF Next, Step

\* A run's step touches no other run's variables.
LEMMA Others ==
  ASSUME TypeOK, NEW r \in Runs, NEW q \in Runs, q # r, Start(r) \/ Step(r) \/ Fail(r)
  PROVE  /\ pc'[q] = pc[q] /\ at'[q] = at[q]
         /\ found'[q] = found[q] /\ snapshot'[q] = snapshot[q]
BY DEF TypeOK, Start, Step, Fail, Find, Create, Show, CheckPrincipal, CreatePrincipal,
       Declare, Grant, NextGrant, Round, Goto, End

\* Nobody deletes an application.
LEMMA AppsStay ==
  ASSUME TypeOK, Patched, NEW a \in AppIds, directory[a] # Missing
  PROVE  directory'[a] # Missing
BY DEF TypeOK, Directory, Patched

\* How a run's place and what it knows change with a step of its own.
LEMMA OwnStep ==
  ASSUME TypeOK, FoundExist, TypeOK', Patched,
         NEW r \in Runs, Start(r) \/ Step(r) \/ Fail(r)
  PROVE  /\ pc'[r] \in Calls \ {"grant"} => at'[r] \in 1 .. 4
         /\ pc'[r] \in Ended => at'[r] = 1
         /\ \A k \in Known(r)' :
              \/ k \in Known(r) /\ found'[r][k] = found[r][k]
              \/ /\ found'[r][k] \in AppIds /\ found'[r][k][1] = k
                 /\ directory'[found'[r][k]] # Missing
         /\ \A k \in Shown(r)' :
              \/ /\ k \in Shown(r)
                 /\ found'[r][k] = found[r][k] /\ snapshot'[r][k] = snapshot[r][k]
              \/ /\ pc[r] = "show" /\ k = Key(r) /\ directory' = directory
                 /\ found'[r][k] = found[r][k] /\ snapshot'[r][k] = directory[found[r][k]]
<1> DEFINE P == /\ pc'[r] \in Calls \ {"grant"} => at'[r] \in 1 .. 4
                /\ pc'[r] \in Ended => at'[r] = 1
           K == \A k \in Known(r)' :
                  \/ k \in Known(r) /\ found'[r][k] = found[r][k]
                  \/ /\ found'[r][k] \in AppIds /\ found'[r][k][1] = k
                     /\ directory'[found'[r][k]] # Missing
           S == \A k \in Shown(r)' :
                  \/ /\ k \in Shown(r)
                     /\ found'[r][k] = found[r][k] /\ snapshot'[r][k] = snapshot[r][k]
                  \/ /\ pc[r] = "show" /\ k = Key(r) /\ directory' = directory
                     /\ found'[r][k] = found[r][k] /\ snapshot'[r][k] = directory[found[r][k]]
<1>0. /\ pc[r] \in Calls \ {"grant"} => at[r] \in 1 .. 4 /\ Key(r) \in Keys
      /\ pc[r] \in Ended => at[r] = 1
  BY Tables DEF FoundExist, Key
<1>1. CASE Start(r)
  <2>1. pc'[r] = "find" /\ at'[r] = 1 /\ UNCHANGED <<found, snapshot, directory>>
    BY <1>0, <1>1 DEF Start, Goto, TypeOK, Active
  <2>2. Known(r)' = {} /\ Shown(r)' = {}
    BY <2>1 DEF Known, Shown
  <2> QED
    BY <2>1, <2>2 DEF Calls, Ended
<1>2. ASSUME NEW status \in Ended, End(r, status) PROVE P /\ K /\ S
  <2>1. pc'[r] \in Ended /\ at'[r] = 1
    BY <1>2 DEF End, TypeOK
  <2>2. Known(r)' = {} /\ Shown(r)' = {}
    BY <2>1 DEF Known, Shown, Calls, Ended
  <2> QED
    BY <2>1, <2>2 DEF Calls, Ended
<1>3. CASE Find(r)
  <2>0. pc[r] = "find" /\ at[r] \in 1 .. 4 /\ Key(r) \in Keys
    BY <1>0, <1>3 DEF Find, Calls
  <2>1. CASE End(r, "failed")
    BY <1>2, <2>1 DEF Ended
  <2>2. CASE Goto(r, "create") /\ UNCHANGED <<found, snapshot, directory>>
    <3>1. pc'[r] = "create" /\ at' = at
      BY <2>2 DEF Goto, TypeOK
    <3>2. Known(r)' = Known(r) /\ Shown(r)' = Shown(r)
      BY <2>0, <2>2, <3>1 DEF Known, Shown, Key
    <3> QED
      BY <2>0, <2>2, <3>1, <3>2 DEF Ended, Calls
  <2>3. ASSUME NEW a \in Named(directory, Key(r)),
               found' = [found EXCEPT ![r][Key(r)] = a],
               Goto(r, "show"), UNCHANGED <<snapshot, directory>>
        PROVE  P /\ K /\ S
    <3>1. pc'[r] = "show" /\ at' = at
      BY <2>3 DEF Goto, TypeOK
    <3>2. Known(r)' \subseteq Known(r) \union {Key(r)} /\ Shown(r)' = Shown(r)
      BY <2>0, <3>1 DEF Known, Shown, Key
    <3>3. Key(r) \notin Shown(r)
      BY <2>0, Tables DEF Shown, Key
    <3>4. \A k \in Keys : k # Key(r) => found'[r][k] = found[r][k]
      BY <2>0, <2>3 DEF TypeOK
    <3>5. found'[r][Key(r)] = a
      BY <2>0, <2>3 DEF TypeOK
    <3>6. Shown(r) \subseteq Keys /\ Known(r) \subseteq Keys
      BY DEF Shown, Known
    <3>7. P
      BY <2>0, <3>1 DEF Ended, Calls
    <3>8. K
      BY <2>3, <3>2, <3>4, <3>5, <3>6 DEF Named
    <3>9. S
      BY <2>3, <3>2, <3>3, <3>4, <3>6
    <3> QED
      BY <3>7, <3>8, <3>9
  <2> QED
    BY <1>3, <2>1, <2>2, <2>3 DEF Find
<1>4. CASE Create(r)
  <2>0. pc[r] = "create" /\ at[r] \in 1 .. 4 /\ Key(r) \in Keys
    BY <1>0, <1>4 DEF Create, Calls
  <2>1. PICK n \in 1 .. Copies : /\ Patch(<<Key(r), n>>, NewApp)
                                 /\ found' = [found EXCEPT ![r][Key(r)] = <<Key(r), n>>]
    BY <1>4 DEF Create
  <2>2. pc'[r] = "show" /\ at' = at /\ UNCHANGED snapshot
    BY <1>4 DEF Create, Goto, TypeOK
  <2>3. <<Key(r), n>> \in AppIds /\ NewApp \in App
    BY <2>0, <2>1 DEF AppIds, NewApp, App
  <2>4. directory'[<<Key(r), n>>] # Missing
    BY <2>1, <2>3 DEF Patch, TypeOK, Directory
  <2>5. Known(r)' \subseteq Known(r) \union {Key(r)} /\ Shown(r)' = Shown(r)
    BY <2>0, <2>2 DEF Known, Shown, Key
  <2>6. Key(r) \notin Shown(r)
    BY <2>0, Tables DEF Shown, Key
  <2>7. \A k \in Keys : k # Key(r) => found'[r][k] = found[r][k]
    BY <2>0, <2>1 DEF TypeOK
  <2>8. found'[r][Key(r)] = <<Key(r), n>>
    BY <2>0, <2>1 DEF TypeOK
  <2>9. Shown(r) \subseteq Keys /\ Known(r) \subseteq Keys
    BY DEF Shown, Known
  <2>10. P
    BY <2>0, <2>2 DEF Ended, Calls
  <2>11. K
    BY <2>3, <2>4, <2>5, <2>7, <2>8, <2>9
  <2>12. S
    BY <2>2, <2>5, <2>6, <2>7, <2>9
  <2> QED
    BY <2>10, <2>11, <2>12
<1>5. CASE Show(r)
  <2>0. pc[r] = "show" /\ at[r] \in 1 .. 4 /\ Key(r) \in Keys
    BY <1>0, <1>5 DEF Show, Calls
  <2>1. \/ at[r] < 4 /\ pc'[r] = "find" /\ at'[r] = at[r] + 1
        \/ at[r] = 4 /\ pc'[r] = "check" /\ at'[r] = 1
    BY <1>5, <2>0, RoundType DEF Show, Calls
  <2>2. /\ UNCHANGED <<found, directory>>
        /\ \A k \in Keys : k # Key(r) => snapshot'[r][k] = snapshot[r][k]
        /\ snapshot'[r][Key(r)] = directory[found[r][Key(r)]]
    BY <1>5, <2>0 DEF Show, TypeOK
  <2>3. Known(r) = Shown(r) \union {Key(r)}
    BY <2>0 DEF Known, Shown
  <2>4. Known(r)' = Shown(r)' /\ Shown(r)' \subseteq Keys
    BY <2>1 DEF Known, Shown
  <2>5. Shown(r)' \subseteq Shown(r) \union {Key(r)}
    <3> SUFFICES ASSUME NEW k \in Shown(r)', k # Key(r) PROVE k \in Shown(r)
      OBVIOUS
    <3>1. k \in Keys
      BY <2>4
    <3>2. PICK i \in 1 .. at[r] : Order[i] = k
      <4>1. CASE at[r] = 4
        BY <3>1, <4>1, Tables
      <4>2. CASE at[r] < 4 /\ pc'[r] = "find" /\ at'[r] = at[r] + 1
        <5>1. \E i \in 1 .. (at'[r] - 1) : Order[i] = k
          BY <4>2 DEF Shown
        <5> QED
          BY <5>1, <4>2, <2>0
      <4> QED
        BY <2>1, <4>1, <4>2
    <3>3. i # at[r]
      BY <3>2, <2>0 DEF Key
    <3>4. i \in 1 .. (at[r] - 1)
      BY <3>2, <3>3, <2>0
    <3> QED
      BY <3>1, <3>2, <3>4, <2>0 DEF Shown
  <2>6. P
    BY <2>0, <2>1 DEF Ended, Calls
  <2>7. K
    BY <2>2, <2>3, <2>4, <2>5
  <2>8. S
    BY <2>0, <2>2, <2>4, <2>5
  <2> QED
    BY <2>6, <2>7, <2>8
<1>6. ASSUME pc[r] \in {"check", "principal", "declare", "grant"},
             pc'[r] \in {"check", "principal", "declare", "grant"},
             pc'[r] # "grant" => at'[r] \in 1 .. 4, UNCHANGED <<found, snapshot>>
      PROVE  P /\ K /\ S
  <2>1. Known(r) = Keys /\ Shown(r) = Keys /\ Known(r)' = Keys /\ Shown(r)' = Keys
    BY <1>6 DEF Known, Shown, Calls
  <2> QED
    BY <1>6, <2>1 DEF Calls, Ended
<1>7. CASE CheckPrincipal(r)
  <2>0. pc[r] = "check" /\ at[r] \in 1 .. 4
    BY <1>0, <1>7 DEF CheckPrincipal, Calls
  <2>1. CASE Round(r, "check", "declare")
    BY <1>6, <1>7, <2>0, <2>1, RoundType DEF CheckPrincipal, Calls
  <2>2. CASE Goto(r, "principal")
    BY <1>6, <1>7, <2>0, <2>2 DEF CheckPrincipal, Goto, TypeOK
  <2> QED
    BY <1>7, <2>1, <2>2 DEF CheckPrincipal
<1>8. CASE CreatePrincipal(r)
  <2>0. pc[r] = "principal" /\ at[r] \in 1 .. 4
    BY <1>0, <1>8 DEF CreatePrincipal, Calls
  <2> QED
    BY <1>6, <1>8, <2>0, RoundType DEF CreatePrincipal, Calls
<1>9. CASE Declare(r)
  <2>0. pc[r] = "declare" /\ at[r] \in 1 .. 4
    BY <1>0, <1>9 DEF Declare, Calls
  <2> QED
    BY <1>6, <1>9, <2>0, RoundType DEF Declare, Calls
<1>10. CASE Grant(r)
  <2>1. CASE End(r, "done")
    BY <1>2, <2>1 DEF Ended
  <2>2. CASE UNCHANGED <<pc, found, snapshot>>
    BY <1>6, <1>10, <2>2, GrantControl
  <2> QED
    BY <1>10, <2>1, <2>2, GrantControl
<1>11. CASE Fail(r)
  BY <1>2, <1>11 DEF Fail, Ended
<1> QED
  BY <1>1, <1>3, <1>4, <1>5, <1>7, <1>8, <1>9, <1>10, <1>11 DEF Step

\* What a run has found is there, after every step.
LEMMA FoundExistStep == TypeOK /\ FoundExist /\ [Next]_vars => FoundExist'
<1> SUFFICES ASSUME TypeOK, FoundExist, [Next]_vars PROVE FoundExist'
  OBVIOUS
<1>1. TypeOK' /\ Patched
  BY TypeOKStep
<1>2. \A q \in Runs, k \in Keys : found[q][k] \in AppIds
  BY DEF TypeOK
<1>3. \A q \in Runs : Known(q) \subseteq Keys
  BY DEF Known
<1>4. ASSUME NEW q \in Runs,
             pc'[q] = pc[q] /\ at'[q] = at[q] /\ found'[q] = found[q]
      PROVE  /\ pc'[q] \in Calls \ {"grant"} => at'[q] \in 1 .. 4
             /\ pc'[q] \in Ended => at'[q] = 1
             /\ \A k \in Known(q)' : found'[q][k][1] = k /\ directory'[found'[q][k]] # Missing
  <2>1. Known(q)' = Known(q)
    BY <1>4 DEF Known, Shown, Key
  <2> QED
    BY <1>1, <1>2, <1>3, <1>4, <2>1, AppsStay DEF FoundExist
<1>5. ASSUME NEW r \in Runs, Start(r) \/ Step(r) \/ Fail(r) PROVE FoundExist'
  <2>1. \A q \in Runs \ {r} : pc'[q] = pc[q] /\ at'[q] = at[q] /\ found'[q] = found[q]
    BY <1>5, Others
  <2>2. /\ pc'[r] \in Calls \ {"grant"} => at'[r] \in 1 .. 4
        /\ pc'[r] \in Ended => at'[r] = 1
        /\ \A k \in Known(r)' :
             \/ k \in Known(r) /\ found'[r][k] = found[r][k]
             \/ found'[r][k][1] = k /\ directory'[found'[r][k]] # Missing
    BY <1>1, <1>5, OwnStep
  <2>3. \A k \in Known(r)' : found'[r][k][1] = k /\ directory'[found'[r][k]] # Missing
    BY <1>1, <1>2, <1>3, <2>2, AppsStay DEF FoundExist
  <2> QED
    BY <1>4, <2>1, <2>2, <2>3 DEF FoundExist
<1>6. CASE UNCHANGED <<pc, at, found>>
  BY <1>4, <1>6 DEF FoundExist
<1> QED
  BY <1>5, <1>6 DEF Next, OperatorGrants, vars

------------------------------------------------------------------------------
(* Scope ids.                                                              *)

\* A scope that is there keeps its id, one that is not gets the derived one.
LEMMA MergeIds ==
  ASSUME NEW k \in Keys, NEW old \in SUBSET (ScopeNames \X ScopeIds)
  PROVE  /\ \A p \in MergeScopes(k, old) :
              /\ p[1] \in Scopes(k)
              /\ \/ p \in old
                 \/ p[2] = StableId(k, p[1]) /\ ~\E q \in old : q[1] = p[1]
         /\ \A p \in old : p[1] \in Scopes(k) => p \in MergeScopes(k, old)
         /\ \A s \in Scopes(k) : \E p \in MergeScopes(k, old) : p[1] = s
<1>1. \A p \in MergeScopes(k, old) :
        /\ p[1] \in Scopes(k)
        /\ \/ p \in old
           \/ p[2] = StableId(k, p[1]) /\ ~\E q \in old : q[1] = p[1]
  BY DEF MergeScopes
<1>2. ASSUME NEW p \in old, p[1] \in Scopes(k) PROVE p \in MergeScopes(k, old)
  <2>1. p = <<p[1], p[2]>> /\ p[2] \in ScopeIds
    BY <1>2
  <2>2. p \in Scopes(k) \X ScopeIds
    BY <1>2, <2>1
  <2> QED
    BY <1>2, <2>2 DEF MergeScopes
<1>3. ASSUME NEW s \in Scopes(k) PROVE \E p \in MergeScopes(k, old) : p[1] = s
  <2>1. CASE \E q \in old : q[1] = s
    BY <1>2, <1>3, <2>1
  <2>2. CASE ~\E q \in old : q[1] = s
    <3>1. <<s, StableId(k, s)>> \in Scopes(k) \X ScopeIds
      BY <1>3, Stable, Tables
    <3>2. <<s, StableId(k, s)>> \in MergeScopes(k, old)
      BY <3>1, <2>2 DEF MergeScopes
    <3> QED
      BY <3>2
  <2> QED
    BY <2>1, <2>2
<1> QED
  BY <1>1, <1>2, <1>3

\* Two runs that have read the same application write the same ids.
LEMMA RunsAgree ==
  ASSUME TypeOK, FoundExist, ScopesAgree, NEW r \in Runs, NEW q \in Runs, NEW k \in Keys,
         k \in Shown(r), k \in Shown(q), found[r][k] = found[q][k],
         NEW p \in Merged(r, k), NEW o \in Merged(q, k), p[1] = o[1]
  PROVE  p = o
<1>0. /\ snapshot[r][k].scopes \in SUBSET (ScopeNames \X ScopeIds)
      /\ snapshot[q][k].scopes \in SUBSET (ScopeNames \X ScopeIds)
  BY DEF TypeOK, App
<1>1. /\ p[1] \in Scopes(k) /\ o[1] \in Scopes(k)
      /\ p \in snapshot[r][k].scopes \/ p[2] = StableId(k, p[1])
      /\ o \in snapshot[q][k].scopes \/ o[2] = StableId(k, o[1])
  BY <1>0, MergeIds DEF Merged
<1>2. p \in ScopeNames \X ScopeIds /\ o \in ScopeNames \X ScopeIds
  BY Data
<1>3. CASE p \in snapshot[r][k].scopes
  <2>1. p \in directory[found[q][k]].scopes
    BY <1>1, <1>3 DEF ScopesAgree
  <2> QED
    BY <1>2, <2>1 DEF ScopesAgree
<1>4. CASE o \in snapshot[q][k].scopes
  <2>1. o \in directory[found[r][k]].scopes
    BY <1>1, <1>4 DEF ScopesAgree
  <2> QED
    BY <1>2, <2>1 DEF ScopesAgree
<1>5. CASE p[2] = StableId(k, p[1]) /\ o[2] = StableId(k, o[1])
  BY <1>2, <1>5
<1> QED
  BY <1>1, <1>3, <1>4, <1>5

\* What a step writes over an application that is there: its scopes as merged
\* by a run that has read it, its pre-authorisations as that run has read them
\* and more, or more of what it has.
LEMMA Writes ==
  ASSUME TypeOK, FoundExist, [Next]_vars, NEW a \in AppIds, directory[a] # Missing
  PROVE  /\ \/ directory'[a].scopes = directory[a].scopes
            \/ \E r \in Runs, k \in Keys :
                 /\ k \in Shown(r) /\ found[r][k] = a
                 /\ directory'[a].scopes = Merged(r, k)
                 /\ UNCHANGED <<found, snapshot>> \/ pc'[r] = "done"
         /\ \/ directory[a].pre \subseteq directory'[a].pre
            \/ \E r \in Runs, k \in Keys :
                 /\ k \in Shown(r) /\ found[r][k] = a
                 /\ <<pc'[r], at'[r]>> # <<pc[r], at[r]>>
                 /\ snapshot[r][k].pre \subseteq directory'[a].pre
<1> DEFINE S == \/ directory'[a].scopes = directory[a].scopes
                \/ \E r \in Runs, k \in Keys :
                     /\ k \in Shown(r) /\ found[r][k] = a
                     /\ directory'[a].scopes = Merged(r, k)
                     /\ UNCHANGED <<found, snapshot>> \/ pc'[r] = "done"
           P == \/ directory[a].pre \subseteq directory'[a].pre
                \/ \E r \in Runs, k \in Keys :
                     /\ k \in Shown(r) /\ found[r][k] = a
                     /\ <<pc'[r], at'[r]>> # <<pc[r], at[r]>>
                     /\ snapshot[r][k].pre \subseteq directory'[a].pre
<1>1. CASE UNCHANGED directory
  BY <1>1
<1>2. directory[a] \in App /\ \A b \in AppIds : b # a => TRUE
  BY DEF TypeOK, Directory
<1>3. ASSUME NEW b \in AppIds, NEW x, Patch(b, x), b # a PROVE S /\ P
  <2>1. directory'[a] = directory[a]
    BY <1>3 DEF Patch, TypeOK, Directory
  <2> QED
    BY <2>1
<1>4. ASSUME NEW x, Patch(a, x) PROVE directory'[a] = x
  BY <1>4 DEF Patch, TypeOK, Directory
<1>5. ASSUME NEW r \in Runs, pc[r] \in {"principal", "declare"}
      PROVE  /\ at[r] \in 1 .. 4 /\ Key(r) \in Keys /\ Key(r) \in Shown(r)
             /\ found[r][Key(r)] \in AppIds
  BY <1>5, Tables DEF FoundExist, Key, Shown, Calls, TypeOK
<1>6. ASSUME NEW r \in Runs, Create(r) PROVE S /\ P
  <2>1. PICK n \in 1 .. Copies : /\ directory[<<Key(r), n>>] = Missing
                                 /\ Patch(<<Key(r), n>>, NewApp)
    BY <1>6 DEF Create
  <2>2. <<Key(r), n>> \in AppIds
    BY <1>6, <2>1, Tables DEF Create, FoundExist, Key, AppIds, Calls
  <2> QED
    BY <1>3, <2>1, <2>2
<1>7. ASSUME NEW r \in Runs, CreatePrincipal(r) PROVE S /\ P
  <2>1. found[r][Key(r)] \in AppIds
    BY <1>5, <1>7 DEF CreatePrincipal
  <2>2. CASE found[r][Key(r)] = a
    <3>1. directory'[a] = [directory[a] EXCEPT !.principal = TRUE]
      BY <1>4, <1>7, <2>2 DEF CreatePrincipal
    <3> QED
      BY <1>2, <3>1 DEF App
  <2> QED
    BY <1>3, <1>7, <2>1, <2>2 DEF CreatePrincipal
<1>8. ASSUME NEW r \in Runs, Declare(r) PROVE S /\ P
  <2>1. pc[r] = "declare" /\ found[r][Key(r)] \in AppIds /\ Key(r) \in Keys /\ Key(r) \in Shown(r)
    BY <1>5, <1>8 DEF Declare
  <2>2. CASE found[r][Key(r)] = a
    <3>1. directory'[a] = [directory[a] EXCEPT !.declared = TRUE,
                                               !.scopes = Merged(r, Key(r)),
                                               !.pre = snapshot[r][Key(r)].pre]
      BY <1>4, <1>8, <2>2 DEF Declare
    <3>2. /\ directory'[a].scopes = Merged(r, Key(r))
          /\ directory'[a].pre = snapshot[r][Key(r)].pre
      BY <1>2, <3>1 DEF App
    <3>3. <<pc'[r], at'[r]>> # <<pc[r], at[r]>>
      BY <1>5, <1>8, <2>1, RoundType DEF Declare, Calls
    <3> QED
      BY <1>8, <2>1, <2>2, <3>2, <3>3 DEF Declare
  <2> QED
    BY <1>3, <1>8, <2>1, <2>2 DEF Declare
<1>9. ASSUME NEW r \in Runs, Grant(r) PROVE S /\ P
  <2> DEFINE g == Grants[at[r]]
             old == snapshot[r][g.app]
  <2>1. pc[r] = "grant" /\ g.app \in Keys /\ g.api \in BOOLEAN
    BY <1>9, Tables DEF Grant, TypeOK
  <2>2. g.app \in Shown(r) /\ found[r][g.app] \in AppIds
    BY <2>1 DEF Shown, Calls, TypeOK
  <2>3. CASE found[r][g.app] = a
    <3>1. directory'[a] =
            [directory[a] EXCEPT
               !.scopes = IF g.api THEN Merged(r, g.app) ELSE directory[a].scopes,
               !.pre = IF g.api THEN old.pre \union PreAuthorised(r, g.app)
                       ELSE directory[a].pre,
               !.access = IF g.access THEN old.access \union Requested(r, g.app)
                          ELSE directory[a].access]
      BY <1>4, <1>9, <2>3 DEF Grant
    <3>2. /\ directory'[a].scopes = IF g.api THEN Merged(r, g.app) ELSE directory[a].scopes
          /\ directory'[a].pre = IF g.api THEN old.pre \union PreAuthorised(r, g.app)
                                 ELSE directory[a].pre
      <4> HIDE DEF g, old
      <4> QED
        BY <1>2, <3>1 DEF App
    <3>3. \/ at'[r] = at[r] + 1 /\ UNCHANGED <<pc, found, snapshot>>
          \/ pc'[r] = "done"
      BY <1>9, GrantControl DEF End, TypeOK
    <3>4. <<pc'[r], at'[r]>> # <<pc[r], at[r]>>
      BY <2>1, <3>3 DEF TypeOK
    <3> HIDE DEF g
    <3> QED
      BY <2>1, <2>2, <2>3, <3>2, <3>3, <3>4
  <2>4. CASE found[r][g.app] # a
    BY Zenon, <1>3, <1>9, <2>2, <2>4 DEF Grant
  <2> QED
    BY Zenon, <2>3, <2>4
<1>10. ASSUME NEW b \in AppIds, OperatorGrants(b) PROVE S /\ P
  <2>1. PICK p \in directory[b].scopes :
          Patch(b, [directory[b] EXCEPT !.pre = @ \union {<<Guest, p[2]>>}])
    BY <1>10 DEF OperatorGrants
  <2>2. CASE b = a
    <3>1. directory'[a] = [directory[a] EXCEPT !.pre = @ \union {<<Guest, p[2]>>}]
      BY <1>4, <2>1, <2>2
    <3> QED
      BY <1>2, <3>1 DEF App
  <2> QED
    BY <1>3, <2>1, <2>2
<1>11. S /\ P
  <2>1. ASSUME NEW r \in Runs, Start(r) \/ Find(r) \/ Show(r) \/ CheckPrincipal(r) \/ Fail(r)
        PROVE  S /\ P
    BY <1>1, <2>1 DEF Start, Find, Show, CheckPrincipal, Fail
  <2>2. CASE UNCHANGED vars
    BY <1>1, <2>2 DEF vars
  <2> QED
    BY <1>6, <1>7, <1>8, <1>9, <1>10, <2>1, <2>2 DEF Next, Step
<1> QED
  BY <1>11

\* Only a create adds an application, an empty one of the name it looked for.
LEMMA NewApps ==
  ASSUME TypeOK, FoundExist, [Next]_vars, NEW a \in AppIds,
         directory[a] = Missing, directory'[a] # Missing
  PROVE  \E r \in Runs : /\ Create(r) /\ a[1] = Key(r)
                         /\ directory' = [directory EXCEPT ![a] = NewApp]
<1>1. \A r \in Runs, k \in Keys : found[r][k] \in AppIds
  BY DEF TypeOK
<1>2. ASSUME NEW b \in AppIds, NEW x, Patch(b, x), directory[b] # Missing PROVE FALSE
  BY <1>2 DEF Patch, TypeOK, Directory
<1>3. ASSUME NEW r \in Runs, CreatePrincipal(r) \/ Declare(r) PROVE FALSE
  <2>0. pc[r] \in {"principal", "declare"}
    BY <1>3 DEF CreatePrincipal, Declare
  <2>1. pc[r] \in {"principal", "declare"} /\ Key(r) \in Keys
    BY <2>0, Tables DEF FoundExist, Key, Calls
  <2>2. directory[found[r][Key(r)]] # Missing
    BY <2>1 DEF FoundExist, Known, Shown, Calls
  <2>3. \E x : Patch(found[r][Key(r)], x)
    BY <1>3 DEF CreatePrincipal, Declare
  <2> QED
    BY Zenon, <1>1, <1>2, <2>1, <2>2, <2>3
<1>4. ASSUME NEW r \in Runs, Grant(r) PROVE FALSE
  <2>1. pc[r] = "grant" /\ Grants[at[r]].app \in Keys
    BY <1>4, Tables DEF Grant, TypeOK
  <2>2. directory[found[r][Grants[at[r]].app]] # Missing
    BY <2>1 DEF FoundExist, Known, Shown, Calls
  <2>3. \E x : Patch(found[r][Grants[at[r]].app], x)
    BY Zenon, <1>4 DEF Grant
  <2> QED
    BY Zenon, <1>1, <1>2, <2>1, <2>2, <2>3
<1>5. ASSUME NEW b \in AppIds, OperatorGrants(b) PROVE FALSE
  BY <1>2, <1>5 DEF OperatorGrants
<1>6. directory' # directory
  OBVIOUS
<1>7. PICK r \in Runs : Create(r)
  <2>1. ASSUME NEW r \in Runs,
               Start(r) \/ Find(r) \/ Show(r) \/ CheckPrincipal(r) \/ Fail(r)
        PROVE  FALSE
    BY <1>6, <2>1 DEF Start, Find, Show, CheckPrincipal, Fail
  <2> QED
    BY <1>3, <1>4, <1>5, <1>6, <2>1 DEF Next, Step, vars
<1>8. PICK n \in 1 .. Copies : Patch(<<Key(r), n>>, NewApp)
  BY <1>7 DEF Create
<1>9. <<Key(r), n>> \in AppIds
  BY <1>7, <1>8, Tables DEF Create, FoundExist, Key, AppIds, Calls
<1>10. a = <<Key(r), n>>
  BY <1>8, <1>9 DEF Patch, TypeOK, Directory
<1> QED
  BY <1>7, <1>8, <1>10 DEF Patch

\* A scope keeps the id it has, and merged scopes agree with the directory.
LEMMA ScopesAgreeStep == TypeOK /\ FoundExist /\ ScopesAgree /\ [Next]_vars => ScopesAgree'
<1> SUFFICES ASSUME TypeOK, FoundExist, ScopesAgree, [Next]_vars PROVE ScopesAgree'
  OBVIOUS
<1>1. TypeOK' /\ Patched /\ FoundExist'
  BY TypeOKStep, FoundExistStep
<1>2. \A r \in Runs : Shown(r) \subseteq Keys /\ Shown(r) \subseteq Known(r)
  BY DEF Shown, Known
<1>3. \A r \in Runs, k \in Keys : found[r][k] \in AppIds
  BY DEF TypeOK
<1>4. \A r \in Runs, k \in Keys : snapshot[r][k].scopes \in SUBSET (ScopeNames \X ScopeIds)
  BY DEF TypeOK, App
<1>5. ASSUME NEW a \in AppIds, directory'[a] # Missing
      PROVE  \A p, q \in directory'[a].scopes : p[1] = q[1] => p[2] = q[2]
  <2>1. CASE directory[a] # Missing
    <3>1. CASE directory'[a].scopes = directory[a].scopes
      BY <2>1, <3>1 DEF ScopesAgree, OneIdPerScope
    <3>2. ASSUME NEW r \in Runs, NEW k \in Keys, k \in Shown(r), found[r][k] = a,
                 directory'[a].scopes = Merged(r, k)
          PROVE  \A p, q \in directory'[a].scopes : p[1] = q[1] => p[2] = q[2]
      BY <3>2, RunsAgree
    <3> QED
      BY <2>1, <3>1, <3>2, Writes
  <2>2. CASE directory[a] = Missing
    <3>1. directory'[a] = NewApp
      BY <1>5, <2>2, NewApps DEF TypeOK, Directory
    <3> QED
      BY <3>1 DEF NewApp
  <2> QED
    BY <2>1, <2>2
<1>6. ASSUME NEW r \in Runs, NEW k \in Keys, k \in Shown(r),
             found'[r][k] = found[r][k], snapshot'[r][k] = snapshot[r][k]
      PROVE  /\ \A p \in snapshot'[r][k].scopes :
                  p[1] \in Scopes(k) => p \in directory'[found'[r][k]].scopes
             /\ \A p \in Merged(r, k)', q \in directory'[found'[r][k]].scopes :
                  p[1] = q[1] => p[2] = q[2]
  <2> DEFINE a == found[r][k]
  <2>1. a \in AppIds /\ directory[a] # Missing /\ a[1] = k
    BY <1>2, <1>3, <1>6 DEF FoundExist
  <2>2. Merged(r, k)' = Merged(r, k)
    BY <1>6 DEF Merged
  <2>3. CASE directory'[a].scopes = directory[a].scopes
    BY <1>6, <2>2, <2>3 DEF ScopesAgree
  <2>4. ASSUME NEW q \in Runs, NEW j \in Keys, j \in Shown(q), found[q][j] = a,
               directory'[a].scopes = Merged(q, j)
        PROVE  /\ \A p \in snapshot[r][k].scopes :
                    p[1] \in Scopes(k) => p \in directory'[a].scopes
               /\ \A p \in Merged(r, k), o \in directory'[a].scopes :
                    p[1] = o[1] => p[2] = o[2]
    <3>1. j = k
      BY <1>2, <2>1, <2>4 DEF FoundExist
    <3>2. \A p \in Merged(r, k), o \in directory'[a].scopes : p[1] = o[1] => p = o
      BY <1>6, <2>4, <3>1, RunsAgree
    <3>3. ASSUME NEW p \in snapshot[r][k].scopes, p[1] \in Scopes(k)
          PROVE  p \in directory'[a].scopes
      <4>1. p \in Merged(r, k)
        BY <1>4, <3>3, MergeIds DEF Merged
      <4>2. PICK o \in Merged(q, k) : o[1] = p[1]
        BY <1>4, <3>3, MergeIds DEF Merged
      <4> QED
        BY <2>4, <3>1, <3>2, <4>1, <4>2
    <3> QED
      BY <3>2, <3>3
  <2> HIDE DEF a
  <2>5. /\ \A p \in snapshot[r][k].scopes : p[1] \in Scopes(k) => p \in directory'[a].scopes
        /\ \A p \in Merged(r, k), o \in directory'[a].scopes : p[1] = o[1] => p[2] = o[2]
    <3>1. CASE directory'[a].scopes = directory[a].scopes
      <4>1. k \in Shown(r) /\ found[r][k] = a
        BY <1>6 DEF a
      <4> QED
        BY <3>1, <4>1 DEF ScopesAgree
    <3> QED
      BY <2>1, <2>4, <3>1, Writes
  <2> QED
    BY <1>6, <2>2, <2>5 DEF a
<1>7. ASSUME NEW r \in Runs, NEW k \in Keys, pc[r] = "show", k = Key(r),
             directory' = directory, found'[r][k] = found[r][k],
             snapshot'[r][k] = directory[found[r][k]]
      PROVE  /\ \A p \in snapshot'[r][k].scopes :
                  p[1] \in Scopes(k) => p \in directory'[found'[r][k]].scopes
             /\ \A p \in Merged(r, k)', q \in directory'[found'[r][k]].scopes :
                  p[1] = q[1] => p[2] = q[2]
  <2> DEFINE a == found[r][k]
             old == directory[a].scopes
  <2>1. a \in AppIds /\ directory[a] # Missing
    BY <1>3, <1>7 DEF FoundExist, Known
  <2>2. old \in SUBSET (ScopeNames \X ScopeIds)
    BY <2>1 DEF TypeOK, Directory, App
  <2>3. Merged(r, k)' = MergeScopes(k, old)
    BY <1>7 DEF Merged
  <2>4. \A p, q \in old : p[1] = q[1] => p[2] = q[2]
    BY <2>1 DEF ScopesAgree, OneIdPerScope
  <2>5. snapshot'[r][k].scopes = old /\ directory'[found'[r][k]].scopes = old
    BY <1>7
  <2> HIDE DEF a, old
  <2>6. \A p \in MergeScopes(k, old), q \in old : p[1] = q[1] => p[2] = q[2]
    BY <2>2, <2>4, MergeIds
  <2> QED
    BY <2>3, <2>5, <2>6
<1>8. ASSUME NEW r \in Runs, NEW k \in Shown(r)'
      PROVE  /\ \A p \in snapshot'[r][k].scopes :
                  p[1] \in Scopes(k) => p \in directory'[found'[r][k]].scopes
             /\ \A p \in Merged(r, k)', q \in directory'[found'[r][k]].scopes :
                  p[1] = q[1] => p[2] = q[2]
  <2>1. k \in Keys
    BY <1>8 DEF Shown
  <2>2. CASE Start(r) \/ Step(r) \/ Fail(r)
    BY <1>1, <1>6, <1>7, <1>8, <2>1, <2>2, OwnStep
  <2>3. CASE pc'[r] = pc[r] /\ at'[r] = at[r] /\ found'[r] = found[r] /\ snapshot'[r] = snapshot[r]
    <3>1. Shown(r)' = Shown(r)
      BY <2>3 DEF Shown
    <3> QED
      BY <1>6, <1>8, <2>1, <2>3, <3>1
  <2>4. ASSUME NEW q \in Runs, q # r, Start(q) \/ Step(q) \/ Fail(q)
        PROVE  pc'[r] = pc[r] /\ at'[r] = at[r] /\ found'[r] = found[r] /\ snapshot'[r] = snapshot[r]
    BY <2>4, Others
  <2>5. CASE UNCHANGED <<pc, at, found, snapshot>>
    BY <2>3, <2>5
  <2> QED
    BY <2>2, <2>3, <2>4, <2>5 DEF Next, OperatorGrants, vars
<1>9. OneIdPerScope(directory')
  BY <1>5 DEF OneIdPerScope
<1> QED
  BY <1>8, <1>9 DEF ScopesAgree, OneIdPerScope

\* While the runs take turns, the name that find has not found stays free.
LEMMA TakeTurnsStep == TypeOK /\ FoundExist /\ TakeTurns /\ [Next]_vars => TakeTurns'
<1> SUFFICES ASSUME TypeOK, FoundExist, TakeTurns, [Next]_vars, Serial'
             PROVE  /\ \A q, r \in Runs : Active(q)' /\ Active(r)' => q = r
                    /\ \A r \in Runs : pc'[r] = "create" => Named(directory', Key(r)') = {}
                    /\ Unique(directory')
  BY DEF TakeTurns, Serial, Active, Key, Unique, Named
<1>1. UNCHANGED ref
  BY RefKept
<1>2. /\ Serial
      /\ \A q, r \in Runs : Active(q) /\ Active(r) => q = r
      /\ \A r \in Runs : pc[r] = "create" => Named(directory, Key(r)) = {}
      /\ Unique(directory)
  BY <1>1 DEF TakeTurns, Serial
<1>3. TypeOK' /\ Patched
  BY TypeOKStep
<1>4. ASSUME NEW r \in Runs, Step(r) \/ Fail(r) PROVE Active(r)
  BY <1>4 DEF Active, Step, Fail, Find, Create, Show, CheckPrincipal, CreatePrincipal,
              Declare, Grant, Calls
<1>5. ASSUME NEW r \in Runs, NEW q \in Runs, q # r, Start(r) \/ Step(r) \/ Fail(r)
      PROVE  ~Active(q) /\ ~Active(q)' /\ pc'[q] = pc[q]
  <2>1. ~Active(q)
    <3>1. CASE Start(r)
      BY <1>2, <1>5, <3>1 DEF Start, Serial
    <3> QED
      BY <1>2, <1>4, <1>5, <3>1
  <2>2. pc'[q] = pc[q]
    BY <1>5, Others
  <2> QED
    BY <2>1, <2>2 DEF Active
<1>6. ASSUME NEW q \in Runs, NEW r \in Runs, Active(q)', Active(r)' PROVE q = r
  <2>1. CASE \E s \in Runs : Start(s) \/ Step(s) \/ Fail(s)
    BY <1>5, <1>6, <2>1
  <2>2. CASE UNCHANGED pc
    BY <1>2, <1>6, <2>2 DEF Active
  <2> QED
    BY <2>1, <2>2 DEF Next, OperatorGrants, vars
<1>7. ASSUME ~\E r \in Runs : Create(r)
      PROVE  \A k \in Keys : Named(directory', k) = Named(directory, k)
  <2>1. \A a \in AppIds : directory[a] = Missing <=> directory'[a] = Missing
    BY <1>3, <1>7, NewApps, AppsStay
  <2> QED
    BY <2>1 DEF Named
<1>8. ASSUME NEW r \in Runs, pc'[r] = "create" PROVE Named(directory', Key(r)') = {}
  <2>1. pc'[r] \in Calls /\ at'[r] \in 1 .. 4 /\ Key(r)' \in Keys
    BY <1>8, FoundExistStep, Tables DEF FoundExist, Key, Calls
  <2>2. ASSUME NEW q \in Runs, Start(q) \/ Step(q) \/ Fail(q) PROVE q = r
    BY <1>5, <1>8, <2>2 DEF Active, Calls
  <2>3. ASSUME NEW q \in Runs, Create(q) PROVE FALSE
    BY <1>8, <2>2, <2>3 DEF Step, Create, Goto, TypeOK
  <2>4. Named(directory', Key(r)') = Named(directory, Key(r)')
    BY <1>7, <2>1, <2>3
  <2>5. CASE UNCHANGED <<pc, at>>
    BY <1>2, <1>8, <2>4, <2>5 DEF Key
  <2>6. ASSUME NEW k \in Calls, k # "create", NEW n \in Calls, n # "create",
               Round(r, k, n)
        PROVE  FALSE
    BY <1>8, <2>6 DEF Round, TypeOK
  <2>7. ASSUME NEW s, s # "create", End(r, s) PROVE FALSE
    BY <1>8, <2>7 DEF End, TypeOK
  <2>8. ASSUME NEW s, s # "create", Goto(r, s) PROVE FALSE
    BY <1>8, <2>8 DEF Goto, TypeOK
  <2>9. CASE Start(r) \/ Fail(r)
    BY <2>7, <2>8, <2>9 DEF Start, Fail
  <2>10. CASE Find(r)
    <3>1. Named(directory, Key(r)) = {} /\ UNCHANGED at
      BY <2>7, <2>8, <2>10 DEF Find, Goto
    <3> QED
      BY <2>4, <3>1 DEF Key
  <2>11. CASE Show(r) \/ CheckPrincipal(r) \/ CreatePrincipal(r) \/ Declare(r)
    BY <2>6, <2>8, <2>11 DEF Show, CheckPrincipal, CreatePrincipal, Declare, Calls
  <2>12. CASE Grant(r)
    BY <1>8, <2>7, <2>12 DEF Grant, NextGrant
  <2> QED
    BY <2>2, <2>3, <2>5, <2>9, <2>10, <2>11, <2>12 DEF Next, Step, OperatorGrants, vars
<1>9. Unique(directory')
  <2>1. CASE \E r \in Runs : Create(r)
    <3>1. PICK r \in Runs : Create(r)
      BY <2>1
    <3>2. pc[r] = "create" /\ Key(r) \in Keys
      BY <3>1, Tables DEF Create, FoundExist, Key, Calls
    <3>3. PICK n \in 1 .. Copies : Patch(<<Key(r), n>>, NewApp)
      BY <3>1 DEF Create
    <3>4. \A k \in Keys : Named(directory', k) \subseteq Named(directory, k) \union {<<Key(r), n>>}
      BY <3>3 DEF Named, Patch, TypeOK, Directory
    <3>5. \A k \in Keys : k # Key(r) => Named(directory', k) \subseteq Named(directory, k)
      BY <3>4 DEF Named
    <3> QED
      BY <1>2, <3>2, <3>4, <3>5 DEF Unique
  <2>2. CASE ~\E r \in Runs : Create(r)
    BY <1>2, <1>7, <2>2 DEF Unique
  <2> QED
    BY <2>1, <2>2
<1> QED
  BY <1>6, <1>8, <1>9

------------------------------------------------------------------------------
(* A working chain, while runs take turns.                                 *)

\* What a step leaves of an application that is there.  Only two calls of a run
\* replace anything: Declare and Grant.
Untouched(old, new) ==
  /\ old.principal => new.principal
  /\ new.declared = old.declared /\ new.scopes = old.scopes /\ new.access = old.access
  /\ old.pre \subseteq new.pre
  /\ \A g \in new.pre : g \in old.pre \/ g[1] = Guest

DeclaredBy(r, k, old, new) ==
  /\ pc[r] = "declare" /\ k = Key(r)
  /\ new.principal = old.principal /\ new.declared = TRUE /\ new.access = old.access
  /\ new.scopes = Merged(r, k) /\ new.pre = snapshot[r][k].pre

GrantedBy(r, k, old, new) ==
  /\ pc[r] = "grant" /\ k = Grants[at[r]].app
  /\ new.principal = old.principal /\ new.declared = old.declared
  /\ new.scopes = IF Grants[at[r]].api THEN Merged(r, k) ELSE old.scopes
  /\ new.pre = IF Grants[at[r]].api THEN snapshot[r][k].pre \union PreAuthorised(r, k)
               ELSE old.pre
  /\ new.access = IF Grants[at[r]].access THEN snapshot[r][k].access \union Requested(r, k)
                  ELSE old.access

Effect(a) ==
  \/ Untouched(directory[a], directory'[a])
  \/ \E r \in Runs, k \in Keys :
       /\ k \in Shown(r) /\ found[r][k] = a
       /\ \/ DeclaredBy(r, k, directory[a], directory'[a])
          \/ GrantedBy(r, k, directory[a], directory'[a])

LEMMA GrantEffect ==
  ASSUME TypeOK, FoundExist, NEW r \in Runs, Grant(r)
  PROVE  LET k == Grants[at[r]].app
         IN  /\ k \in Keys /\ k \in Shown(r) /\ found[r][k] \in AppIds
             /\ GrantedBy(r, k, directory[found[r][k]], directory'[found[r][k]])
             /\ \A b \in AppIds : b # found[r][k] => directory'[b] = directory[b]
<1> DEFINE g == Grants[at[r]]
           a == found[r][g.app]
           app == directory[a]
           old == snapshot[r][g.app]
<1>1. pc[r] = "grant" /\ g.app \in Keys /\ g.app \in Shown(r) /\ a \in AppIds
  <2>1. pc[r] = "grant" /\ g.app \in Keys
    BY Tables DEF Grant, TypeOK
  <2>2. Shown(r) = Keys
    BY <2>1 DEF Shown, Calls
  <2>3. \A k \in Keys : found[r][k] \in AppIds
    BY DEF TypeOK
  <2> QED
    BY Zenon, <2>1, <2>2, <2>3
<1>2. app \in App
  BY <1>1 DEF FoundExist, Known, TypeOK, Directory
<1>3. Patch(a, [app EXCEPT
         !.scopes = IF g.api THEN Merged(r, g.app) ELSE app.scopes,
         !.pre = IF g.api THEN old.pre \union PreAuthorised(r, g.app) ELSE app.pre,
         !.access = IF g.access THEN old.access \union Requested(r, g.app) ELSE app.access])
  BY Zenon DEF Grant
<1>4. /\ directory'[a] =
          [app EXCEPT
             !.scopes = IF g.api THEN Merged(r, g.app) ELSE app.scopes,
             !.pre = IF g.api THEN old.pre \union PreAuthorised(r, g.app) ELSE app.pre,
             !.access = IF g.access THEN old.access \union Requested(r, g.app) ELSE app.access]
      /\ \A b \in AppIds : b # a => directory'[b] = directory[b]
  <2> HIDE DEF g, app, old, a
  <2> QED
    BY <1>1, <1>3 DEF Patch, TypeOK, Directory
<1>5. GrantedBy(r, g.app, app, directory'[a])
  <2>1. /\ directory'[a].scopes = IF g.api THEN Merged(r, g.app) ELSE app.scopes
        /\ directory'[a].pre = IF g.api THEN old.pre \union PreAuthorised(r, g.app) ELSE app.pre
        /\ directory'[a].access = IF g.access THEN old.access \union Requested(r, g.app)
                                  ELSE app.access
        /\ directory'[a].principal = app.principal /\ directory'[a].declared = app.declared
    <3> HIDE DEF g, app, old, a
    <3> QED
      BY <1>2, <1>4 DEF App
  <2> QED
    BY Zenon, <1>1, <2>1 DEF GrantedBy
<1> QED
  BY Zenon, <1>1, <1>4, <1>5

LEMMA DeclareEffect ==
  ASSUME TypeOK, FoundExist, NEW r \in Runs, Declare(r)
  PROVE  LET k == Key(r)
         IN  /\ k \in Keys /\ k \in Shown(r) /\ found[r][k] \in AppIds
             /\ DeclaredBy(r, k, directory[found[r][k]], directory'[found[r][k]])
             /\ \A b \in AppIds : b # found[r][k] => directory'[b] = directory[b]
<1> DEFINE k == Key(r)
           a == found[r][k]
           app == directory[a]
<1>1. pc[r] = "declare" /\ at[r] \in 1 .. 4
  BY DEF Declare, FoundExist, Calls
<1>2. k \in Keys /\ k \in Shown(r) /\ a \in AppIds
  BY <1>1, Tables DEF Key, TypeOK, Shown, Calls
<1>3. app \in App
  BY <1>2 DEF FoundExist, Known, TypeOK, Directory
<1>4. Patch(a, [app EXCEPT !.declared = TRUE, !.scopes = Merged(r, k),
                           !.pre = snapshot[r][k].pre])
  BY DEF Declare
<1>5. /\ directory'[a] = [app EXCEPT !.declared = TRUE, !.scopes = Merged(r, k),
                                     !.pre = snapshot[r][k].pre]
      /\ \A b \in AppIds : b # a => directory'[b] = directory[b]
  <2> HIDE DEF app, a, k
  <2> QED
    BY <1>2, <1>4 DEF Patch, TypeOK, Directory
<1>6. DeclaredBy(r, k, app, directory'[a])
  <2>1. /\ directory'[a].scopes = Merged(r, k) /\ directory'[a].pre = snapshot[r][k].pre
        /\ directory'[a].access = app.access /\ directory'[a].principal = app.principal
        /\ directory'[a].declared = TRUE
    <3> HIDE DEF app, a, k
    <3> QED
      BY <1>3, <1>5 DEF App
  <2> QED
    BY <1>1, <2>1 DEF DeclaredBy
<1> QED
  BY <1>2, <1>5, <1>6

LEMMA Effects ==
  ASSUME TypeOK, FoundExist, [Next]_vars, NEW a \in AppIds, directory[a] # Missing
  PROVE  Effect(a)
<1>1. directory[a] \in App
  BY DEF TypeOK, Directory
<1>2. ASSUME directory'[a] = directory[a] PROVE Effect(a)
  BY <1>2 DEF Effect, Untouched
<1>3. ASSUME NEW b \in AppIds, NEW x, Patch(b, x), b # a PROVE Effect(a)
  BY <1>2, <1>3 DEF Patch, TypeOK, Directory
<1>4. ASSUME NEW x, Patch(a, x) PROVE directory'[a] = x
  BY <1>4 DEF Patch, TypeOK, Directory
<1>5. ASSUME NEW r \in Runs, Create(r) PROVE Effect(a)
  <2>1. PICK n \in 1 .. Copies : /\ directory[<<Key(r), n>>] = Missing
                                 /\ Patch(<<Key(r), n>>, NewApp)
    BY <1>5 DEF Create
  <2>2. <<Key(r), n>> \in AppIds
    BY <1>5, <2>1, Tables DEF Create, FoundExist, Key, AppIds, Calls
  <2> QED
    BY <1>3, <2>1, <2>2
<1>6. ASSUME NEW r \in Runs, CreatePrincipal(r) PROVE Effect(a)
  <2>1. found[r][Key(r)] \in AppIds
    BY <1>6, Tables DEF CreatePrincipal, FoundExist, Key, Calls, TypeOK
  <2>2. CASE found[r][Key(r)] = a
    <3>1. directory'[a] = [directory[a] EXCEPT !.principal = TRUE]
      BY <1>4, <1>6, <2>2 DEF CreatePrincipal
    <3> QED
      BY <1>1, <3>1 DEF App, Effect, Untouched
  <2> QED
    BY <1>3, <1>6, <2>1, <2>2 DEF CreatePrincipal
<1>7. ASSUME NEW r \in Runs, Declare(r) PROVE Effect(a)
  BY <1>2, <1>7, DeclareEffect DEF Effect
<1>8. ASSUME NEW r \in Runs, Grant(r) PROVE Effect(a)
  BY <1>2, <1>8, GrantEffect DEF Effect
<1>9. ASSUME NEW b \in AppIds, OperatorGrants(b) PROVE Effect(a)
  <2>1. PICK p \in directory[b].scopes :
          Patch(b, [directory[b] EXCEPT !.pre = @ \union {<<Guest, p[2]>>}])
    BY <1>9 DEF OperatorGrants
  <2>2. CASE b = a
    <3>1. directory'[a] = [directory[a] EXCEPT !.pre = @ \union {<<Guest, p[2]>>}]
      BY <1>4, <2>1, <2>2
    <3> QED
      BY <1>1, <3>1 DEF App, Effect, Untouched
  <2> QED
    BY <1>3, <2>1, <2>2
<1>10. ASSUME NEW r \in Runs, Start(r) \/ Find(r) \/ Show(r) \/ CheckPrincipal(r) \/ Fail(r)
       PROVE  Effect(a)
  BY <1>2, <1>10 DEF Start, Find, Show, CheckPrincipal, Fail
<1>11. CASE UNCHANGED vars
  BY <1>2, <1>11 DEF vars
<1> QED
  BY <1>5, <1>6, <1>7, <1>8, <1>9, <1>10, <1>11 DEF Next, Step

\* Runs of one ref do not meet: who is not running, but for the run that makes
\* the step, is not running after it either.
LEMMA RunsMeetNot ==
  ASSUME TypeOK, TakeTurns, Serial, NEW r \in Runs, NEW q \in Runs, q # r,
         Start(r) \/ Step(r) \/ Fail(r)
  PROVE  ~Active(q) /\ ~Active(q)' /\ pc'[q] = pc[q]
<1>1. ASSUME Step(r) \/ Fail(r) PROVE Active(r)
  BY Zenon, <1>1 DEF Active, Step, Fail, Find, Create, Show, CheckPrincipal, CreatePrincipal,
              Declare, Grant, Calls
<1>2. ~Active(q)
  <2>1. CASE Start(r)
    BY <2>1 DEF Start, Serial
  <2> QED
    BY <1>1, <2>1 DEF TakeTurns
<1>3. pc'[q] = pc[q]
  BY Others
<1> QED
  BY <1>2, <1>3 DEF Active

\* While runs take turns, no step takes from an application what the program
\* has put there: only an operator's client may go.
LEMMA Grows ==
  ASSUME TypeOK, FoundExist, ScopesAgree, NothingUnseen, Serial, [Next]_vars,
         NEW a \in AppIds, directory[a] # Missing
  PROVE  LET old == directory[a]
             new == directory'[a]
         IN  /\ new # Missing
             /\ old.principal => new.principal
             /\ old.declared => new.declared
             /\ \A p \in old.scopes : p[1] \in Scopes(a[1]) => p \in new.scopes
             /\ \A g \in old.pre : g[1] # Guest => g \in new.pre
             /\ old.access \subseteq new.access
<1> DEFINE old == directory[a]
           new == directory'[a]
<1>1. new # Missing
  BY TypeOKStep, AppsStay
<1>2. CASE Untouched(old, new)
  BY <1>1, <1>2 DEF Untouched
<1>3. ASSUME NEW r \in Runs, NEW k \in Keys, k \in Shown(r), found[r][k] = a
      PROVE  /\ a[1] = k
             /\ \A p \in old.scopes : p[1] \in Scopes(k) => p \in Merged(r, k)
             /\ \A g \in old.pre :
                  g[1] # Guest => g \in snapshot[r][k].pre
                                    \/ (pc[r] = "grant" /\ g \in PreAuthorised(r, k))
             /\ \A g \in old.access :
                  g \in snapshot[r][k].access \/ (pc[r] = "grant" /\ g \in Requested(r, k))
  <2>1. a[1] = k
    BY <1>3 DEF FoundExist, Known
  <2>2. ASSUME NEW p \in old.scopes, p[1] \in Scopes(k) PROVE p \in Merged(r, k)
    <3>1. snapshot[r][k].scopes \in SUBSET (ScopeNames \X ScopeIds)
      BY DEF TypeOK, App
    <3>2. PICK o \in Merged(r, k) : o[1] = p[1]
      BY <2>2, <3>1, MergeIds DEF Merged
    <3>3. o[2] = p[2]
      BY <1>3, <2>2, <3>2 DEF ScopesAgree
    <3>4. p \in ScopeNames \X ScopeIds /\ o \in ScopeNames \X ScopeIds
      BY <2>2, <3>2, Data DEF TypeOK, Directory, App
    <3> QED
      BY <3>2, <3>3, <3>4
  <2> QED
    BY <1>3, <2>1, <2>2 DEF NothingUnseen
<1>4. ASSUME NEW r \in Runs, NEW k \in Keys, k \in Shown(r), found[r][k] = a,
             DeclaredBy(r, k, old, new)
      PROVE  /\ new.principal = old.principal /\ new.declared = TRUE
             /\ \A p \in old.scopes : p[1] \in Scopes(a[1]) => p \in new.scopes
             /\ \A g \in old.pre : g[1] # Guest => g \in new.pre
             /\ old.access \subseteq new.access
  <2> HIDE DEF old, new
  <2> QED
    BY <1>3, <1>4 DEF DeclaredBy
<1>5. ASSUME NEW r \in Runs, NEW k \in Keys, k \in Shown(r), found[r][k] = a,
             GrantedBy(r, k, old, new)
      PROVE  /\ new.principal = old.principal /\ new.declared = old.declared
             /\ \A p \in old.scopes : p[1] \in Scopes(a[1]) => p \in new.scopes
             /\ \A g \in old.pre : g[1] # Guest => g \in new.pre
             /\ old.access \subseteq new.access
  <2> HIDE DEF old, new
  <2>1. /\ new.scopes = Merged(r, k) \/ new.scopes = old.scopes
        /\ \/ new.pre = snapshot[r][k].pre \union PreAuthorised(r, k)
           \/ new.pre = old.pre
        /\ \/ new.access = snapshot[r][k].access \union Requested(r, k)
           \/ new.access = old.access
        /\ new.principal = old.principal /\ new.declared = old.declared
    BY Zenon, <1>5 DEF GrantedBy
  <2>2. /\ a[1] = k
        /\ \A p \in old.scopes : p[1] \in Scopes(k) => p \in Merged(r, k)
        /\ \A g \in old.pre :
             g[1] # Guest => g \in snapshot[r][k].pre \/ g \in PreAuthorised(r, k)
        /\ \A g \in old.access : g \in snapshot[r][k].access \/ g \in Requested(r, k)
    BY Zenon, <1>3, <1>5
  <2> QED
    BY <2>1, <2>2
<1> HIDE DEF old, new
<1>6. \/ Untouched(old, new)
      \/ \E r \in Runs, k \in Keys :
           /\ k \in Shown(r) /\ found[r][k] = a
           /\ DeclaredBy(r, k, old, new) \/ GrantedBy(r, k, old, new)
  BY Effects DEF Effect, old, new
<1>7. /\ old.principal => new.principal
      /\ old.declared => new.declared
      /\ \A p \in old.scopes : p[1] \in Scopes(a[1]) => p \in new.scopes
      /\ \A g \in old.pre : g[1] # Guest => g \in new.pre
      /\ old.access \subseteq new.access
  BY <1>2, <1>4, <1>5, <1>6 DEF Untouched
<1> QED
  BY <1>1, <1>7 DEF old, new

\* The one application of a name.
LEMMA TheApp ==
  ASSUME NEW d, Unique(d), NEW k \in Keys, NEW a \in Named(d, k)
  PROVE  AppOf(d, k) = a
<1>1. AppOf(d, k) \in Named(d, k)
  BY DEF AppOf, Named
<1> QED
  BY <1>1 DEF Unique

\* A chain that works goes on working.
LEMMA WiredKept ==
  ASSUME TypeOK, FoundExist, ScopesAgree, NothingUnseen, Serial, [Next]_vars,
         Wired(directory), Unique(directory')
  PROVE  Wired(directory')
<1> DEFINE A(k) == AppOf(directory, k)
<1>1. Unique(directory) /\ Complete(directory) /\ Linked(directory)
  BY DEF Wired
<1>2. ASSUME NEW k \in Keys
      PROVE  /\ A(k) \in AppIds /\ A(k)[1] = k /\ directory[A(k)] # Missing
             /\ A(k) \in Named(directory', k) /\ AppOf(directory', k) = A(k)
  <2>1. A(k) \in Named(directory, k)
    BY <1>1 DEF Complete, AppOf, Named
  <2>2. A(k) \in Named(directory', k)
    BY <2>1, Grows DEF Named
  <2> QED
    BY <2>1, <2>2, TheApp DEF Named
<1>3. Complete(directory')
  <2> SUFFICES ASSUME NEW k \in Keys
               PROVE  /\ directory'[A(k)].principal /\ directory'[A(k)].declared
                      /\ \A s \in Scopes(k) : \E p \in directory'[A(k)].scopes : p[1] = s
    BY <1>2 DEF Complete
  <2>1. /\ directory[A(k)].principal /\ directory[A(k)].declared
        /\ \A s \in Scopes(k) : \E p \in directory[A(k)].scopes : p[1] = s
    BY <1>1 DEF Complete
  <2> QED
    BY <1>2, <2>1, Grows
<1>4. ASSUME NEW k \in Keys, NEW client, client # Guest, NEW s \in Scopes(k),
             Allowed(directory, client, A(k), s)
      PROVE  Allowed(directory', client, A(k), s)
  <2>1. PICK p \in directory[A(k)].scopes :
          p[1] = s /\ <<client, p[2]>> \in directory[A(k)].pre
    BY <1>4 DEF Allowed
  <2>2. p \in directory'[A(k)].scopes /\ <<client, p[2]>> \in directory'[A(k)].pre
    BY <1>2, <1>4, <2>1, Grows
  <2> QED
    BY <2>1, <2>2 DEF Allowed
<1>5. ASSUME NEW k \in Keys, NEW j \in Keys, NEW s \in Scopes(k),
             Asked(directory, A(j), A(k), s)
      PROVE  Asked(directory', A(j), A(k), s)
  <2>1. PICK p \in directory[A(k)].scopes :
          p[1] = s /\ <<A(k), p[2]>> \in directory[A(j)].access
    BY <1>5 DEF Asked
  <2>2. p \in directory'[A(k)].scopes /\ <<A(k), p[2]>> \in directory'[A(j)].access
    BY <1>2, <2>1, Grows
  <2> QED
    BY <2>1, <2>2 DEF Asked
<1>6. Linked(directory')
  <2>1. {"bff", "agent", "mcp", "smoke"} = Keys /\ "mcp.access" \in Scopes("bff")
    BY DEF Keys, Scopes
  <2>2. /\ AppOf(directory', "bff") = A("bff") /\ AppOf(directory', "agent") = A("agent")
        /\ AppOf(directory', "mcp") = A("mcp") /\ AppOf(directory', "smoke") = A("smoke")
    BY <1>2, <2>1
  <2>3. /\ A("bff") # Guest /\ A("agent") # Guest /\ A("smoke") # Guest /\ Cli # Guest
    BY <1>2, <2>1
  <2>4. /\ Allowed(directory, A("smoke"), A("bff"), "mcp.access")
        /\ \A s \in Scopes("bff") : Allowed(directory, Cli, A("bff"), s)
        /\ \A s \in Scopes("agent") : Allowed(directory, A("bff"), A("agent"), s)
        /\ \A s \in Scopes("mcp") : Allowed(directory, A("agent"), A("mcp"), s)
        /\ \A s \in Scopes("agent") : Asked(directory, A("bff"), A("agent"), s)
        /\ \A s \in Scopes("mcp") : Asked(directory, A("agent"), A("mcp"), s)
        /\ Asked(directory, A("smoke"), A("bff"), "mcp.access")
    BY <1>1, <2>1 DEF Linked
  <2> HIDE DEF A
  <2>5. /\ Allowed(directory', A("smoke"), A("bff"), "mcp.access")
        /\ \A s \in Scopes("bff") : Allowed(directory', Cli, A("bff"), s)
        /\ \A s \in Scopes("agent") : Allowed(directory', A("bff"), A("agent"), s)
        /\ \A s \in Scopes("mcp") : Allowed(directory', A("agent"), A("mcp"), s)
    BY <1>4, <2>1, <2>3, <2>4
  <2>6. /\ \A s \in Scopes("agent") : Asked(directory', A("bff"), A("agent"), s)
        /\ \A s \in Scopes("mcp") : Asked(directory', A("agent"), A("mcp"), s)
        /\ Asked(directory', A("smoke"), A("bff"), "mcp.access")
    BY <1>5, <2>1, <2>4
  <2> QED
    BY <2>1, <2>2, <2>5, <2>6 DEF Linked
<1> QED
  BY <1>3, <1>6 DEF Wired

\* A run that wires goes on wiring with what it has read, or ends.
LEMMA GrantGoesOn ==
  ASSUME TypeOK, NEW r \in Runs, pc[r] = "grant", Start(r) \/ Step(r) \/ Fail(r), Active(r)'
  PROVE  /\ Grant(r) /\ at[r] < 5 /\ at'[r] = at[r] + 1
         /\ pc'[r] = "grant" /\ found'[r] = found[r] /\ snapshot'[r] = snapshot[r]
<1>1. ASSUME NEW status \in Ended, End(r, status) PROVE FALSE
  BY <1>1 DEF End, TypeOK, Active, Ended, Calls
<1>2. Grant(r)
  BY <1>1 DEF Start, Active, Step, Fail, Find, Create, Show, CheckPrincipal, CreatePrincipal,
              Declare, Calls, Ended
<1>3. at[r] < 5 /\ at' = [at EXCEPT ![r] = at[r] + 1] /\ UNCHANGED <<pc, found, snapshot>>
  BY <1>1, <1>2, GrantControl DEF Ended
<1> QED
  BY <1>2, <1>3 DEF TypeOK

\* Whatever a run has not read or written stays an operator's.
LEMMA NothingUnseenStep ==
  TypeOK /\ FoundExist /\ TakeTurns /\ NothingUnseen /\ [Next]_vars => NothingUnseen'
<1> SUFFICES ASSUME TypeOK, FoundExist, TakeTurns, NothingUnseen, [Next]_vars, Serial',
                    NEW r \in Runs, NEW k \in Shown(r)'
             PROVE  /\ \A g \in directory'[found'[r][k]].pre :
                         \/ g[1] = Guest \/ g \in snapshot'[r][k].pre
                         \/ pc'[r] = "grant" /\ g \in PreAuthorised(r, k)'
                    /\ \A g \in directory'[found'[r][k]].access :
                         \/ g \in snapshot'[r][k].access
                         \/ pc'[r] = "grant" /\ g \in Requested(r, k)'
  BY DEF NothingUnseen
<1>1. UNCHANGED ref
  BY RefKept
<1>2. Serial /\ k \in Keys
  BY <1>1 DEF Serial, Shown
<1>3. Active(r)'
  BY DEF Shown, Active, Calls
<1>4. ASSUME k \in Shown(r), found'[r][k] = found[r][k], snapshot'[r][k] = snapshot[r][k],
             pc[r] = "grant" =>
               pc'[r] = "grant" /\ found'[r] = found[r] /\ snapshot'[r] = snapshot[r]
      PROVE  /\ \A g \in directory'[found'[r][k]].pre :
                  \/ g[1] = Guest \/ g \in snapshot'[r][k].pre
                  \/ pc'[r] = "grant" /\ g \in PreAuthorised(r, k)'
             /\ \A g \in directory'[found'[r][k]].access :
                  \/ g \in snapshot'[r][k].access
                  \/ pc'[r] = "grant" /\ g \in Requested(r, k)'
  <2> DEFINE a == found[r][k]
             old == directory[a]
             new == directory'[a]
             P(g) == \/ g[1] = Guest \/ g \in snapshot[r][k].pre
                     \/ pc[r] = "grant" /\ g \in PreAuthorised(r, k)
             Q(g) == \/ g \in snapshot[r][k].access
                     \/ pc[r] = "grant" /\ g \in Requested(r, k)
  <2>1. a \in AppIds /\ old # Missing /\ a[1] = k
    BY <1>2, <1>4 DEF FoundExist, Known, TypeOK
  <2>2. (\A g \in old.pre : P(g)) /\ (\A g \in old.access : Q(g))
    BY <1>2, <1>4 DEF NothingUnseen
  <2>3. Active(r)
    BY <1>4 DEF Shown, Active, Calls
  <2>4. \/ Untouched(old, new)
        \/ DeclaredBy(r, k, old, new)
        \/ GrantedBy(r, k, old, new)
    <3>1. \/ Untouched(old, new)
          \/ \E q \in Runs, j \in Keys :
               /\ j \in Shown(q) /\ found[q][j] = a
               /\ DeclaredBy(q, j, old, new) \/ GrantedBy(q, j, old, new)
      BY <2>1, Effects DEF Effect
    <3>2. ASSUME NEW q \in Runs, NEW j \in Keys, j \in Shown(q), found[q][j] = a,
                 DeclaredBy(q, j, old, new) \/ GrantedBy(q, j, old, new)
          PROVE  q = r /\ j = k
      <4>1. j = k
        BY <2>1, <3>2 DEF FoundExist, Known
      <4>2. Active(q)
        BY <3>2 DEF Shown, Active, Calls
      <4> QED
        BY <1>2, <2>3, <4>1, <4>2 DEF TakeTurns
    <3> QED
      BY <3>1, <3>2
  <2> HIDE DEF a, old, new
  <2>5. (\A g \in new.pre : P(g)) /\ (\A g \in new.access : Q(g))
    BY <2>2, <2>4 DEF Untouched, DeclaredBy, GrantedBy
  <2>6. pc[r] = "grant" =>
          PreAuthorised(r, k)' = PreAuthorised(r, k) /\ Requested(r, k)' = Requested(r, k)
    BY <1>4 DEF PreAuthorised, Requested, IdsOf, Merged
  <2> QED
    BY <1>4, <2>5, <2>6 DEF a, new
<1>5. ASSUME pc[r] = "show", k = Key(r), snapshot'[r][k] = directory'[found'[r][k]]
      PROVE  /\ \A g \in directory'[found'[r][k]].pre : g \in snapshot'[r][k].pre
             /\ \A g \in directory'[found'[r][k]].access : g \in snapshot'[r][k].access
  BY <1>5
<1>6. CASE Start(r) \/ Step(r) \/ Fail(r)
  <2>1. \/ /\ k \in Shown(r)
           /\ found'[r][k] = found[r][k] /\ snapshot'[r][k] = snapshot[r][k]
        \/ /\ pc[r] = "show" /\ k = Key(r) /\ directory' = directory
           /\ found'[r][k] = found[r][k] /\ snapshot'[r][k] = directory[found[r][k]]
    BY <1>6, TypeOKStep, OwnStep
  <2> QED
    BY <1>3, <1>4, <1>5, <1>6, <2>1, GrantGoesOn
<1>7. CASE UNCHANGED <<pc, at, found, snapshot>>
  <2>1. Shown(r)' = Shown(r)
    BY <1>7 DEF Shown
  <2> QED
    BY <1>4, <1>7, <2>1
<1>8. ASSUME NEW q \in Runs, q # r, Start(q) \/ Step(q) \/ Fail(q) PROVE FALSE
  BY <1>2, <1>3, <1>8, RunsMeetNot
<1> QED
  BY <1>6, <1>7, <1>8 DEF Next, OperatorGrants, vars

\* How far a loop over the applications is.
LEMMA BehindGrows ==
  ASSUME NEW r \in Runs, at[r] \in 1 .. 4
  PROVE  /\ at'[r] = 1 => Behind(r)' = {}
         /\ at'[r] = at[r] => Behind(r)' = Behind(r)
         /\ at'[r] = at[r] + 1 => Behind(r)' = Behind(r) \union {Key(r)}
         /\ at[r] = 4 => Keys = Behind(r) \union {Key(r)}
<1>1. at'[r] = 1 => Behind(r)' = {}
  BY DEF Behind
<1>2. at'[r] = at[r] => Behind(r)' = Behind(r)
  BY DEF Behind
<1>3. ASSUME at'[r] = at[r] + 1 PROVE Behind(r)' = Behind(r) \union {Key(r)}
  <2>1. Behind(r)' = {k \in Keys : \E i \in 1 .. at[r] : Order[i] = k}
    BY <1>3 DEF Behind
  <2>2. \A i \in 1 .. at[r] : i \in 1 .. (at[r] - 1) \/ i = at[r]
    OBVIOUS
  <2>3. at[r] \in 1 .. at[r] /\ 1 .. (at[r] - 1) \subseteq 1 .. at[r]
    OBVIOUS
  <2>4. Key(r) \in Keys /\ Key(r) = Order[at[r]]
    BY Tables DEF Key
  <2> QED
    BY <2>1, <2>2, <2>3, <2>4 DEF Behind
<1>4. ASSUME at[r] = 4 PROVE Keys = Behind(r) \union {Key(r)}
  <2>1. \A i \in 1 .. 4 : i \in 1 .. (at[r] - 1) \/ i = at[r]
    BY <1>4
  <2> QED
    BY <1>4, <2>1, Tables DEF Behind, Key
<1> QED
  BY <1>1, <1>2, <1>3, <1>4

\* What a run has put there stands.
LEMMA Sticks ==
  ASSUME TypeOK, FoundExist, ScopesAgree, NothingUnseen, Serial, [Next]_vars,
         NEW r \in Runs, NEW k \in Keys, k \in Shown(r)
  PROVE  LET old == directory[found[r][k]]
             new == directory'[found[r][k]]
         IN  /\ found[r][k] \in AppIds /\ found[r][k][1] = k /\ new # Missing
             /\ old.principal => new.principal
             /\ old.declared => new.declared
             /\ Merged(r, k) \subseteq old.scopes => Merged(r, k) \subseteq new.scopes
             /\ PreAuthorised(r, k) \subseteq old.pre => PreAuthorised(r, k) \subseteq new.pre
             /\ Requested(r, k) \subseteq old.access => Requested(r, k) \subseteq new.access
<1> DEFINE a == found[r][k]
<1>1. a \in AppIds /\ a[1] = k /\ directory[a] # Missing
  BY DEF FoundExist, Known, TypeOK
<1>2. \A p \in Merged(r, k) : p[1] \in Scopes(k)
  BY DEF Merged, MergeScopes
<1>3. \A g \in PreAuthorised(r, k) : g[1] # Guest
  <2>1. {"bff", "agent", "mcp", "smoke"} = Keys
    BY DEF Keys
  <2>2. \A j \in Keys : found[r][j] # Guest
    BY DEF TypeOK
  <2>3. PreAuthorised(r, k) \subseteq ({found[r][j] : j \in Keys} \union {Cli}) \X ScopeIds
    <3>1. \A j \in Keys : \A names : IdsOf(r, j, names) \subseteq ScopeIds
      BY Data DEF IdsOf
    <3>2. CASE k = "bff"
      BY <2>1, <3>1, <3>2 DEF PreAuthorised
    <3>3. CASE k = "agent"
      BY <2>1, <3>1, <3>3 DEF PreAuthorised
    <3>4. CASE k = "mcp"
      BY <2>1, <3>1, <3>4 DEF PreAuthorised
    <3>5. CASE k = "smoke"
      BY <3>5 DEF PreAuthorised
    <3> QED
      BY <2>1, <3>2, <3>3, <3>4, <3>5
  <2> QED
    BY <2>2, <2>3
<1>4. /\ directory'[a] # Missing
      /\ directory[a].principal => directory'[a].principal
      /\ directory[a].declared => directory'[a].declared
      /\ \A p \in directory[a].scopes : p[1] \in Scopes(k) => p \in directory'[a].scopes
      /\ \A g \in directory[a].pre : g[1] # Guest => g \in directory'[a].pre
      /\ directory[a].access \subseteq directory'[a].access
  BY <1>1, Grows
<1> QED
  BY <1>1, <1>2, <1>3, <1>4

\* The scopes of an application whose ids a run has.
LEMMA Identified ==
  ASSUME TypeOK, NEW r \in Runs, NEW k \in Keys, NEW names, NEW s \in Scopes(k), s \in names
  PROVE  \E p \in Merged(r, k) : p[1] = s /\ p[2] \in IdsOf(r, k, names)
<1>1. snapshot[r][k].scopes \in SUBSET (ScopeNames \X ScopeIds)
  BY DEF TypeOK, App
<1>2. PICK p \in Merged(r, k) : p[1] = s
  BY <1>1, MergeIds DEF Merged
<1> QED
  BY <1>2 DEF IdsOf

\* All patches of a run together make a chain that works.
LEMMA WiredBy ==
  ASSUME TypeOK, NEW d, Unique(d), NEW r \in Runs,
         \A k \in Keys :
           /\ found[r][k][1] = k /\ d[found[r][k]] # Missing
           /\ d[found[r][k]].principal /\ d[found[r][k]].declared
           /\ Merged(r, k) \subseteq d[found[r][k]].scopes,
         \A i \in 1 .. 5 :
           LET k == Grants[i].app
           IN  /\ Grants[i].api => PreAuthorised(r, k) \subseteq d[found[r][k]].pre
               /\ Grants[i].access => Requested(r, k) \subseteq d[found[r][k]].access
  PROVE  Wired(d)
<1>1. {"bff", "agent", "mcp", "smoke"} = Keys /\ "mcp.access" \in Scopes("bff")
  BY DEF Keys, Scopes
<1>2. \A k \in Keys : found[r][k] \in Named(d, k) /\ AppOf(d, k) = found[r][k]
  BY TheApp DEF TypeOK, Named
<1>3. Complete(d)
  <2> SUFFICES ASSUME NEW k \in Keys
               PROVE  \A s \in Scopes(k) : \E p \in d[found[r][k]].scopes : p[1] = s
    BY <1>2 DEF Complete
  <2> QED
    BY Identified
<1>4. /\ PreAuthorised(r, "bff") \subseteq d[found[r]["bff"]].pre
      /\ PreAuthorised(r, "agent") \subseteq d[found[r]["agent"]].pre
      /\ PreAuthorised(r, "mcp") \subseteq d[found[r]["mcp"]].pre
      /\ Requested(r, "bff") \subseteq d[found[r]["bff"]].access
      /\ Requested(r, "agent") \subseteq d[found[r]["agent"]].access
      /\ Requested(r, "smoke") \subseteq d[found[r]["smoke"]].access
  <2>1. Grants[1].app = "bff" /\ Grants[1].api = TRUE
    BY DEF Grants
  <2>2. Grants[2].app = "agent" /\ Grants[2].api = TRUE /\ Grants[2].access = TRUE
    BY DEF Grants
  <2>3. Grants[3].app = "mcp" /\ Grants[3].api = TRUE
    BY DEF Grants
  <2>4. Grants[4].app = "bff" /\ Grants[4].access = TRUE
    BY DEF Grants
  <2>5. Grants[5].app = "smoke" /\ Grants[5].access = TRUE
    BY DEF Grants
  <2>6. 1 \in 1 .. 5 /\ 2 \in 1 .. 5 /\ 3 \in 1 .. 5 /\ 4 \in 1 .. 5 /\ 5 \in 1 .. 5
    OBVIOUS
  <2> QED
    BY <2>1, <2>2, <2>3, <2>4, <2>5, <2>6
<1>5. ASSUME NEW k \in Keys, NEW client, NEW names, NEW s \in Scopes(k), s \in names,
             {client} \X IdsOf(r, k, names) \subseteq d[found[r][k]].pre
      PROVE  Allowed(d, client, found[r][k], s)
  <2>1. PICK p \in Merged(r, k) : p[1] = s /\ p[2] \in IdsOf(r, k, names)
    BY <1>5, Identified
  <2> QED
    BY <1>5, <2>1 DEF Allowed
<1>6. ASSUME NEW k \in Keys, NEW j \in Keys, NEW names, NEW s \in Scopes(k), s \in names,
             {found[r][k]} \X IdsOf(r, k, names) \subseteq d[found[r][j]].access
      PROVE  Asked(d, found[r][j], found[r][k], s)
  <2>1. PICK p \in Merged(r, k) : p[1] = s /\ p[2] \in IdsOf(r, k, names)
    BY <1>6, Identified
  <2> QED
    BY <1>6, <2>1 DEF Asked
<1>7. /\ {found[r]["smoke"]} \X IdsOf(r, "bff", {"mcp.access"}) \subseteq d[found[r]["bff"]].pre
      /\ {Cli} \X IdsOf(r, "bff", Scopes("bff")) \subseteq d[found[r]["bff"]].pre
      /\ {found[r]["bff"]} \X IdsOf(r, "agent", Scopes("agent"))
           \subseteq d[found[r]["agent"]].pre
      /\ {found[r]["agent"]} \X IdsOf(r, "mcp", Scopes("mcp")) \subseteq d[found[r]["mcp"]].pre
  BY <1>4 DEF PreAuthorised
<1>8. /\ {found[r]["agent"]} \X IdsOf(r, "agent", Scopes("agent"))
           \subseteq d[found[r]["bff"]].access
      /\ {found[r]["mcp"]} \X IdsOf(r, "mcp", Scopes("mcp")) \subseteq d[found[r]["agent"]].access
      /\ {found[r]["bff"]} \X IdsOf(r, "bff", {"mcp.access"})
           \subseteq d[found[r]["smoke"]].access
  BY <1>4 DEF Requested
<1>9. /\ Allowed(d, found[r]["smoke"], found[r]["bff"], "mcp.access")
      /\ \A s \in Scopes("bff") : Allowed(d, Cli, found[r]["bff"], s)
      /\ \A s \in Scopes("agent") : Allowed(d, found[r]["bff"], found[r]["agent"], s)
      /\ \A s \in Scopes("mcp") : Allowed(d, found[r]["agent"], found[r]["mcp"], s)
  BY <1>1, <1>5, <1>7
<1>10. /\ \A s \in Scopes("agent") : Asked(d, found[r]["bff"], found[r]["agent"], s)
       /\ \A s \in Scopes("mcp") : Asked(d, found[r]["agent"], found[r]["mcp"], s)
       /\ Asked(d, found[r]["smoke"], found[r]["bff"], "mcp.access")
  BY <1>1, <1>6, <1>8
<1>11. Linked(d)
  <2>1. /\ AppOf(d, "bff") = found[r]["bff"] /\ AppOf(d, "agent") = found[r]["agent"]
        /\ AppOf(d, "mcp") = found[r]["mcp"] /\ AppOf(d, "smoke") = found[r]["smoke"]
    BY <1>1, <1>2
  <2> QED
    BY <1>1, <1>9, <1>10, <2>1 DEF Linked
<1> QED
  BY <1>3, <1>11 DEF Wired

\* What one run is through with.
LEMMA WorkStandsStep ==
  TypeOK /\ FoundExist /\ ScopesAgree /\ TakeTurns /\ NothingUnseen /\ WorkStands /\ [Next]_vars
    => WorkStands'
<1> DEFINE W(r) ==
             /\ \A k \in Principalled(r) : directory[found[r][k]].principal
             /\ \A k \in Declared(r) :
                  /\ directory[found[r][k]].declared
                  /\ Merged(r, k) \subseteq directory[found[r][k]].scopes
             /\ pc[r] = "grant" =>
                  \A i \in 1 .. (at[r] - 1) :
                    LET k == Grants[i].app
                    IN  /\ Grants[i].api =>
                             PreAuthorised(r, k) \subseteq directory[found[r][k]].pre
                        /\ Grants[i].access =>
                             Requested(r, k) \subseteq directory[found[r][k]].access
             /\ pc[r] = "done" => Wired(directory)
<1> SUFFICES ASSUME TypeOK, FoundExist, ScopesAgree, TakeTurns, NothingUnseen, WorkStands,
                    [Next]_vars, Serial', NEW r \in Runs
             PROVE  W(r)'
  BY Zenon DEF WorkStands
<1>1. Serial
  BY RefKept DEF Serial
<1>2. W(r)
  BY <1>1 DEF WorkStands
<1>3. Unique(directory')
  <2>1. TakeTurns'
    BY TakeTurnsStep
  <2> QED
    BY <2>1 DEF TakeTurns
<1>4. ASSUME pc[r] \in {"check", "principal", "declare", "grant"} PROVE Shown(r) = Keys
  BY <1>4 DEF Shown, Calls
<1>5. ASSUME pc[r] \in Calls \ {"grant"} PROVE at[r] \in 1 .. 4 /\ Key(r) \in Keys
  BY <1>5, Tables DEF FoundExist, Key
<1>6. Behind(r) \subseteq Keys
  BY DEF Behind
\* Old work stands, if the run goes on with what it has read.
<1> DEFINE F(k) == found[r][k]
<1>7. ASSUME pc[r] \in {"check", "principal", "declare", "grant"}
      PROVE  /\ \A k \in Principalled(r) : directory'[F(k)].principal
             /\ \A k \in Declared(r) :
                  directory'[F(k)].declared /\ Merged(r, k) \subseteq directory'[F(k)].scopes
             /\ pc[r] = "grant" =>
                  \A i \in 1 .. (at[r] - 1) :
                    LET k == Grants[i].app
                    IN  /\ Grants[i].api => PreAuthorised(r, k) \subseteq directory'[F(k)].pre
                        /\ Grants[i].access => Requested(r, k) \subseteq directory'[F(k)].access
  <2>1. Principalled(r) \subseteq Keys /\ Declared(r) \subseteq Keys
    BY <1>6 DEF Principalled, Declared
  <2>2. \A k \in Principalled(r) : directory'[F(k)].principal
    BY <1>1, <1>2, <1>4, <1>7, <2>1, Sticks
  <2>3. \A k \in Declared(r) :
          directory'[F(k)].declared /\ Merged(r, k) \subseteq directory'[F(k)].scopes
    BY <1>1, <1>2, <1>4, <1>7, <2>1, Sticks
  <2>4. ASSUME pc[r] = "grant", NEW i \in 1 .. (at[r] - 1)
        PROVE  LET k == Grants[i].app
               IN  /\ Grants[i].api => PreAuthorised(r, k) \subseteq directory'[F(k)].pre
                   /\ Grants[i].access => Requested(r, k) \subseteq directory'[F(k)].access
    <3>1. i \in 1 .. 5
      BY <2>4 DEF TypeOK
    <3>2. Grants[i].app \in Keys /\ Grants[i].app \in Shown(r)
      BY <1>4, <2>4, <3>1, Tables
    <3>3. /\ Grants[i].api => PreAuthorised(r, Grants[i].app) \subseteq directory[F(Grants[i].app)].pre
          /\ Grants[i].access => Requested(r, Grants[i].app) \subseteq directory[F(Grants[i].app)].access
      BY <1>2, <2>4
    <3> QED
      BY <1>1, <3>2, <3>3, Sticks
  <2> QED
    BY <2>2, <2>3, <2>4
<1>8. ASSUME found'[r] = found[r], snapshot'[r] = snapshot[r]
      PROVE  \A k \in Keys : /\ found'[r][k] = F(k) /\ Merged(r, k)' = Merged(r, k)
                             /\ PreAuthorised(r, k)' = PreAuthorised(r, k)
                             /\ Requested(r, k)' = Requested(r, k)
  BY <1>8 DEF PreAuthorised, Requested, IdsOf, Merged
<1>9. CASE pc'[r] = pc[r] /\ at'[r] = at[r] /\ found'[r] = found[r] /\ snapshot'[r] = snapshot[r]
  <2>1. Behind(r)' = Behind(r)
    BY <1>9 DEF Behind
  <2>2. Principalled(r)' = Principalled(r) /\ Declared(r)' = Declared(r)
    BY <1>9, <2>1 DEF Principalled, Declared
  <2>3. CASE pc[r] \in {"check", "principal", "declare", "grant"}
    <3>1. Principalled(r) \subseteq Keys /\ Declared(r) \subseteq Keys
      BY <1>6 DEF Principalled, Declared
    <3>2. \A k \in Principalled(r)' : directory'[found'[r][k]].principal
      BY <1>7, <1>8, <1>9, <2>2, <2>3, <3>1
    <3>3. \A k \in Declared(r)' :
            /\ directory'[found'[r][k]].declared
            /\ Merged(r, k)' \subseteq directory'[found'[r][k]].scopes
      BY <1>7, <1>8, <1>9, <2>2, <2>3, <3>1
    <3>4. ASSUME pc'[r] = "grant", NEW i \in 1 .. (at'[r] - 1)
          PROVE  LET k == Grants[i].app
                 IN  /\ Grants[i].api =>
                          PreAuthorised(r, k)' \subseteq directory'[found'[r][k]].pre
                     /\ Grants[i].access =>
                          Requested(r, k)' \subseteq directory'[found'[r][k]].access
      <4>0. at[r] \in 1 .. 5 /\ at'[r] = at[r]
        BY <1>9 DEF TypeOK
      <4>1. i \in 1 .. (at[r] - 1) /\ i \in 1 .. 5
        BY <4>0
      <4>2. Grants[i].app \in Keys
        BY <4>1, Tables
      <4> QED
        BY <1>7, <1>8, <1>9, <2>3, <3>4, <4>1, <4>2
    <3>5. pc'[r] # "done"
      BY <1>9, <2>3
    <3> QED
      BY <3>2, <3>3, <3>4, <3>5
  <2>4. CASE pc[r] \notin {"check", "principal", "declare", "grant"}
    <3>1. Principalled(r)' = {} /\ Declared(r)' = {} /\ pc'[r] # "grant"
      BY <1>9, <2>4 DEF Principalled, Declared
    <3>2. pc'[r] = "done" => Wired(directory')
      BY <1>1, <1>2, <1>3, <1>9, WiredKept
    <3> QED
      BY <3>1, <3>2
  <2> QED
    BY <2>3, <2>4
\* Some calls are before all that, or after it.
<1>10. ASSUME pc'[r] \in {"find", "create", "show", "failed"} PROVE W(r)'
  BY <1>10 DEF Principalled, Declared
<1>11. ASSUME NEW status \in Ended, End(r, status) PROVE pc'[r] = status
  BY <1>11 DEF End, TypeOK
<1>12. CASE Start(r) \/ Find(r) \/ Create(r) \/ Fail(r)
  BY <1>10, <1>11, <1>12 DEF Start, Find, Create, Fail, Goto, TypeOK, Ended
<1>13. CASE Show(r)
  <2>1. pc[r] = "show" /\ at[r] \in 1 .. 4
    BY <1>5, <1>13 DEF Show, Calls
  <2>2. pc'[r] = "find" \/ (pc'[r] = "check" /\ at'[r] = 1)
    BY <1>13, <2>1, RoundType DEF Show, Calls
  <2>3. CASE pc'[r] = "check" /\ at'[r] = 1
    <3>1. Principalled(r)' = {} /\ Declared(r)' = {}
      BY <2>1, <2>3, BehindGrows DEF Principalled, Declared
    <3> QED
      BY <2>3, <3>1
  <2> QED
    BY <1>10, <2>2, <2>3
\* The principals.
<1>14. ASSUME pc[r] \in {"check", "principal"}, at[r] \in 1 .. 4,
              Round(r, "check", "declare"), UNCHANGED <<found, snapshot>>,
              directory'[F(Key(r))].principal
       PROVE  W(r)'
  <2>1. \/ at[r] < 4 /\ pc'[r] = "check" /\ at'[r] = at[r] + 1
        \/ at[r] = 4 /\ pc'[r] = "declare" /\ at'[r] = 1
    BY <1>14, RoundType DEF Calls
  <2>2. /\ Principalled(r)' = Behind(r) \union {Key(r)} /\ Declared(r)' = {}
        /\ Principalled(r) = Behind(r)
    BY <1>14, <2>1, BehindGrows DEF Principalled, Declared
  <2>3. \A k \in Principalled(r)' : directory'[found'[r][k]].principal
    BY <1>7, <1>14, <2>2
  <2> QED
    BY <2>1, <2>2, <2>3
<1>15. CASE CheckPrincipal(r)
  <2>1. pc[r] = "check" /\ at[r] \in 1 .. 4 /\ Key(r) \in Keys
    BY <1>5, <1>15 DEF CheckPrincipal, Calls
  <2>2. CASE directory[F(Key(r))].principal
    BY <1>14, <1>15, <2>1, <2>2 DEF CheckPrincipal
  <2>3. CASE ~directory[F(Key(r))].principal
    <3>1. pc'[r] = "principal" /\ at'[r] = at[r] /\ UNCHANGED <<found, snapshot>>
      BY <1>15, <2>3 DEF CheckPrincipal, Goto, TypeOK
    <3>2. /\ Principalled(r)' = Principalled(r) /\ Declared(r)' = {}
          /\ Principalled(r) \subseteq Keys
      BY <1>6, <2>1, <3>1, BehindGrows DEF Principalled, Declared
    <3>3. \A k \in Principalled(r)' : directory'[found'[r][k]].principal
      BY <1>7, <2>1, <3>1, <3>2
    <3> QED
      BY <3>1, <3>2, <3>3
  <2> QED
    BY <2>2, <2>3
<1>16. CASE CreatePrincipal(r)
  <2>1. pc[r] = "principal" /\ at[r] \in 1 .. 4 /\ Key(r) \in Keys
    BY <1>5, <1>16 DEF CreatePrincipal, Calls
  <2>2. F(Key(r)) \in AppIds /\ directory[F(Key(r))] \in App
    BY <1>4, <2>1 DEF FoundExist, Known, TypeOK, Directory
  <2>3. directory'[F(Key(r))].principal
    <3>1. directory'[F(Key(r))] = [directory[F(Key(r))] EXCEPT !.principal = TRUE]
      BY <1>16, <2>2 DEF CreatePrincipal, Patch, TypeOK, Directory
    <3> QED
      BY <2>2, <3>1 DEF App
  <2> QED
    BY <1>14, <1>16, <2>1, <2>3 DEF CreatePrincipal
\* The first patches.
<1>17. CASE Declare(r)
  <2>1. pc[r] = "declare" /\ at[r] \in 1 .. 4 /\ Key(r) \in Keys
    BY <1>5, <1>17 DEF Declare, Calls
  <2>2. \/ at[r] < 4 /\ pc'[r] = "declare" /\ at'[r] = at[r] + 1
        \/ at[r] = 4 /\ pc'[r] = "grant" /\ at'[r] = 1
    BY <1>17, <2>1, RoundType DEF Declare, Calls
  <2>3. UNCHANGED <<found, snapshot>>
    BY <1>17 DEF Declare
  <2>4. /\ Principalled(r)' = Keys /\ Principalled(r) = Keys
        /\ Declared(r)' = Behind(r) \union {Key(r)} /\ Declared(r) = Behind(r)
    BY <2>1, <2>2, BehindGrows DEF Principalled, Declared
  <2>5. directory'[F(Key(r))].declared /\ Merged(r, Key(r)) \subseteq directory'[F(Key(r))].scopes
    BY <1>17, DeclareEffect DEF DeclaredBy
  <2>6. \A k \in Principalled(r)' : directory'[found'[r][k]].principal
    BY <1>7, <2>1, <2>3, <2>4
  <2>7. \A k \in Declared(r)' : /\ directory'[found'[r][k]].declared
                                /\ Merged(r, k)' \subseteq directory'[found'[r][k]].scopes
    BY <1>6, <1>7, <1>8, <2>1, <2>3, <2>4, <2>5
  <2>8. pc'[r] = "grant" => 1 .. (at'[r] - 1) = {}
    BY <2>2
  <2> QED
    BY <2>2, <2>6, <2>7, <2>8
\* The wiring patches; the last of them completes the chain.
<1>18. CASE Grant(r)
  <2>1. pc[r] = "grant" /\ at[r] \in 1 .. 5
    BY <1>18 DEF Grant, TypeOK
  <2>2. Principalled(r) = Keys /\ Declared(r) = Keys
    BY <2>1 DEF Principalled, Declared
  <2>3. \A i \in 1 .. at[r] :
          LET k == Grants[i].app
          IN  /\ Grants[i].api => PreAuthorised(r, k) \subseteq directory'[F(k)].pre
              /\ Grants[i].access => Requested(r, k) \subseteq directory'[F(k)].access
    <3> SUFFICES ASSUME NEW i \in 1 .. at[r]
                 PROVE  LET k == Grants[i].app
                        IN  /\ Grants[i].api => PreAuthorised(r, k) \subseteq directory'[F(k)].pre
                            /\ Grants[i].access =>
                                 Requested(r, k) \subseteq directory'[F(k)].access
      OBVIOUS
    <3>1. CASE i = at[r]
      BY Zenon, <1>18, <3>1, GrantEffect DEF GrantedBy
    <3>2. CASE i # at[r]
      <4>1. i \in 1 .. (at[r] - 1)
        BY <2>1, <3>2
      <4> QED
        BY <1>7, <2>1, <4>1
    <3> QED
      BY <3>1, <3>2
  <2>4. CASE Active(r)'
    <3>1. at'[r] = at[r] + 1 /\ pc'[r] = "grant" /\ found'[r] = found[r] /\ snapshot'[r] = snapshot[r]
      BY <1>18, <2>1, <2>4, GrantGoesOn DEF Step
    <3>2. Principalled(r)' = Keys /\ Declared(r)' = Keys
      BY <3>1 DEF Principalled, Declared
    <3>3. \A k \in Principalled(r)' : directory'[found'[r][k]].principal
      BY <1>7, <1>8, <2>1, <2>2, <3>1, <3>2
    <3>4. \A k \in Declared(r)' : /\ directory'[found'[r][k]].declared
                                  /\ Merged(r, k)' \subseteq directory'[found'[r][k]].scopes
      BY <1>7, <1>8, <2>1, <2>2, <3>1, <3>2
    <3>5. ASSUME NEW i \in 1 .. (at'[r] - 1)
          PROVE  LET k == Grants[i].app
                 IN  /\ Grants[i].api =>
                          PreAuthorised(r, k)' \subseteq directory'[found'[r][k]].pre
                     /\ Grants[i].access =>
                          Requested(r, k)' \subseteq directory'[found'[r][k]].access
      <4>1. i \in 1 .. at[r] /\ i \in 1 .. 5
        BY <2>1, <3>1
      <4>2. Grants[i].app \in Keys
        BY <4>1, Tables
      <4> QED
        BY <1>8, <2>3, <3>1, <4>1, <4>2
    <3> QED
      BY <3>1, <3>3, <3>4, <3>5
  <2>5. CASE ~Active(r)'
    <3>1. at[r] = 5 /\ pc'[r] = "done"
      <4>1. ASSUME UNCHANGED pc PROVE FALSE
        BY <2>1, <2>5, <4>1 DEF Active, Calls
      <4>2. ~(at[r] < 5) /\ End(r, "done")
        BY Zenon, <1>18, <4>1, GrantControl
      <4> QED
        BY <1>11, <2>1, <4>2 DEF Ended
    <3>2. Wired(directory')
      <4>1. \A k \in Keys :
              /\ found[r][k][1] = k /\ directory'[found[r][k]] # Missing
              /\ directory'[found[r][k]].principal /\ directory'[found[r][k]].declared
              /\ Merged(r, k) \subseteq directory'[found[r][k]].scopes
        BY <1>1, <1>4, <1>7, <2>1, <2>2, Sticks
      <4>2. \A i \in 1 .. 5 :
              LET k == Grants[i].app
              IN  /\ Grants[i].api => PreAuthorised(r, k) \subseteq directory'[found[r][k]].pre
                  /\ Grants[i].access => Requested(r, k) \subseteq directory'[found[r][k]].access
        BY <2>3, <3>1
      <4> QED
        BY <1>3, <4>1, <4>2, WiredBy
    <3>3. Principalled(r)' = {} /\ Declared(r)' = {}
      BY <3>1 DEF Principalled, Declared
    <3> QED
      BY <3>1, <3>2, <3>3
  <2> QED
    BY <2>4, <2>5
<1>19. ASSUME NEW q \in Runs, q # r, Start(q) \/ Step(q) \/ Fail(q) PROVE W(r)'
  BY <1>9, <1>19, Others
<1>20. CASE UNCHANGED <<pc, at, found, snapshot>>
  BY <1>9, <1>20
<1> QED
  BY Zenon, <1>12, <1>13, <1>15, <1>16, <1>17, <1>18, <1>19, <1>20 DEF Next, Step, OperatorGrants, vars

------------------------------------------------------------------------------
(* What follows.                                                           *)

\* The inductive invariant: every name a run has found is there, a scope it has
\* read has the id it read, runs of one ref do not meet, and what such a run
\* is through with stands.
THEOREM Inductive == Spec => []IInv
<1>1. Init => IInv
  <2> SUFFICES ASSUME Init PROVE IInv
    OBVIOUS
  <2>1. TypeOK
    <3>1. NoIds \in [Keys -> AppIds] /\ Nothing \in [Keys -> App]
      BY DEF NoIds, Nothing, NewApp, App, AppIds
    <3> QED
      BY <3>1 DEF Init, TypeOK, Calls, Ended
  <2>2. \A r \in Runs : /\ pc[r] = "idle" /\ at[r] = 1 /\ ~Active(r)
                        /\ Known(r) = {} /\ Shown(r) = {}
    BY DEF Init, Known, Shown, Active, Calls
  <2>3. FoundExist
    BY <2>2 DEF FoundExist, Calls, Ended
  <2>4. ScopesAgree
    BY <2>2 DEF ScopesAgree, Init
  <2>5. TakeTurns
    BY <2>2 DEF TakeTurns, Init
  <2>6. NothingUnseen
    BY <2>2 DEF NothingUnseen
  <2>7. WorkStands
    BY <2>2 DEF WorkStands, Principalled, Declared
  <2> QED
    BY <2>1, <2>3, <2>4, <2>5, <2>6, <2>7 DEF IInv
<1>2. IInv /\ [Next]_vars => IInv'
  BY TypeOKStep, FoundExistStep, ScopesAgreeStep, TakeTurnsStep, NothingUnseenStep,
     WorkStandsStep DEF IInv
<1> QED
  BY <1>1, <1>2, PTL DEF Spec

\* Runs, directory and snapshots keep their types.
THEOREM TypeCorrect == Spec => []TypeOK
BY Inductive, PTL DEF IInv

\* Runs that follow each other leave one application of each name, however
\* many of them die half-way: _find_application finds what the last created.
THEOREM NamesUnique == Spec => []SerialRunsKeepNamesUnique
<1>1. IInv => SerialRunsKeepNamesUnique
  BY DEF IInv, TakeTurns, SerialRunsKeepNamesUnique
<1> QED
  BY <1>1, Inductive, PTL

\* A run that ends well leaves a working chain, whatever it found and however
\* the runs before it died, as long as the concurrency group keeps them apart.
THEOREM ChainWired == Spec => []DoneMeansWired
<1>1. IInv => DoneMeansWired
  BY DEF IInv, WorkStands, DoneMeansWired
<1> QED
  BY <1>1, Inductive, PTL

\* No later run breaks a chain that works, at any of its steps: what a patch
\* replaces its run has read, but for an operator's clients.
THEOREM ChainStays == Spec => WiredStays
<1> DEFINE A == Serial /\ Wired(directory) => Wired(directory')
<1>1. IInv /\ [Next]_vars => A
  <2> SUFFICES ASSUME IInv, [Next]_vars, Serial, Wired(directory) PROVE Wired(directory')
    OBVIOUS
  <2>1. TypeOK /\ FoundExist /\ ScopesAgree /\ TakeTurns /\ NothingUnseen
    BY DEF IInv
  <2>2. Serial'
    BY RefKept DEF Serial
  <2>3. Unique(directory')
    <3>1. TakeTurns'
      BY <2>1, TakeTurnsStep
    <3> QED
      BY <2>2, <3>1 DEF TakeTurns
  <2> QED
    BY <2>1, <2>3, WiredKept
<1>2. IInv /\ [Next]_vars => [A]_vars
  BY <1>1
<1> QED
  BY <1>2, Inductive, PTL DEF Spec, WiredStays

\* A scope keeps its id for ever, whoever writes the application and however
\* the runs overlap: what _merge_scopes merges is never stale in what matters.
THEOREM IdsStable == Spec => ScopeIdsStable
<1> DEFINE A == \A a \in AppIds :
                  directory[a] # Missing =>
                    \A p \in directory[a].scopes, q \in directory'[a].scopes :
                      p[1] = q[1] => p[2] = q[2]
<1>1. IInv /\ [Next]_vars => A
  <2> SUFFICES ASSUME IInv, [Next]_vars, NEW a \in AppIds, directory[a] # Missing,
                      NEW p \in directory[a].scopes, NEW q \in directory'[a].scopes,
                      p[1] = q[1]
               PROVE  p[2] = q[2]
    OBVIOUS
  <2>1. TypeOK /\ FoundExist /\ ScopesAgree
    BY DEF IInv
  <2>2. CASE directory'[a].scopes = directory[a].scopes
    BY <2>1, <2>2 DEF ScopesAgree, OneIdPerScope
  <2>3. ASSUME NEW r \in Runs, NEW k \in Keys, k \in Shown(r), found[r][k] = a,
               directory'[a].scopes = Merged(r, k)
        PROVE  p[2] = q[2]
    BY <2>1, <2>3 DEF ScopesAgree
  <2> QED
    BY <2>1, <2>2, <2>3, Writes
<1>2. IInv /\ [Next]_vars => [A]_vars
  BY <1>1
<1> QED
  BY <1>2, Inductive, PTL DEF Spec, ScopeIdsStable

\* A patch takes away only pre-authorisations its run has not read.
THEOREM ForgetOnlyUnseen == Spec => ForgetsOnlyTheUnseen
<1> DEFINE A == \A a \in AppIds :
                  directory[a] # Missing =>
                    \A g \in directory[a].pre \ directory'[a].pre :
                      \E r \in Runs :
                        /\ <<pc'[r], at'[r]>> # <<pc[r], at[r]>>
                        /\ found[r][a[1]] = a
                        /\ g \notin snapshot[r][a[1]].pre
<1>1. IInv /\ [Next]_vars => A
  <2> SUFFICES ASSUME IInv, [Next]_vars, NEW a \in AppIds, directory[a] # Missing,
                      NEW g \in directory[a].pre \ directory'[a].pre
               PROVE  \E r \in Runs :
                        /\ <<pc'[r], at'[r]>> # <<pc[r], at[r]>>
                        /\ found[r][a[1]] = a
                        /\ g \notin snapshot[r][a[1]].pre
    OBVIOUS
  <2>1. TypeOK /\ FoundExist
    BY DEF IInv
  <2>2. PICK r \in Runs, k \in Keys : /\ k \in Shown(r) /\ found[r][k] = a
                                      /\ <<pc'[r], at'[r]>> # <<pc[r], at[r]>>
                                      /\ snapshot[r][k].pre \subseteq directory'[a].pre
    BY <2>1, Writes
  <2>3. a[1] = k
    BY <2>1, <2>2 DEF FoundExist, Known
  <2> QED
    BY <2>2, <2>3
<1>2. IInv /\ [Next]_vars => [A]_vars
  BY <1>1
<1> QED
  BY <1>2, Inductive, PTL DEF Spec, ForgetsOnlyTheUnseen

==============================================================================
