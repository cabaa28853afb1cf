---------------------------- MODULE EntraBootstrap ----------------------------
(***************************************************************************)
(* tools/ci/m9_entra_app_bootstrap.py: the job that creates the lab's four *)
(* app registrations in Entra ID, or brings them up to date, and wires     *)
(* them to each other.                                                     *)
(*                                                                         *)
(* A run reads every application once, at the start, and computes all its  *)
(* later patches from that snapshot.  Every call of the Azure CLI is a     *)
(* step; it may fail, and then the run ends where it stands (so may the    *)
(* runner itself).  m8-deploy-live.yml lets runs of one ref follow each    *)
(* other only (its concurrency group), runs of two refs overlap, and an    *)
(* operator may edit the applications meanwhile.                           *)
(***************************************************************************)
EXTENDS Naturals, Sequences, FiniteSets

CONSTANTS
  Runs,       \* workflow runs that bootstrap the directory
  Refs,       \* refs they are dispatched on
  Initial,    \* directories they may find
  Cli,        \* AZURE_CLI_APP_ID
  Guest,      \* a client an operator pre-authorises by hand
  Edited,     \* the applications the operator does that to
  Missing,    \* no such application
  Copies,     \* bound: applications of one name
  MaxStarts   \* bound: starts of a run

Keys == {"bff", "agent", "mcp", "smoke"}
Order == <<"bff", "agent", "mcp", "smoke">>

\* The scopes each application exposes.
Scopes(k) ==
  CASE k = "bff" -> {"mcp.access", "access_as_user"}
    [] k \in {"agent", "mcp"} -> {"mcp.access", "mcp.write"}
    [] k = "smoke" -> {}

ScopeNames == {"mcp.access", "access_as_user", "mcp.write"}

\* The id of a scope: derived from application and scope (uuid5), or chosen by
\* whoever created the scope by hand.
StableId(k, s) == <<k, s>>
HandmadeId(s) == <<"handmade", s>>
ScopeIds == {StableId(k, s) : k \in Keys, s \in ScopeNames}
              \union {HandmadeId(s) : s \in ScopeNames}

\* An application's appId: its display name and which of that name it is.
AppIds == Keys \X (1 .. Copies)
Clients == AppIds \union {Cli, Guest}

App == [scopes : SUBSET (ScopeNames \X ScopeIds),  \* oauth2PermissionScopes
        pre : SUBSET (Clients \X ScopeIds),        \* preAuthorizedApplications
        access : SUBSET (AppIds \X ScopeIds),      \* requiredResourceAccess
        principal : BOOLEAN,                       \* has a service principal
        declared : BOOLEAN]                        \* identifier URI, token version
Directory == [AppIds -> App \union {Missing}]

NewApp == [scopes |-> {}, pre |-> {}, access |-> {}, principal |-> FALSE, declared |-> FALSE]

Named(d, k) == {a \in AppIds : a[1] = k /\ d[a] # Missing}
OneIdPerScope(d) ==
  \A a \in AppIds :
    d[a] # Missing => \A p, q \in d[a].scopes : p[1] = q[1] => p[2] = q[2]
Unique(d) == \A k \in Keys : \A a, b \in Named(d, k) : a = b

ASSUME BootstrapAssumption ==
  /\ Initial \subseteq Directory
  /\ \A d \in Initial : Unique(d) /\ OneIdPerScope(d)
  /\ Edited \subseteq Keys
  /\ Missing \notin App
  /\ Cli # Guest /\ Cli \notin AppIds /\ Guest \notin AppIds
  /\ Copies \in Nat \ {0}
  /\ MaxStarts \in Nat

VARIABLES
  directory,  \* the applications in Entra ID
  ref,        \* run -> the ref it was dispatched on
  pc,         \* run -> the call it makes next
  at,         \* run -> position of that call in its loop
  found,      \* run -> key -> the appId it works with
  snapshot,   \* run -> key -> the application as it was read
  starts      \* run -> how often it has been started

vars == <<directory, ref, pc, at, found, snapshot, starts>>

Calls == {"find", "create", "show", "check", "principal", "declare", "grant"}
Ended == {"idle", "done", "failed"}

TypeOK ==
  /\ directory \in Directory
  /\ ref \in [Runs -> Refs]
  /\ pc \in [Runs -> Calls \union Ended]
  /\ at \in [Runs -> 1 .. 5]
  /\ found \in [Runs -> [Keys -> AppIds]]
  /\ snapshot \in [Runs -> [Keys -> App]]
  /\ starts \in [Runs -> Nat]

Nothing == [k \in Keys |-> NewApp]
NoIds == [k \in Keys |-> <<k, 1>>]

Init ==
  /\ directory \in Initial
  /\ ref \in [Runs -> Refs]
  /\ pc = [r \in Runs |-> "idle"]
  /\ at = [r \in Runs |-> 1]
  /\ found = [r \in Runs |-> NoIds]
  /\ snapshot = [r \in Runs |-> Nothing]
  /\ starts = [r \in Runs |-> 0]

Active(r) == pc[r] \in Calls

------------------------------------------------------------------------------
(* What a run computes from its snapshot.                                  *)

MergeScopesFresh(k, old) == {<<s, StableId(k, s)>> : s \in Scopes(k)}

\* _merge_scopes: the required scopes, an existing one with the id it has.
MergeScopes(k, old) ==
  {p \in Scopes(k) \X ScopeIds :
     IF \E q \in old : q[1] = p[1] THEN p \in old ELSE p[2] = StableId(k, p[1])}

Merged(r, k) == MergeScopes(k, snapshot[r][k].scopes)

IdsOfStable(r, k, names) == {StableId(k, s) : s \in names}

\* The ids a run has for some scopes of an application.
IdsOf(r, k, names) == {p[2] : p \in {q \in Merged(r, k) : q[1] \in names}}

\* Who may call whom without consent: _merge_preauthorized, from the snapshot.
PreAuthorised(r, k) ==
  CASE k = "bff" -> ({found[r]["smoke"]} \X IdsOf(r, "bff", {"mcp.access"}))
                      \union ({Cli} \X IdsOf(r, "bff", Scopes("bff")))
    [] k = "agent" -> {found[r]["bff"]} \X IdsOf(r, "agent", Scopes("agent"))
    [] k = "mcp" -> {found[r]["agent"]} \X IdsOf(r, "mcp", Scopes("mcp"))
    [] k = "smoke" -> {}

\* Which scopes an application asks for: _merge_required_resource_access.
Requested(r, k) ==
  CASE k = "bff" -> {found[r]["agent"]} \X IdsOf(r, "agent", Scopes("agent"))
    [] k = "agent" -> {found[r]["mcp"]} \X IdsOf(r, "mcp", Scopes("mcp"))
    [] k = "smoke" -> {found[r]["bff"]} \X IdsOf(r, "bff", {"mcp.access"})
    [] k = "mcp" -> {}

\* The patches that wire the applications, in the order they are sent.
Grants ==
  <<[app |-> "bff", api |-> TRUE, access |-> FALSE],
    [app |-> "agent", api |-> TRUE, access |-> TRUE],
    [app |-> "mcp", api |-> TRUE, access |-> FALSE],
    [app |-> "bff", api |-> FALSE, access |-> TRUE],
    [app |-> "smoke", api |-> FALSE, access |-> TRUE]>>

------------------------------------------------------------------------------
(* A run.                                                                  *)

\* The next round of the loop over the applications, or the first of the next.
Round(r, again, next) ==
  IF at[r] < Len(Order)
  THEN /\ pc' = [pc EXCEPT ![r] = again]
       /\ at' = [at EXCEPT ![r] = at[r] + 1]
  ELSE /\ pc' = [pc EXCEPT ![r] = next]
       /\ at' = [at EXCEPT ![r] = 1]

Goto(r, call) == pc' = [pc EXCEPT ![r] = call] /\ UNCHANGED at

\* The run ends, and its variables go with it.
End(r, status) ==
  /\ pc' = [pc EXCEPT ![r] = status]
  /\ at' = [at EXCEPT ![r] = 1]
  /\ found' = [found EXCEPT ![r] = NoIds]
  /\ snapshot' = [snapshot EXCEPT ![r] = Nothing]

Key(r) == Order[at[r]]
Patch(a, app) == directory' = [directory EXCEPT ![a] = app]

\* The concurrency group holds a run back while another of its ref is on.
Start(r) ==
  /\ ~Active(r)
  /\ \A q \in Runs \ {r} : ref[q] = ref[r] => ~Active(q)
  /\ starts[r] < MaxStarts
  /\ starts' = [starts EXCEPT ![r] = starts[r] + 1]
  /\ Goto(r, "find")
  /\ UNCHANGED <<directory, ref, found, snapshot>>

FindDeclaredOnly(r) ==
  /\ pc[r] = "find"
  /\ LET apps == {a \in Named(directory, Key(r)) : directory[a].declared}
     IN  \/ /\ apps = {}
            /\ Goto(r, "create")
            /\ UNCHANGED <<found, snapshot>>
         \/ \E a \in apps :
              /\ apps = {a}
              /\ found' = [found EXCEPT ![r][Key(r)] = a]
              /\ Goto(r, "show")
              /\ UNCHANGED snapshot
         \/ /\ Cardinality(apps) > 1
            /\ End(r, "failed")
  /\ UNCHANGED <<directory, ref, starts>>

\* _find_application: by display name; two of that name end the run.
Find(r) ==
  /\ pc[r] = "find"
  /\ LET apps == Named(directory, Key(r))
     IN  \/ /\ apps = {}
            /\ Goto(r, "create")
            /\ UNCHANGED <<found, snapshot>>
         \/ \E a \in apps :
              /\ apps = {a}
              /\ found' = [found EXCEPT ![r][Key(r)] = a]
              /\ Goto(r, "show")
              /\ UNCHANGED snapshot
         \/ /\ Cardinality(apps) > 1
            /\ End(r, "failed")
  /\ UNCHANGED <<directory, ref, starts>>

\* az ad app create: display names need not be unique.
Create(r) ==
  /\ pc[r] = "create"
  /\ \E n \in 1 .. Copies :
       /\ directory[<<Key(r), n>>] = Missing
       /\ \A m \in 1 .. (n - 1) : directory[<<Key(r), m>>] # Missing
       /\ Patch(<<Key(r), n>>, NewApp)
       /\ found' = [found EXCEPT ![r][Key(r)] = <<Key(r), n>>]
  /\ Goto(r, "show")
  /\ UNCHANGED <<ref, snapshot, starts>>

\* az ad app show: what every later patch is computed from.
Show(r) ==
  /\ pc[r] = "show"
  /\ snapshot' = [snapshot EXCEPT ![r][Key(r)] = directory[found[r][Key(r)]]]
  /\ Round(r, "find", "check")
  /\ UNCHANGED <<directory, ref, found, starts>>

\* _ensure_service_principal: look for it, and create it if it is not there.
CheckPrincipal(r) ==
  /\ pc[r] = "check"
  /\ IF directory[found[r][Key(r)]].principal
     THEN Round(r, "check", "declare")
     ELSE Goto(r, "principal")
  /\ UNCHANGED <<directory, ref, found, snapshot, starts>>

\* A principal that has come into being since is an error.
CreatePrincipal(r) ==
  /\ pc[r] = "principal"
  /\ LET a == found[r][Key(r)]
     IN  /\ ~directory[a].principal
         /\ Patch(a, [directory[a] EXCEPT !.principal = TRUE])
  /\ Round(r, "check", "declare")
  /\ UNCHANGED <<ref, found, snapshot, starts>>

NextGrantTooFar(r) ==
  IF at[r] <= Len(Grants)
  THEN at' = [at EXCEPT ![r] = at[r] + 1] /\ UNCHANGED <<pc, found, snapshot>>
  ELSE End(r, "done")

\* The last of the wiring patches ends the run.
NextGrant(r) ==
  IF at[r] < Len(Grants)
  THEN at' = [at EXCEPT ![r] = at[r] + 1] /\ UNCHANGED <<pc, found, snapshot>>
  ELSE End(r, "done")

DeclareClearing(r) ==
  /\ pc[r] = "declare"
  /\ LET a == found[r][Key(r)]
     IN  Patch(a, [directory[a] EXCEPT !.declared = TRUE,
                                       !.scopes = Merged(r, Key(r)),
                                       !.pre = {}])
  /\ Round(r, "declare", "grant")
  /\ UNCHANGED <<ref, found, snapshot, starts>>

\* First loop: scopes, and the pre-authorisations as they were read.
Declare(r) ==
  /\ pc[r] = "declare"
  /\ LET a == found[r][Key(r)]
     IN  Patch(a, [directory[a] EXCEPT !.declared = TRUE,
                                       !.scopes = Merged(r, Key(r)),
                                       !.pre = snapshot[r][Key(r)].pre])
  /\ Round(r, "declare", "grant")
  /\ UNCHANGED <<ref, found, snapshot, starts>>

GrantReplacing(r) ==
  /\ pc[r] = "grant"
  /\ LET g == Grants[at[r]]
         a == found[r][g.app]
         app == directory[a]
     IN  Patch(a,
           [app EXCEPT
              !.scopes = IF g.api THEN Merged(r, g.app) ELSE app.scopes,
              !.pre = IF g.api THEN PreAuthorised(r, g.app) ELSE app.pre,
              !.access = IF g.access THEN snapshot[r][g.app].access \union Requested(r, g.app)
                         ELSE app.access])
  /\ NextGrant(r)
  /\ UNCHANGED <<ref, starts>>

\* The patches that wire the applications, each computed from the snapshot.
Grant(r) ==
  /\ pc[r] = "grant"
  /\ LET g == Grants[at[r]]
         a == found[r][g.app]
         app == directory[a]
         old == snapshot[r][g.app]
     IN  Patch(a,
           [app EXCEPT
              !.scopes = IF g.api THEN Merged(r, g.app) ELSE app.scopes,
              !.pre = IF g.api THEN old.pre \union PreAuthorised(r, g.app) ELSE app.pre,
              !.access = IF g.access THEN old.access \union Requested(r, g.app)
                         ELSE app.access])
  /\ NextGrant(r)
  /\ UNCHANGED <<ref, starts>>

\* A call fails (RuntimeError), or the runner is lost.
Fail(r) ==
  /\ Active(r)
  /\ End(r, "failed")
  /\ UNCHANGED <<directory, ref, starts>>

\* An operator pre-authorises a client of theirs at one of the applications.
OperatorGrants(a) ==
  /\ a[1] \in Edited
  /\ directory[a] # Missing
  /\ \E p \in directory[a].scopes :
       Patch(a, [directory[a] EXCEPT !.pre = @ \union {<<Guest, p[2]>>}])
  /\ UNCHANGED <<ref, pc, at, found, snapshot, starts>>

Step(r) ==
  \/ Find(r) \/ Create(r) \/ Show(r)
  \/ CheckPrincipal(r) \/ CreatePrincipal(r)
  \/ Declare(r) \/ Grant(r)

Next ==
  \/ \E r \in Runs : Start(r) \/ Step(r) \/ Fail(r)
  \/ \E a \in AppIds : OperatorGrants(a)

Spec == Init /\ [][Next]_vars

------------------------------------------------------------------------------
(* What the bootstrap promises.                                            *)

\* All runs are of one ref, so that the concurrency group keeps them apart.
Serial == \A q, r \in Runs : ref[q] = ref[r]

AppOf(d, k) == CHOOSE a \in AppIds : a \in Named(d, k)

\* The client has the resource's scope s, by the id it has there.
Allowed(d, client, resource, s) ==
  \E p \in d[resource].scopes : p[1] = s /\ <<client, p[2]>> \in d[resource].pre
Asked(d, client, resource, s) ==
  \E p \in d[resource].scopes : p[1] = s /\ <<resource, p[2]>> \in d[client].access

\* The chain works: one application of each name, each with its scopes, and
\* smoke client -> BFF -> Agent -> MCP API, and the CLI, may use them.
Complete(d) ==
  \A k \in Keys :
    /\ Named(d, k) # {}
    /\ LET a == AppOf(d, k)
       IN  /\ d[a].principal /\ d[a].declared
           /\ \A s \in Scopes(k) : \E p \in d[a].scopes : p[1] = s

Linked(d) ==
  LET app == [k \in Keys |-> AppOf(d, k)]
  IN  /\ Allowed(d, app["smoke"], app["bff"], "mcp.access")
      /\ \A s \in Scopes("bff") : Allowed(d, Cli, app["bff"], s)
      /\ \A s \in Scopes("agent") : Allowed(d, app["bff"], app["agent"], s)
      /\ \A s \in Scopes("mcp") : Allowed(d, app["agent"], app["mcp"], s)
      /\ \A s \in Scopes("agent") : Asked(d, app["bff"], app["agent"], s)
      /\ \A s \in Scopes("mcp") : Asked(d, app["agent"], app["mcp"], s)
      /\ Asked(d, app["smoke"], app["bff"], "mcp.access")

Wired(d) == Unique(d) /\ Complete(d) /\ Linked(d)

\* Runs that follow each other, however many of them die half-way, leave one
\* application of each name: the next run finds what the last has created.
SerialRunsKeepNamesUnique == Serial => Unique(directory)

\* A run that ends well leaves a working chain, whatever it found.
DoneMeansWired == Serial => \A r \in Runs : pc[r] = "done" => Wired(directory)

\* No step of a later run, and no death of it, breaks a chain that works.
WiredStays == [][Serial /\ Wired(directory) => Wired(directory')]_vars

\* Tokens, consents and the other applications name a scope by its id: once a
\* scope has one it keeps it, even if runs overlap.
ScopeIdsStable ==
  [][\A a \in AppIds :
       directory[a] # Missing =>
         \A p \in directory[a].scopes, q \in directory'[a].scopes :
           p[1] = q[1] => p[2] = q[2]]_vars

\* A run takes a pre-authorisation away only if it had not seen it: one made
\* after its snapshot, by an operator or by an overlapping run.
ForgetsOnlyTheUnseen ==
  [][\A a \in AppIds :
       directory[a] # Missing =>
         \A g \in directory[a].pre \ directory'[a].pre :
           \E r \in Runs :
             /\ <<pc'[r], at'[r]>> # <<pc[r], at[r]>>
             /\ found[r][a[1]] = a
             /\ g \notin snapshot[r][a[1]].pre]_vars

------------------------------------------------------------------------------
(* Why it holds.                                                           *)

\* The applications a run has an appId of, and those it has read.
Shown(r) ==
  {k \in Keys : IF pc[r] \in {"find", "create", "show"}
                THEN \E i \in 1 .. (at[r] - 1) : Order[i] = k
                ELSE pc[r] \in Calls}
Known(r) == {k \in Keys : k \in Shown(r) \/ (pc[r] = "show" /\ k = Key(r))}

\* Nobody deletes an application, so what a run has found is there.
FoundExist ==
  \A r \in Runs :
    /\ pc[r] \in Calls \ {"grant"} => at[r] \in 1 .. 4
    /\ pc[r] \in Ended => at[r] = 1
    /\ \A k \in Known(r) : found[r][k][1] = k /\ directory[found[r][k]] # Missing

\* What a run has read of a scope it needs is still so, and what it is going
\* to write agrees with what is there.
ScopesAgree ==
  /\ OneIdPerScope(directory)
  /\ \A r \in Runs : \A k \in Shown(r) :
       /\ \A p \in snapshot[r][k].scopes :
            p[1] \in Scopes(k) => p \in directory[found[r][k]].scopes
       /\ \A p \in Merged(r, k), q \in directory[found[r][k]].scopes :
            p[1] = q[1] => p[2] = q[2]

\* Runs of one ref take turns: what find has not found is still not there.
TakeTurns ==
  Serial =>
    /\ \A q, r \in Runs : Active(q) /\ Active(r) => q = r
    /\ \A r \in Runs : pc[r] = "create" => Named(directory, Key(r)) = {}
    /\ Unique(directory)

\* Between two runs only an operator writes: whatever a patch of a run replaces,
\* but for a client of the operator's, the run has read or written itself.
NothingUnseen ==
  Serial =>
    \A r \in Runs : \A k \in Shown(r) :
      LET app == directory[found[r][k]]
          old == snapshot[r][k]
      IN  /\ \A g \in app.pre :
               \/ g[1] = Guest \/ g \in old.pre
               \/ pc[r] = "grant" /\ g \in PreAuthorised(r, k)
          /\ \A g \in app.access :
               g \in old.access \/ (pc[r] = "grant" /\ g \in Requested(r, k))

\* The applications a loop is through with; those whose principal a run has
\* seen to, and those it has declared.
Behind(r) == {k \in Keys : \E i \in 1 .. (at[r] - 1) : Order[i] = k}
Principalled(r) ==
  IF pc[r] \in {"check", "principal"} THEN Behind(r)
  ELSE IF pc[r] \in {"declare", "grant"} THEN Keys ELSE {}
Declared(r) ==
  IF pc[r] = "declare" THEN Behind(r) ELSE IF pc[r] = "grant" THEN Keys ELSE {}

\* What a run is through with is there, and stays: so that the last patch of a
\* run completes the chain.
WorkStands ==
  Serial =>
    \A r \in Runs :
      /\ \A k \in Principalled(r) : directory[found[r][k]].principal
      /\ \A k \in Declared(r) :
           /\ directory[found[r][k]].declared
           /\ Merged(r, k) \subseteq directory[found[r][k]].scopes
      /\ pc[r] = "grant" =>
           \A i \in 1 .. (at[r] - 1) :
             LET k == Grants[i].app
             IN  /\ Grants[i].api => PreAuthorised(r, k) \subseteq directory[found[r][k]].pre
                 /\ Grants[i].access => Requested(r, k) \subseteq directory[found[r][k]].access
      /\ pc[r] = "done" => Wired(directory)

\* The inductive invariant.
IInv == TypeOK /\ FoundExist /\ ScopesAgree /\ TakeTurns /\ NothingUnseen /\ WorkStands

==============================================================================
