# Agentic identity lab: TLA+ models and proofs

The repository is a lab in which a user's identity travels through three
services: a browser client calls a BFF, the BFF calls an Agent Execution
Service, and the Agent calls an MCP protected API. Around the services stand
the workflows that deploy them to Azure Container Apps, scale them, probe them
and create their Entra ID applications.

This directory models those parts of the code in TLA+, checks the models with
TLC on small instances, and proves the most important safety properties with
TLAPS for every value of the constants. `PROJECT.json` is the machine-readable
index: components, runs, the map from each definition to the lines it models,
the mutants each property must catch, the hazards and the findings.

| Module | What it models | Checked by | Proved in |
|---|---|---|---|
| `JwksCache` (abstract: `KeyLookup`) | the signing-key cache that the threads of a service share | `jwks_cache` | `JwksCacheProofs` |
| `TokenGuards`, `ServiceConfig`, `TokenVerdicts` | the claim guards, the environments a service starts with, and how the verdicts of the three services and of the sidecar relate | `token_verdicts` | `TokenVerdictsProofs` |
| `IdentityChain` (abstract: `SessionGate`) | one chat session request through the three services | `identity_chain` | `IdentityChainProofs` |
| `EntraBootstrap` | the job that creates and wires the Entra applications | `entra_bootstrap` | `EntraBootstrapProofs` |
| `AcaLifecycle` | resume, shutdown, smoke test and deployment over the same container apps | `aca_exposure`, `aca_shutdown`, `aca_restored` | `AcaLifecycleProofs` |
| `DeployPipeline` | the job graph of the deployment and what it leaves in Azure | `deploy_pipeline`, `deploy_order` | `DeployPipelineProofs` |
| `SmokeEvidence` | the live smoke job and its tools: what makes a run pass | `smoke_trace`, `smoke_leak` | `SmokeEvidenceProofs` |
| `SpaSession` | the browser client: sign-in, sign-out and session requests in flight | `spa_session` | `SpaSessionProofs` |

Paths below are relative to `src/`.

## 1. Inventory

### Services and libraries

**JWKS key cache** (`apps/shared/python/identity_lab_auth/jwks.py`).
State: `_cache` (kid to key) and `_fetched_at`, one object per JWKS URL and
process, no lock. Operations: `get_key` with its staleness test and single
refresh on a miss, `_refresh` (HTTP fetch, store, stamp). Called by
`validate_strict` from the synchronous dependencies of all three services,
which FastAPI runs in a thread pool: threads overlap between any two of those
assignments while the provider rotates its keys. Correct when no key is used
long after its withdrawal, a new key is usable at once, and no call refreshes
for ever.

**Claim guards** (`guards.py`, `token_type.py`, `claims.py`). No state: pure
checks of audience, scope, issuer, tenant, validity with clock skew and token
type, and `sanitize_claims`, which trims, cuts lists at 20 items and texts at 256
characters, turns over-long objects into texts and drops claims that are null or
not on its list. Hard: the BFF stops at the first failure, the Agent collects all
and classifies them by name, the MCP API checks the *sanitized* claims. Correct
when the three agree where they should, and what sanitizing lets through besides
is known.

**Strict token validation** (`jwks.py`, `validate_strict`; the `auth.py` of
each service). Signature and registered claims of a token, without leeway, on
keys from the cache. Its outcome is part of `IdentityChain`; cryptography is not
modelled.

**BFF session endpoint** (`apps/bff/python-fastapi/app/main.py`, `auth.py`).
State per request: the user's token, the header it sends on, the answer.
Operations: authenticate, exchange, call the Agent with a time-out, answer.
Correct when a session is opened only if every service the deployment requires
has authorised this request, and every request is answered.

**Agent Execution Service** (`apps/agent-execution/.../app/main.py`,
`auth.py`). Authenticates, exchanges the token it was sent, calls the MCP API.
Hard: its caller may have given up on it, its own call may time out, fail or
answer late. Correct when it authorises before it acts and its handler ends.

**MCP protected API** (`apps/mcp-protected-api/python-fastapi/app/main.py`,
`auth.py`). Authenticates by the scope of the tool. No outgoing calls.

**On-behalf-of exchange** (`obo.py`). A mock exchange that mints claims, and the
Entra token endpoint (external). Correct when what it yields is good for the
service it is for and for no other. The claims of the mock exchange are returned to
nobody who checks them.

**Service configuration** (`config.py` of the services, `auth_settings.py`,
`agent_obo_settings.py`). Environment variables read once, at import: a service
whose environment is refused never serves. State: none after that. Hard: the
guards treat an empty setting as "do not check", so whether a strict service
checks anything rests on what another file refuses to start with. Correct when a
strict service that started has no guard off.

**Agent sidecar client** (`agent_obo.py`). A mock of the sidecar that validates a
token for the Agent's blueprint and exchanges it, with checks of its own: the
audience must be one string, any truthy `scp` will do, and the clock has no skew. Two
functions of the Agent call it and no route is wired to them. No state. Correct
when it lets nothing through that the Agent refuses for its audience or tenant.

**Correlation and telemetry** (`correlation.py`, `telemetry.py`). Identifiers
passed through and span attributes; no decision depends on them.

### Clients

**SPA** (`apps/spa-public-client/react-vite/src/App.tsx`, `bffClient.ts`).
State: account, shown session, shown error. Operations: sign in, sign out, start
a session, each an async function that goes on while the page stays usable.
Hard: an answer, or the end of a popup, that arrives after the user has signed
out or another has signed in; a failure inside the catch clause. Correct when
what is shown belongs to whoever is signed in, and no click asks for ever.

**Classic and SPFx clients** (`chat-loader.js`, `IdentityChatWebPart.ts`). One
request per page or click, for the one user the page has; no state but the
rendered text.

### Deployment and operations

**Entra application bootstrap** (`tools/ci/m9_entra_app_bootstrap.py`). State:
the applications in the directory, the run's snapshot of them. Operations: find,
create, read, patch, one Azure CLI call each. Hard: runs that die between two
calls, runs of two refs that overlap, an operator who edits meanwhile. Correct
when names stay unique, a run that ends well leaves a working chain, later runs
do not break it, and scope ids never change.

**Container lifecycle workflows** (`.github/workflows/m8-start-resume.yml`,
`m8-nightly-shutdown.yml`, `m8-smoke-trace.yml`). State: each app's replicas,
ingress, image and provisioning state. Hard: nothing keeps runs of different
workflows apart, and the smoke test opens internal apps to the outside for its
probes. Correct when what was opened is closed again, a shutdown sticks, and a
finished deployment runs its images.

**Deployment pipeline** (`.github/workflows/m8-deploy-live.yml`). State: the
status of nine jobs, the registry, the Terraform backend, the image of each app.
Hard: branches of the graph run side by side, any job may be skipped, refused
or die, and runs of two refs overlap. Correct when nothing changes without the
confirmation phrase, only complete builds are deployed, a rollout leaves one
version, and no job waits for ever.

**Smoke and preflight tools** (`tools/ci/m9_live_preflight.py`,
`m8_browser_smoke_harness.py`, `m9_agent_browser_command.py`,
`m8_smoke_trace_contract.py`, `tools/telemetry/kql/`). The live job of
`m8-smoke-trace.yml` runs them one after the other, in an environment checked by
two tools and over a log workspace that other requests write to. Hard: rows come
late and are of any request within the look-back, evidence may be given by hand or
printed by a command of the operator's, and three transports fail in ways of their own. Correct when a pass rests on
requests that were really handled, when the two tools agree, and when the job
ends. The static modes of these tools, the GitHub environment check and the
public-safety scan search files for fixed texts.

**Infrastructure code and APIM policies** (`infra/`). Declarative. The two facts
the models need (which apps are external, that an image is ignored after
creation) are mapped to their lines.

**Team tooling and documents** (`.squad/`, `docs/`). Not part of the program;
read for what they promise.

### How the components meet

`IdentityChain` uses the verdicts of `TokenGuards` and abstracts the key cache:
in strict mode any token may be refused, which is what a failed key fetch does;
what the cache may do beyond that is bounded by `KeyLookup`, which `JwksCache`
implements. `DeployPipeline` takes each change of an app as one step and leaves
its calls to `AcaLifecycle`, which in turn lets a deployment be any sequence of
those calls; its action `Elsewhere` stands for all operations of the other
workflows that leave images alone. The bootstrap is one step of the pipeline's
apply job and the subject of `EntraBootstrap`. `TokenVerdicts` starts from the
environments `ServiceConfig` lets start. `SmokeEvidence` is what the smoke run of
`AcaLifecycle` does between `Open` and `Close`, seen from its evidence, and
`SpaSession` is the client whose requests `IdentityChain` follows.

## 2. The modules

Each action is one atomic step of the code: the code between two points at
which another actor may move (another thread, process, workflow run, the
provider, the clock). The map in `PROJECT.json` names the lines of each.
Operators with a name such as `StoreCachingMiss` or `LookupWithoutRetry` are
mutants: plausible wrong versions of the definition that follows them, which the
properties must catch; no specification uses them.

### JwksCache and KeyLookup

`cache` and `fetchedAt` are `_cache` and `_fetched_at`; `jwks`, `publishedAt`,
`retiredAt` and `up` are the provider (external). A thread's `pc` follows
`get_key`: `Call` reads the clock (`_is_stale`), `Receive` or `Fail` is the HTTP
answer, `Store` and `Stamp` are the two assignments at the end of `_refresh`,
`Lookup` is `self._cache.get(kid)` with the one refresh on a miss. `Lookup` reads
the *shared* cache, which another thread may have replaced meanwhile.

`KeyLookup` is what callers rely on, with no cache in it: a key handed out is
published or was withdrawn less than `MaxAge` before the call; a kid is denied
only if it is not published or became so at most `MaxLag` before; a fetch error
is reported only while the endpoint is down. `JwksCache` implements it with
`MaxAge = TTL + 2 * RefreshBound` and `MaxLag = RefreshBound`. The two refreshes
in `MaxAge` are the cost of the missing lock: the document may be one refresh old
when it is stored, and be stamped with the time of another thread's later
refresh.

### TokenGuards, ServiceConfig and TokenVerdicts

`TokenGuards` has the guards as operators over a record of claims, and the
verdict (200, 401 or 403) each service builds from them: `BffVerdict` stops at
the first failure, `AgentVerdict` collects the failures and classifies them,
`McpVerdict` checks `SanitizeClaims` of the claims. `TokenVerdicts` puts one token
under a running clock and states how the verdicts relate. There is no state but the
clock; the point is the comparison of several implementations of one rule.

A claim that may hold several values (`Value`) is a list, a text of blank-separated
words or an object; absent, null, `""` and `[]` are falsy to every reader and one
value (`NoValue`), a blank text is not. Of a string the model knows what is left
without blanks (`Trim`) and its length, and words stand one blank apart; a string or text that is too long keeps the
words that fit and ends in `Fragment`, what is left of the last one with the ellipsis
(`Cut`). The items of a model object are the words of its serialisation, if that is
over-long and thus becomes a text. A time is a number, absent, `Null` or
`Unparsable`; `decimal` says that `exp` is a string such as `"1.5"`, which the guards
read and the sidecar does not.

`SanitizingWidensAsNamed` says what checking the sanitized claims lets through that
the BFF's checks on the token would not: values with blanks around them, an `iat`
that is null, and an over-long object in `scp`. All else, cuts included, can only
make a token lose. `SanitizingKeepsVerdict` is the equality for the tokens that
sanitizing leaves as they are. `ExchangeIsConfined` is about what the mock exchange
mints: its audience and its joined scopes are one text each and are cut like any
other.

`ServiceConfig` is what `load_settings` of each service refuses, as the sets of
offences of `BffRefusals`, `AgentRefusals` and `McpRefusals`; `TokenVerdicts` takes
its settings from an environment that all three accept (`Init`).
`StrictArmsEveryGuard` crosses the two: a guard is off when its setting is empty,
and a strict service that started answers 200 only to a token that was checked
against something (`Vouched`). `SidecarAccepts` and `SidecarExchanges` are the
sidecar's `validate` and `downstream_api`, which compare `aud` as it stands with a
string; `SidecarAgrees` names every way in which its answer and the Agent's differ, in
both directions.

### IdentityChain and SessionGate

`bff`, `agent` and `mcp` are the places of the three handlers, `toAgent` and
`toMcp` the Authorization headers between them (with who made the token),
`authorised` the services whose authentication let the request in. An httpx
time-out (`BffGiveUp`, `AgentGiveUp`) ends the wait and not the handler waited
for; any process may die at any moment. `Init` takes every auth mode, chain
configuration, exchange resource, fixture and user token. The BFF refuses a status of
400 or more (`BffReceive`) and would take a 3xx for a session; the Agent's routes
answer none. One auth mode holds for all services, as the compose files and Terraform set it. One request stands for
all: handlers share nothing but the key cache.

`SessionGate` is the promise of `POST /chat/session`: the services authorise one
after the other, and a session is answered only if all that the deployment
requires have authorised *this* request.

### EntraBootstrap

`directory` holds the applications, with scopes (name and id), pre-authorised
clients, requested scopes, service principal and declared metadata. A run's
`found` and `snapshot` are what it read at its start, from which it computes
every later patch. `pc` and `at` are its place in the loops over the
applications. Every Azure CLI call is a step, `Fail` may come before any of them.
`Start` has the guard of the concurrency group (runs of one ref follow each
other), `OperatorGrants` is an administrator who pre-authorises a client.

A PATCH of `api` is taken to merge at the level of its members, as Graph does. The
public-client flags, the identifier URI's text and the output file have no reader
in the model.

### AcaLifecycle

`app` holds each app's minimum replicas, external ingress, image and
provisioning state. A call that changes an app is refused while another operation
is pending on it (`Accepts`), and an accepted one is pending until `Settle`; its
caller waits (`Settled`). Runs of the four workflows walk over the apps with
`todo` and `cur`, in any order: `First`, `Look`, `Scale` for resume and shutdown;
`Wake`, `Open`, `Probe`, `Close`, `Rest` for the smoke test, whose restore step
runs always and swallows failures (`FailRestore`); `Inspect`, `Delete`, `Apply`,
`Rollout`, `Patch` for the deployment. `Rollout` reads the ingress that `Patch`
writes back, and another workflow may have changed it in between. `ignored` and
`carried` are history variables: which restoring calls failed, and which apps a
rollout made external that had been closed by then.

Details the model follows: the smoke workflow has no concurrency group, and the
groups of the others are per workflow and ref; a read of `minReplicas` that fails
makes the app be scaled anyway; Terraform declares the ingress and not the
replicas, and ignores the image of an app that exists; a failed operation keeps
the configuration that was asked for. The lock of the Terraform state is not
modelled, so the model allows more overlap than there is.

`OpenWhenProbed` is what the smoke test's first half is for: a run that has had the
lab to itself finds every inner app started and reachable when it probes. With two
overlapping runs this is false, as the first to end closes the apps of the other;
the property says `Alone`, and `ExposureEnds` speaks of the overlap.

### DeployPipeline

`status` is how far each of the nine jobs of a run is. A job is *ready* when all
it needs is over, and is skipped when its condition is false or anything it stands
on failed or was skipped (`success()` covers all ancestors; this is the semantics
of GitHub Actions and external). Skipping is derived (`Skipped`), not stored.
`Start` has the concurrency group; `FailFirst` is a job that is refused by its
reviewers or fails before it has done anything, `Fail` one that stops half-way.

`build-publish`, `protected-apply` and `app-rollout` are loops over the apps with
`left`; the other jobs change nothing in Azure. `images` are the images in the
registry, tagged with the run that built them; `deployed` is what each app runs.
`build-publish` hands the hello-world image on when it does not publish
(`Image`). The apply looks at each app (`Inspect`) and deletes it in a later call
(`Delete`) if the look found `Failed` or `InProgress`; `doomed` is what is owed between
the two, with the image the look met. It then creates what is missing with the
hello-world image. `Elsewhere` lets any app
become unsettled, or settle, at any time, for the operations of other workflows
and those in flight. The smoke stage passes `run_live_azure_checks=false` and so
makes no live checks.

`ServicesKept` does not say that what is deleted is unsettled: between look and
deletion an operation elsewhere may end well, and the settled service goes all the
same, in the model as in the code. It says that somebody looked and found it
unsettled, and that the image deleted is the one that was there at the look, unless a
run of another ref has come between (`Crossed`), whose rollout may have put a new one
there. Within a ref the concurrency group excludes this; its mutant is a `Start` without
it.

Not modelled: re-running failed jobs of a run, and GitHub's replacement of a
pending run by a newer one of its group (a run that never starts changes nothing).

### SmokeEvidence

A setting of the job is a spelling of the transport, a value for each input and a
text for each number, of the kinds the tools tell apart. `Start` is the preflight,
`Generate` the probes, `CheckInputs` the harness's own check of the same variables,
`Ask` the session request that leaves, `Answered` and `TimedOut` the ends of the wait
for it (of a browser, a command or a file), `QueryPositive` and `Judge` the two
queries and `evaluate_trace_results`. `failedAt` is the step a run failed at.

The workspace is two ages for each row: since it was last written, and since the
latest that queries return was; `Ingest` brings what a service has written so far.
`OtherRequest` is anybody else's request, which may have come as far as any hop;
`Leak` is a service that logs what the leakage query is for. A probe and a session
request leave rows of different kinds, and only the latter are operations.
`plan` keeps what the later steps make of the settings, `handled` is a history
variable: which services had handled their operation when the rows were read.

For `agent-browser` the harness runs whatever `M9_AGENT_BROWSER_COMMAND` holds and
believes what it prints; the operator guide
(`docs/deployment/aca/m8-operator-guide.md:99-108`) makes it a local file of the
operator's. `own` says whether the command is the repository's
(`m9_agent_browser_command.py`, `CommandResults`); any other may say anything, as an
artifact may (`ToldResults`). That a pass had a session is therefore promised only of
runs that asked by the repository's own code (`AsksItself`); what `PassIsEarned`
promises of every run are the rows.

Opening and closing the apps is in `AcaLifecycle`, whose place `probe` this module's
steps from `inputs` on fill.

### SpaSession

`account` is `activeAccount`, `signing` the popup of a sign-in or sign-out,
`sessionResult` and `error` whose session or failure is on the page. Each click on
"Start BFF session" has a `pc` through `startSession`: `silent`
(`acquireTokenSilent`), `session` (`createChatSession`), `popup` and `popup session`
(inside the catch clause, where a failure becomes an unhandled rejection). `owner` is
the account a click was made with, which the closure keeps; `crossed` is a history
variable: the accounts that signed out with a click in flight, or clicked while the
sign-out was under way.

MSAL and the BFF are external: they answer in any order, or fail. MSAL refuses a
popup while another is open. A token acquired in a popup is taken to be for the
click's account, which the code does not check.

## 3. What is checked

All runs check for deadlock except those marked *, whose systems end: their
requests or workflow runs are finitely many.

| Run | Properties | What it shows |
|---|---|---|
| `jwks_cache` | `FreshKey`, `RotatedKeyUsable`, `ImplementsKeyLookup`, `CallsEnd` | two threads over a cache that goes stale: how old a key may be, that a rotated key is usable at once, that the cache implements the lookup its callers rely on, and that no call refreshes for ever, not even for a kid no document holds |
| `token_verdicts`* | `GatewaysAgree`, `SanitizingKeepsVerdict`, `SanitizingWidensAsNamed`, `ExchangeIsConfined`, `StrictArmsEveryGuard`, `SidecarAgrees`, `ValidityIsAnInterval` | the verdicts of the three services and of the sidecar on every token, in every environment the services start with, while the clock passes nbf, iat and exp |
| `identity_chain`* | `InboundTokenStays`, `DelegationExpires`, `ImplementsSessionGate`, `EveryRequestAnswered`, `EveryHandlerEnds` | one request in every configuration, with time-outs, late answers, deaths, failing exchanges and tokens that expire on the way |
| `entra_bootstrap`* | `TypeOK`, `SerialRunsKeepNamesUnique`, `DoneMeansWired`, `WiredStays`, `ScopeIdsStable`, `ForgetsOnlyTheUnseen` | two runs, of one ref or two, over a directory with a hand-made application, each of which may die after any call |
| `aca_exposure`* | `ExposureEnds`, `OpenWhenProbed`, `RolloutCompletes` | a smoke test and a deployment over two internal apps, from every settled state of them: who closes what was opened, what the probes find, what a rollout leaves |
| `aca_shutdown`* | `ShutdownSticks` | one run of each of the four workflows on one app |
| `aca_restored`* | `RestoredMeansInternal` violated | see Findings |
| `deploy_pipeline`* | `TypeOK`, `DeployedIsPublished`, `NoRunStuck`, `ChangesAreApproved`, `RolloutLeavesOneVersion`, `ServicesKept` | two deployments of one ref or two, full ones, dry ones and ones without the phrase, any job of which may fail anywhere, also between finding an app unsettled and deleting it |
| `deploy_order`* | `StagesInOrder` violated | see Findings |
| `smoke_trace`* | `PreflightSuffices`, `PassIsEarned`, `RunEnds` | the live smoke job with every transport, with the repository's command or another, in every environment that is right but for one variable: what a pass is worth, that the two tools agree, that the job ends |
| `smoke_leak`* | `CompleteRunPasses` violated | see Findings |
| `spa_session` | `TextIsOwn`, `ClicksEnd` | two accounts that sign in and out on one page, with three clicks in flight: whose session and whose error is shown |

Where a type invariant is proved and no run lists it, its proof stands for every
instance; in `entra_bootstrap` and `deploy_pipeline` TLC checks it as well.

### Bounds, and why they are enough

- **JwksCache**: two threads, since every race is between one thread's steps and
  another's store; one kid, which the provider publishes and withdraws at any time
  and which is, while it is not published, a kid no document holds; a
  `TTL` of 0, shorter than a tick, so that a cache is fresh until the clock moves and
  stale afterwards; `RefreshBound` 1, so that a refresh may span a tick; a clock up to
  3, just beyond `TTL + 2 * RefreshBound`, so that a key can become too old.
  `RefreshBound` is the fetch time-out, which bounds a `_refresh`. The process starts at clock 0 (`BootTimes`), the case in
  which `_fetched_at = 0` looks fresh. The proofs have no bounds.
- **TokenVerdicts**: 2 items stand for the 20 `sanitize_claims` keeps and 10
  characters for its 256: values have four, so that two words are a text that fits and
  three are not, and one value is too long by itself; skew 1 for 300 s. Each claim is
  absent, right, wrong, padded, blank, or behind what is cut; `aud` and `scp` are a
  list, a text or an object; times are absent, null, no number, or on either side of
  the clock. Each setting is empty, a placeholder, right, or in a list of both. 434560
  states.
- **IdentityChain**: tokens live at most 2 ticks and the clock goes to 7, beyond
  the user's expiry plus two lifetimes, so that `DelegationExpires` could be broken.
- **EntraBootstrap**: two runs, one start each (a run that died is followed by the
  other), at most two applications of a name; runs and refs are symmetric.
- **AcaLifecycle**: two internal apps with a smoke test and a deployment, so that
  one can be open and the other not; one app with a run of each workflow. Two
  overlapping smoke tests, and any number of anything, are left to the theorems.
- **DeployPipeline**: two runs on two refs over two apps, so that rollouts can mix
  and builds can be half done; seven inputs that reach every branch, and all 128 of
  them for one run in `deploy_order`. Apps and runs are symmetric.
- **SmokeEvidence**: a look-back of 1 tick, so that a row is in it or not (2 in
  `smoke_leak`, so that the rows of a whole run stay in it); one service that leaks;
  every spelling of the transport with every environment that is right but for one
  variable, since each check looks at one variable; with `agent-browser`, the
  repository's command and another.
- **SpaSession**: two accounts, so that one follows the other; three clicks, so that
  two of one account can overlap with one of the other.

### Fairness

- `JwksCache!FairSpec`: each thread inside `get_key` keeps running. The pool
  schedules it, and its only wait is an HTTP fetch with a time-out.
- `IdentityChain!FairSpec`: each service's handler keeps running while it is not
  dead. Its waits are httpx calls with time-outs, of which `BffGiveUp` and
  `AgentGiveUp` are the ends.

- `SmokeEvidence!FairSpec`: each step of the job ends. Probes, browser and command
  have time-outs (of the harness, of `httpx`, of the runner). There is no fairness on
  `Answered`, only on `TimedOut`: nothing makes a service answer.
- `SpaSession!FairSpec`: MSAL's silent request and the fetch of a session end, with
  a result or an error. There is no fairness on popups: a user may leave one open, and
  `ClicksEnd` ends there.

The other modules state safety only. That a deployment cannot hang is stated
without fairness, as `NoRunStuck`: some job of an active run is ready or at work.
Each of its steps moves a job on, shortens a loop or makes a deletion that is owed
(`RunsAdvance`, below), and jobs have time-outs.

## 4. What is proved

The proofs hold for every value of the constants that satisfies the named
assumptions (`ConstantsAssumption`, `GuardAssumption`, `VerdictAssumption`,
`ChainAssumption`, `BootstrapAssumption`, `LifecycleAssumption`,
`MissingAssumption`, `PipelineAssumption`, `ConfigAssumption`,
`SmokeAssumption`, `SpaAssumption`): any number of threads, kids, runs,
refs and apps. They say that the constants have their types and that the special
values differ from the others; `GuardAssumption` also says that trimming twice is trimming
once and that a cut string is over-long, `VerdictAssumption` that settings come
trimmed and not empty out of their comma-separated lists and that none ends in the
ellipsis of a cut string, and `BootstrapAssumption` that the
directory does not start with two applications of a name.

| Theorem | Statement | Argument |
|---|---|---|
| `JwksCacheProofs!KeysAreFresh`, `RotationIsUsable` | `FreshKey`, `RotatedKeyUsable` always hold | `CacheAge`: every set of kids the service holds (cache, response in flight) is, kid by kid, what the provider served since a known moment (`ServedSince`). The moment moves by one refresh when another thread's document is stored between a thread's store and its stamp |
| `JwksCacheProofs!Refinement` | `JwksCache` implements `KeyLookup` | each `Lookup` that answers is an `Answer` by `CacheAge`, a `Fail` by the endpoint being down; all other steps stutter |
| `JwksCacheProofs!CallsAdvance` | a call takes eight steps and two fetches at most | `StepsLeft`: a refresh and a lookup more while the miss branch is ahead |
| `TokenVerdictsProofs!Agreement`, `KeptVerdict`, `WidenedAsNamed`, `ExchangeOnlyForMcp`, `OneInterval` | the five relations between verdicts | lemmas on each guard and on what sanitizing does to each claim: what it keeps of a value is an item of the value, trimmed, or the end of a cut one (`SanitizeItems`), which no setting is; no induction but `TypeOK` is needed |
| `TokenVerdictsProofs!StrictIsArmed` | `StrictArmsEveryGuard` | what `StrictOffences` refuses is what would switch a guard off, guard by guard |
| `TokenVerdictsProofs!SidecarAgreement` | `SidecarAgrees` | each condition of the sidecar is set against the Agent's failures of the same claim |
| `IdentityChainProofs!TokenConfined`, `RefusalIsFinal`, `DelegationEnds` | `InboundTokenStays`, `RefusalStopsAtBff`, `DelegationExpires` | `BffPlace`, `AgentPlace`, `McpPlace`, `AnswerPlace`: how far a handler is bounds the other handlers and says who has authorised; `Tokens`: a header in strict mode holds the sender's own exchange, a lifetime younger at most than the assertion for it |
| `IdentityChainProofs!Refinement` | `IdentityChain` implements `SessionGate` | the same invariant: an Agent that answered 200 has authorised, and so has the MCP API if it was needed |
| `IdentityChainProofs!SessionIsEarned` | a session only after every required service has authorised | `AnswerPlace` |
| `IdentityChainProofs!RequestsAdvance` | a request takes eighteen steps at most, in all services together | `StepsLeft`: no handler goes back, and a service is called from `idle` only |
| `EntraBootstrapProofs!NamesUnique` | runs of one ref keep names unique | `TakeTurns`: they do not overlap, so what `Find` did not find is still not there at `Create` |
| `EntraBootstrapProofs!IdsStable`, `ForgetOnlyUnseen` | scope ids are stable; only unseen pre-authorisations are lost, whatever overlaps | `FoundExist`, `ScopesAgree`: what a run has read of a scope it needs is still so, and what it will write agrees with what is there |
| `EntraBootstrapProofs!ChainWired` | `DoneMeansWired` | `WorkStands`: what a run of one ref is through with (identity, scope, principal, permissions, pre-authorisations) is still there, so that its last patch completes the chain |
| `EntraBootstrapProofs!ChainStays` | `WiredStays` | `NothingUnseen`: while runs take turns, a patch replaces nothing its run has not read, except clients an operator has added |
| `AcaLifecycleProofs!ExposureAnswered` | `ExposureEnds`, for any number of overlapping runs | inductive as it stands with `SmokesStayInside`: somebody answers for every external inner app |
| `AcaLifecycleProofs!ShutdownHolds` | `ShutdownSticks` | `ScaledDown`: the same for every app a shutdown is through with, in the middle of its loop |
| `AcaLifecycleProofs!ProbesFindOpen` | `OpenWhenProbed`, for any number of apps | `Opened`: what a lone smoke run is through with is started and open, and the app it is at is started before it is opened |
| `AcaLifecycleProofs!RolloutsComplete` | `RolloutCompletes` | `RolledOut`: deployments of one ref take turns, and what a rollout is through with runs its image |
| `AcaLifecycleProofs!RestoredUndisturbed` | `RestoredMeansInternal`, if no smoke run or other deployment is on between a rollout's read and its patch | `SeenStands`: what an undisturbed rollout has read as external still is, so it writes back nothing that was closed meanwhile |
| `AcaLifecycleProofs!ImageCalls` | an image changes by three calls of deployments only | the effect of each call; with it `DeployPipeline` may leave the other calls out |
| `DeployPipelineProofs!PublishedFirst` | `DeployedIsPublished` | `StandsOnSuccess`: a job at work stands on jobs that ended well; `Approved` and `Pushed`: what those have done |
| `DeployPipelineProofs!Approval` | `ChangesAreApproved` | the same, at each of the calls that change something |
| `DeployPipelineProofs!OneVersion` | `RolloutLeavesOneVersion` | `Rolled`, which other runs cannot break because of `TakeTurns` (a job at work belongs to an active run, and active runs of a ref are one) |
| `DeployPipelineProofs!KeepServices` | `ServicesKept` | `FoundStands`: an app about to be deleted is as its run found it, or a run of another ref has come between, by `TakeTurns` |
| `DeployPipelineProofs!StagesStand` | a job at work or well ended has all of its predecessors well ended, except the summary and the smoke stage | `StandsOnSuccess`, followed back through the graph |
| `DeployPipelineProofs!NoneStuck` | `NoRunStuck` | the nine jobs in the order of their needs: if none is ready or at work, each is over because those before it are |
| `DeployPipelineProofs!RunsAdvance` | each step of a run brings a job on, shortens its loop or makes the one deletion a look may owe | the type invariant and each action |
| `SmokeEvidenceProofs!PreflightHolds` | `PreflightSuffices`, for every environment | inductive with `TypeOK`: `Start` settles it, by the two lists of required inputs |
| `SmokeEvidenceProofs!PassHolds` | `PassIsEarned` | `VisibleIsWritten`: no query returns a row younger than its writing; `FoundIsHandled` carries that from the positive query to the judgement; `ResultAccepted`: a run at its queries has a result its transport can give, which for the repository's own transports means a session |
| `SmokeEvidenceProofs!PassesByAging` | a pass needs a row that the leakage query no longer sees | `Judge` asks for the row and refuses it in the leaks |
| `SmokeEvidenceProofs!RunAdvances` | a run takes seven steps at most and keeps its verdict | `StepsLeft` |
| `SpaSessionProofs!TextHolds` | `TextIsOwn`, for any accounts and clicks | `ClickIsOwn`: a click in flight will show what is allowed; `LeavingIsCrossed`: an account that is signing out is crossed, or nothing of it is shown or in flight |
| `SpaSessionProofs!ClicksAdvance` | a click waits for three answers and opens one popup at most | `AnswersLeft` |

Each of these modules but `TokenVerdictsProofs` also proves its inductive
invariant (`Inductive`) and type correctness (`TypeCorrect`). The invariants the
properties need and do not contain are written down at the end of the
specification, or at the head of the proof module (`DeployPipelineProofs`), with
the reason each is there. TLC has checked every inductive invariant on the small
instances before its proof.

Every safety invariant and action property of a passing run is proved. Only
model-checked are the liveness properties (`CallsEnd`, `EveryRequestAnswered`,
`EveryHandlerEnds`, `RunEnds`, `ClicksEnd`), because the prover does not reach fairness.
What they rest on apart from fairness is proved: the `...Advance(s)` theorems bound
the steps of a call, a request, a smoke run, a click and a deployment, so that
something that keeps going ends. That it can keep going is proved of deployments
(`NoneStuck`) and left to TLC elsewhere. The violated properties are
counterexamples; of each, a theorem says what holds instead (`RestoredUndisturbed`,
`StagesStand`, `PassesByAging`).

The modules with theorems declare no `RECURSIVE` operator; the loops of the code are
sets of what is left to do.

## 5. Findings

Three runs end in a counterexample, each against sentences of the repository.

1. **`RestoredMeansInternal`** (`m8-deploy-live.yml:580`, against
   `.squad/specs/009-live-azure-execution-and-evidence/.progress.md:77` and
   `.squad/decisions/inbox/tank-m9-live-smoke-trace-evidence.md:21`). The rollout
   writes back an ingress it read while a smoke test had the app open; the app stays
   external although every run ended well. `RestoredUndisturbed` proves that this is
   the only way: with no smoke run or other deployment between a rollout's read and its
   patch the property holds.
2. **`StagesInOrder`** (`m8-deploy-live.yml:653`, against
   `.squad/specs/008-live-azure-e2e-gate/design.md:68` and the input's own
   description at `m8-deploy-live.yml:44`). The smoke stage needs the summary, which
   needs neither apply nor rollout: it is over before they have begun. Of all the other
   jobs the order holds (`StagesStand`).
3. **`CompleteRunPasses`** (`tools/telemetry/kql/m8-negative-leakage.kql:1`, against
   `.squad/specs/008-live-azure-e2e-gate/design.md:188`). The leakage query returns
   every row with `authorization` in it, its name included; the live job demands a row
   of the operation `/tools/authorization-check`; and any row of the leakage query
   fails the run. A run whose chain is complete and whose services leak nothing fails.
   A run that does pass owes it to that row's age (`PassesByAging`).
   `TracesSufficeByRole` is the rule without that operation, which a run can pass.

Read while modelling, and visible in the models, but not stated as findings:

- `get_key` looks a kid up in the shared cache after its own refresh
  (`jwks.py:92`). Another thread whose fetch was answered earlier may have stored its
  older document in between, and the call reports "not found in JWKS after refresh"
  for a kid its own refresh returned. `RotatedKeyUsable` bounds this to one refresh
  after the key's publication: one spurious 401 during a rotation.
- Two bootstrap runs of different refs may both find no application and both create
  it (`m9_entra_app_bootstrap.py:158`); from then on every run fails on "Multiple app
  registrations found", where `docs/deployment/aca/m8-operator-guide.md:204` says that the
  bootstrap "idempotently ensures" them. `SerialRunsKeepNamesUnique` is about runs
  of one ref for this reason.
- A blank `BLUEPRINT_AUDIENCE` passes the strict start of the Agent, which refuses only
  the one placeholder (`AgentRefusals`); `SidecarAgrees` therefore begins with a
  blueprint that is there.
- The mock sidecar checks `exp` and no `nbf`, where its docstring
  (`agent_obo.py:139`) speaks of both (`SidecarBlind`).
- In strict mode with the chain on, the BFF performs an exchange of its own
  (`BffExchange`, `main.py:60`), where `docker/docker-compose.strict-aca.yml:11` says
  that the exchange is the Agent's alone. Outside strict mode it forwards the
  client's header (`BffHandle`), against `docs/identity/token-audience.md:24`.
- A run with `execute_live_mutations` and `run_app_rollout` but without
  `publish_image` rolls the hello-world image out over working services (`Image`,
  `Patch`) and reports that it has rolled out service images. `ServicesKept` names
  this as one of the two ways in which a service image is lost.
- An image is pushed without the confirmation phrase, if `publish_image` and
  `execute_live_mutations` are set and no later stage is asked for (`Preflight`,
  `Build`). `ChangesAreApproved` therefore demands the phrase of the apps and the
  backend only.
- `sanitize_claims` drops `scope`, so the MCP API refuses tokens that carry their
  scopes there and that BFF and Agent accept; it trims `tid`, so a padded tenant is
  accepted only there; it drops a null `iat` (`claims.py:82`), which BFF and Agent
  refuse as `invalid_iat` because the key is there (`guards.py:144`); and it turns an
  object of more than 512 characters into a text (`claims.py:70`), whose words the MCP
  API reads as scopes where the others read none. `SanitizingWidensAsNamed` names the
  last three, `SanitizingKeepsVerdict` is about tokens none of this happens to.
- The mock exchange joins its scopes to one text, which is cut at 256 characters
  (`obo.py:39`, `claims.py:54`): of many scope URIs the last are lost. No service reads
  them.
- The sidecar refuses a token whose `aud` is a list, also of the blueprint alone
  (`agent_obo.py:296`, `364`), and takes a blank `scp` for a delegated token
  (`agent_obo.py:314`), the other way round than the Agent (`SidecarAgrees`).
- An apply deletes an app that has settled since it looked (`m8-deploy-live.yml:432`,
  `437`; `Inspect`, `Delete`), and with runs of two refs also a version the other has
  just rolled out.
- The harness believes what the operator's command prints (`m8_browser_smoke_harness.py:377`),
  so that a pass with `agent-browser` need not have had a session (`AsksItself`).
- The smoke test's restore step scales to zero what a resume had started, and goes on
  when a restoring call fails (`ExposureEnds` and `ShutdownSticks` name both).

## 6. What is not modelled

- Cryptography, HTTP, JSON and the texts of errors, spans and summaries.
- The splitting and stripping of environment variables; `require_actor_appid`, which
  no service calls; the `lru_cache` of key caches, whose bound of 8 URLs a process
  never meets.
- Correlation and telemetry (`correlation.py`, `telemetry.py`): identifiers and span
  attributes on which nothing decides. What a span's row means to a smoke run is in
  `SmokeEvidence`.
- The classic and SPFx clients: one request of the one user the page has, and the
  rendered text as the only state, so that the question of `SpaSession` cannot arise.
- The static modes of the harness and of the trace contract
  (`validate_browser_smoke_wiring`, `validate_smoke_trace_scaffold`),
  `m9_github_environment_check.py` and `public_safe_validation.py`: they search files
  for fixed texts and count them; a model would repeat the lists.
- APIM policies, Terraform beyond the facts named above, `.squad/`.

## 7. Plan

Done, in this order, each module before those that rest on it: `KeyLookup` and
`JwksCache`; `TokenGuards` and `TokenVerdicts`; `SessionGate` and `IdentityChain`;
`EntraBootstrap`; `AcaLifecycle`; `DeployPipeline`; `ServiceConfig` and the sidecar;
`SmokeEvidence`; `SpaSession`; for each its runs, its mutants and its proofs.

Next:

1. Composition: `IdentityChain` with a key cache per service that is only known to
   implement `KeyLookup`, in place of the free refusal of strict mode.
2. A refinement of `DeployPipeline`'s steps on an app by sequences of `AcaLifecycle`
   calls, for which `ImageCalls` is the safety part.
