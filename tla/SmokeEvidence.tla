--------------------------- MODULE SmokeEvidence ---------------------------
(***************************************************************************)
(* The live job of m8-smoke-trace.yml and the tools it runs: what makes a  *)
(* smoke run pass.                                                         *)
(*                                                                         *)
(* A run checks its environment twice, by two tools; probes the services;  *)
(* has a session opened, or reads of one in an artifact; and at last asks  *)
(* the log workspace, twice, what was recorded within the look-back.  The  *)
(* services record a row for each request they handle, whoever sent it,    *)
(* and a row is visible to queries only some time after it was written.    *)
(* Opening the inner apps for the probes and closing them again are in     *)
(* AcaLifecycle.                                                           *)
(***************************************************************************)
EXTENDS Naturals

CONSTANTS
  Lookback,  \* the look-back of the queries, in ticks
  Leaky,     \* services that may log what the leakage query looks for
  Settings   \* the environments a run may be given

Chain == <<"bff", "agent", "mcp">>
Services == {"bff", "agent", "mcp"}
Transports == {"playwright", "agent-browser", "manual-artifact"}

\* A request comes as far as a prefix of the chain.
Reaches == {{Chain[i] : i \in 1..n} : n \in 0..3}

\* What an environment variable holds: nothing; a placeholder, as both tools
\* know them or as the preflight alone does; a value of the wrong form; or a
\* value that is right.  A transport may be spelt with a capital, or be another.
Value == {"unset", "placeholder", "example", "malformed", "real"}
Number == {"unset", "text", "out of range", "200", "401"}
Spelling == Transports \union {"unset", "Playwright", "browser"}
Inputs == {"ids", "chat", "token", "scopes", "command", "evidence"}
Numbers == {"status", "timeout", "commandTimeout"}

\* Whether the command, which may be any, is the repository's own.
Setting ==
  [transport : Spelling, inputs : [Inputs -> Value], numbers : [Numbers -> Number],
   own : BOOLEAN]

ASSUME SmokeAssumption ==
  /\ Lookback \in Nat \ {0}
  /\ Leaky \subseteq Services
  /\ Settings \subseteq Setting

Kinds == {"readyz", "operation", "leak"}
Row == Kinds \X Services

\* What the browser, the command or the artifact says of a session request.
Result == [status : {0, 200, 401}, says : SUBSET {"ok", "session"}]
NoResult == [status |-> 0, says |-> {}]

VARIABLES
  written,   \* row -> age of the latest written; Lookback if it is older or none
  visible,   \* row -> age of the latest that queries return
  pc,        \* the step of the job, or how it ended
  failedAt,  \* the step at which it failed
  plan,      \* what the settings come to: transport, command, expected status
             \* and input offences
  result,    \* the answer of the transport
  reached,   \* services its own request came to
  handled,   \* services that had handled their operation when the rows were read
  found      \* rows the positive query returned

vars == <<written, visible, pc, failedAt, plan, result, reached, handled, found>>
rows == <<written, visible>>

Ages == 0..Lookback
Steps == {"generate", "inputs", "ask", "wait", "query", "judge"}

TypeOK ==
  /\ written \in [Row -> Ages]
  /\ visible \in [Row -> Ages]
  /\ pc \in {"idle", "passed", "failed"} \union Steps
  /\ failedAt \in {"none", "preflight"} \union Steps
  /\ plan \in [transport : Spelling, own : BOOLEAN, expected : {200, 401},
               offences : SUBSET (Inputs \union Numbers)]
  /\ result \in Result
  /\ reached \in SUBSET Services
  /\ handled \in SUBSET Services
  /\ found \in SUBSET Row

Init ==
  /\ written = [r \in Row |-> Lookback]
  /\ visible = [r \in Row |-> Lookback]
  /\ pc = "idle"
  /\ failedAt = "none"
  /\ plan = [transport |-> "unset", own |-> TRUE, expected |-> 200, offences |-> {}]
  /\ result = NoResult
  /\ reached = {}
  /\ handled = {}
  /\ found = {}

------------------------------------------------------------------------------
(* The inputs, as the preflight and as the harness check them.             *)

\* The workflow passes over no spelling but these; nothing means playwright.
PreflightTransport(s) == IF s.transport = "unset" THEN "playwright" ELSE s.transport

\* The harness strips and lowers what it reads.
ResolveTransport(s) ==
  IF s.transport \in {"unset", "Playwright"} THEN "playwright" ELSE s.transport

RequiredInputsButCommand(transport) ==
  IF transport = "manual-artifact" THEN {"ids", "evidence"}
  ELSE {"ids", "chat", "scopes"} \union (IF transport = "playwright" THEN {"token"} ELSE {})

\* What the workflow has the preflight require for a transport.
RequiredInputs(transport) ==
  IF transport = "manual-artifact" THEN {"ids", "evidence"}
  ELSE {"ids", "chat", "scopes", IF transport = "playwright" THEN "token" ELSE "command"}

\* run_checks: present, no placeholder, and a GUID where the name says so.
PreflightOffences(s, required) ==
  {i \in required :
     \/ s.inputs[i] \in {"unset", "placeholder", "example"}
     \/ i = "ids" /\ s.inputs[i] = "malformed"}

Preflighted(s) ==
  /\ PreflightTransport(s) \in Transports
  /\ PreflightOffences(s, RequiredInputs(PreflightTransport(s))) = {}

\* _check_required_protected_input
MissingProtectedInput(s, i) == s.inputs[i] \in {"unset", "placeholder"}

NumberOffence(s, n) == s.numbers[n] \in {"text", "out of range"}

\* validate_live_inputs
LiveInputOffences(s, transport) ==
  {i \in IF transport = "manual-artifact" THEN {"evidence"}
         ELSE {"chat", IF transport = "playwright" THEN "token" ELSE "command"} :
     MissingProtectedInput(s, i)}
  \union
  {n \in IF transport = "agent-browser" THEN Numbers ELSE {"status", "timeout"} :
     NumberOffence(s, n)}

\* What the steps after the preflight make of the settings.
PlanOf(s) ==
  [transport |-> ResolveTransport(s),
   own       |-> s.own,
   expected  |-> IF s.numbers["status"] = "401" THEN 401 ELSE 200,
   offences  |-> LiveInputOffences(s, ResolveTransport(s))]

------------------------------------------------------------------------------
(* Rows.                                                                   *)

InWindow(age) == age < Lookback

Write(new) == [r \in Row |-> IF r \in new THEN 0 ELSE written[r]]
Operations(services) == {"operation"} \X services

\* What others do matters until the run has ended.
Running == pc \notin {"passed", "failed"}

\* Somebody else's request is handled by part of the chain.
OtherRequest ==
  /\ Running
  /\ \E reach \in Reaches \ {{}} : written' = Write(Operations(reach))
  /\ UNCHANGED <<visible, pc, failedAt, plan, result, reached, handled, found>>

\* A service logs a header value or a token.
Leak ==
  /\ Running
  /\ \E s \in Leaky : written' = Write({<<"leak", s>>})
  /\ UNCHANGED <<visible, pc, failedAt, plan, result, reached, handled, found>>

\* What a service has written so far comes to the workspace.
Ingest(s) ==
  /\ Running
  /\ visible' = [r \in Row |-> IF r[2] = s THEN written[r] ELSE visible[r]]
  /\ UNCHANGED <<written, pc, failedAt, plan, result, reached, handled, found>>

Older(age) == IF age < Lookback THEN age + 1 ELSE age

Tick ==
  /\ Running
  /\ written' = [r \in Row |-> Older(written[r])]
  /\ visible' = [r \in Row |-> Older(visible[r])]
  /\ UNCHANGED <<pc, failedAt, plan, result, reached, handled, found>>

------------------------------------------------------------------------------
(* The job.                                                                *)

Goto(step) == pc' = step /\ UNCHANGED failedAt
FailAt(step) == pc' = "failed" /\ failedAt' = step

\* The preflight step.
Start ==
  /\ pc = "idle"
  /\ \E s \in Settings :
       /\ plan' = PlanOf(s)
       /\ IF Preflighted(s) THEN Goto("generate") ELSE FailAt("preflight")
  /\ UNCHANGED <<rows, result, reached, handled, found>>

\* /readyz of the BFF, then, once the inner apps are open, theirs: a probe that
\* is not answered, or not well, fails the job.
Generate ==
  /\ pc = "generate"
  /\ \E reach \in Reaches :
       /\ written' = Write({"readyz"} \X reach)
       /\ IF reach = Services THEN Goto("inputs") ELSE FailAt("generate")
  /\ UNCHANGED <<visible, plan, result, reached, handled, found>>

CheckInputs ==
  /\ pc = "inputs"
  /\ IF plan.offences = {} THEN Goto("ask") ELSE FailAt("inputs")
  /\ UNCHANGED <<rows, plan, result, reached, handled, found>>

\* The chat session request of the browser or the command leaves; nobody asks
\* for one when an artifact is given.
Ask ==
  /\ pc = "ask"
  /\ IF plan.transport = "manual-artifact"
     THEN UNCHANGED <<written, reached>>
     ELSE \E reach \in Reaches :
            /\ written' = Write(Operations(reach))
            /\ reached' = reach
  /\ Goto("wait")
  /\ UNCHANGED <<visible, plan, result, handled, found>>

\* Answers to a session request that came as far as reach: a session is the
\* BFF's to give.
Answers(reach) ==
  {[status |-> 200, says |-> {"ok"}], [status |-> 401, says |-> {}]}
  \union {r \in {[status |-> 200, says |-> {"ok", "session"}]} : "bff" \in reach}

\* m9_agent_browser_command: if it gets no token or no answer in time, it prints
\* that it has no result and ends well.
CommandResults(reach) == Answers(reach) \union {NoResult}

\* An artifact, of any time, or a command that is not the repository's may say
\* anything; what is missing, is no JSON object or holds something sensitive is
\* as good as none.
ToldResults == Result

Results(p, reach) ==
  {NoResult} \union
  IF p.transport = "playwright" THEN Answers(reach)
  ELSE IF p.transport = "agent-browser" /\ p.own THEN CommandResults(reach) ELSE ToldResults

\* _evaluate_live_result
Accepted(r, expected) == r.status = expected /\ {"ok", "session"} \subseteq r.says

\* The transport has its answer, which may be that there is none.
Hear(r) ==
  /\ result' = r
  /\ IF Accepted(r, plan.expected) THEN Goto("query") ELSE FailAt("wait")
  /\ UNCHANGED <<rows, plan, reached, handled, found>>

Answered ==
  /\ pc = "wait"
  /\ \E r \in Results(plan, reached) : Hear(r)

\* Every wait of a transport has its time-out; a file is just read.
TimedOutNever == FALSE

TimedOut == pc = "wait" /\ Hear(NoResult)

\* m8-positive-chain.kql
QueryPositive ==
  /\ pc = "query"
  /\ found' = {r \in Row : InWindow(visible[r])}
  /\ handled' = {s \in Services : InWindow(written[<<"operation", s>>])}
  /\ Goto("judge")
  /\ UNCHANGED <<rows, plan, result, reached>>

\* What m8-negative-leakage.kql looks for is in a leak, and in the name of the
\* operation of the MCP API: /tools/authorization-check.
LooksLeaked(r) == r[1] = "leak" \/ r = <<"operation", "mcp">>

TracesSufficeByRole(positive, negative) ==
  /\ \A s \in Services : \E r \in positive : r[2] = s
  /\ negative = {}

TracesSuffice(positive, negative) ==
  /\ \A s \in Services : \E r \in positive : r[2] = s
  /\ Operations(Services) \subseteq positive
  /\ negative = {}

Leaks == {r \in Row : InWindow(visible[r]) /\ LooksLeaked(r)}

\* The negative query, and evaluate_trace_results on the rows of both.
Judge ==
  /\ pc = "judge"
  /\ IF TracesSuffice(found, Leaks)
     THEN Goto("passed") ELSE FailAt("judge")
  /\ UNCHANGED <<rows, plan, result, reached, handled, found>>

------------------------------------------------------------------------------
Work == Generate \/ CheckInputs \/ Ask \/ Answered \/ TimedOut \/ QueryPositive \/ Judge

Next ==
  \/ OtherRequest \/ Leak \/ Tick \/ \E s \in Services : Ingest(s)
  \/ Start \/ Work

Spec == Init /\ [][Next]_vars

\* Time-outs, on the runner and in the tools, end every step; nothing makes a
\* service answer.
Fairness ==
  WF_vars(Generate) /\ WF_vars(CheckInputs) /\ WF_vars(Ask) /\ WF_vars(TimedOut)
  /\ WF_vars(QueryPositive) /\ WF_vars(Judge)

FairSpec == Spec /\ Fairness

------------------------------------------------------------------------------
(* What the verdict of a run is worth.                                     *)

\* The repository's own code asks for the session.  The harness runs whatever
\* command it is given, as it reads whatever artifact, and believes what it says.
AsksItself(p) == p.transport = "playwright" \/ (p.transport = "agent-browser" /\ p.own)

\* A run passes only on evidence: every service had handled its operation
\* within the look-back when the rows were read, whatever an artifact or an
\* operator's command says; a run that asked by the repository's own code was
\* given a session, whatever status it was told to expect; and no leaked row was
\* to be seen.
PassIsEarned ==
  [][pc' = "passed" /\ pc # "passed" =>
       /\ handled = Services
       /\ AsksItself(plan) =>
            result.status = 200 /\ "session" \in result.says /\ "bff" \in reached
       /\ \A s \in Services : ~InWindow(visible[<<"leak", s>>])]_vars

\* A run that is past its preflight has inner apps opened for it; the harness
\* then turns it away, if at all, for its numbers alone: two tools that read
\* the same variables by lists of their own agree on all the others, and on
\* the transport they are needed for.
PreflightSuffices ==
  pc # "idle" /\ failedAt # "preflight" =>
    plan.transport \in Transports /\ plan.offences \subseteq Numbers

\* A run that has begun comes to its verdict, whatever the services do.
RunEnds == pc \in Steps ~> pc \in {"passed", "failed"}

\* The pass condition of the design: if the run's own request went through the
\* whole chain, the rows of all its hops were returned, and nothing was leaked
\* within the look-back, the traces suffice.
CompleteRunPasses ==
  (/\ pc = "judge"
   /\ reached = Services
   /\ Operations(Services) \subseteq found
   /\ \A s \in Services : ~InWindow(written[<<"leak", s>>]) /\ ~InWindow(visible[<<"leak", s>>]))
  => TracesSuffice(found, Leaks)

------------------------------------------------------------------------------
(* Why it holds: queries return nothing that was not written, and a run     *)
(* that has come to the queries has a result that its transport could give. *)

VisibleIsWritten == \A r \in Row : written[r] <= visible[r]

FoundIsHandled ==
  pc = "judge" => \A s \in Services : <<"operation", s>> \in found => s \in handled

StepsAreWell ==
  /\ pc \in Steps => plan.transport \in Transports
  /\ pc \in Steps \union {"idle"} => failedAt = "none"

ResultAccepted ==
  pc \in {"query", "judge"} =>
    /\ Accepted(result, plan.expected)
    /\ result \in Results(plan, reached)

\* The inductive invariant.
IInv ==
  TypeOK /\ VisibleIsWritten /\ FoundIsHandled /\ StepsAreWell /\ ResultAccepted
  /\ PreflightSuffices

=============================================================================
