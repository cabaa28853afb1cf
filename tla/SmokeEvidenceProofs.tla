------------------------- MODULE SmokeEvidenceProofs -------------------------
(* For any look-back, any environments and any services that may leak: the *)
(* harness never turns away for its inputs what the preflight let through, *)
(* and a run that passes has earned it.                                    *)
EXTENDS SmokeEvidence, TLAPS

------------------------------------------------------------------------------
(* The inputs.                                                             *)

\* The plan a run makes of its settings is well formed.
LEMMA PlanType ==
  ASSUME NEW s \in Settings
  PROVE  PlanOf(s) \in [transport : Spelling, own : BOOLEAN, expected : {200, 401},
                        offences : SUBSET (Inputs \union Numbers)]
  <1>1. s \in Setting
    BY SmokeAssumption
  <1>2. ResolveTransport(s) \in Spelling
    BY <1>1 DEF Setting, ResolveTransport, Spelling, Transports
  <1>3. LiveInputOffences(s, ResolveTransport(s)) \subseteq Inputs \union Numbers
    BY DEF LiveInputOffences, Inputs, Numbers
  <1>4. s.own \in BOOLEAN
    BY <1>1 DEF Setting
  <1>5. QED
    BY <1>2, <1>3, <1>4 DEF PlanOf

\* What the preflight lets through has a transport, the same to both tools, and
\* nothing that the harness misses but numbers.
LEMMA PreflightEnough ==
  ASSUME NEW s \in Settings, Preflighted(s)
  PROVE  PlanOf(s).transport \in Transports /\ PlanOf(s).offences \subseteq Numbers
  <1>1. s.transport \in Spelling
    BY SmokeAssumption DEF Setting
  <1>2. ResolveTransport(s) = PreflightTransport(s) /\ PreflightTransport(s) \in Transports
    BY <1>1 DEF Preflighted, PreflightTransport, ResolveTransport, Transports
  <1>3. \A i \in RequiredInputs(PreflightTransport(s)) : ~MissingProtectedInput(s, i)
    BY DEF Preflighted, PreflightOffences, MissingProtectedInput
  <1>4. LiveInputOffences(s, ResolveTransport(s)) \subseteq Numbers
    BY <1>2, <1>3 DEF LiveInputOffences, RequiredInputs, Transports, Numbers
  <1>5. QED
    BY <1>2, <1>4 DEF PlanOf

------------------------------------------------------------------------------
(* The rows.                                                               *)

\* A request reaches services and nothing else.
LEMMA ReachType == Reaches \subseteq SUBSET Services
  <1>1. \A n \in 0..3 : \A i \in 1..n : Chain[i] \in Services
    BY DEF Chain, Services
  <1>2. QED
    BY <1>1 DEF Reaches

\* What a transport says is a result.
LEMMA ResultType ==
  ASSUME NEW p, NEW reach
  PROVE  Results(p, reach) \subseteq Result
  BY DEF Results, Answers, CommandResults, ToldResults, NoResult, Result

\* A run that asked itself has a session only from a BFF it reached, with a 200.
LEMMA SessionIsReal ==
  ASSUME NEW p, AsksItself(p), NEW reach, NEW r \in Results(p, reach), "session" \in r.says
  PROVE  r.status = 200 /\ "bff" \in reach
  BY DEF AsksItself, Results, Answers, CommandResults, NoResult

\* Writing rows leaves ages that the queries do not run ahead of.
LEMMA WriteKeeps ==
  ASSUME TypeOK, VisibleIsWritten, NEW new
  PROVE  /\ Write(new) \in [Row -> Ages]
         /\ \A r \in Row : Write(new)[r] <= visible[r]
  BY SmokeAssumption DEF TypeOK, VisibleIsWritten, Write, Ages

------------------------------------------------------------------------------
(* The invariant.                                                          *)

LEMMA InitInv == Init => IInv
  <1> SUFFICES ASSUME Init PROVE IInv
    OBVIOUS
  <1>1. Lookback \in Ages /\ Lookback <= Lookback
    BY SmokeAssumption DEF Ages
  <1>2. TypeOK
    BY <1>1 DEF Init, TypeOK, Steps, NoResult, Result, Spelling
  <1>3. VisibleIsWritten
    BY <1>1 DEF Init, VisibleIsWritten
  <1>4. FoundIsHandled /\ StepsAreWell /\ ResultAccepted /\ PreflightSuffices
    BY DEF Init, FoundIsHandled, StepsAreWell, ResultAccepted, PreflightSuffices, Steps
  <1>5. QED
    BY <1>2, <1>3, <1>4 DEF IInv

\* What others do, and the clock, keep the invariant.
LEMMA OthersKeep ==
  ASSUME IInv, OtherRequest \/ Leak \/ Tick \/ \E s \in Services : Ingest(s)
  PROVE  IInv'
  <1> USE DEF IInv
  <1>1. UNCHANGED <<pc, failedAt, plan, result, reached, handled, found>>
    BY DEF OtherRequest, Leak, Tick, Ingest
  <1>2. /\ written' \in [Row -> Ages]
        /\ visible' \in [Row -> Ages]
        /\ VisibleIsWritten'
    <2>1. CASE OtherRequest \/ Leak
      <3>1. PICK new : written' = Write(new) /\ visible' = visible
        BY <2>1 DEF OtherRequest, Leak
      <3>2. QED
        BY <3>1, WriteKeeps DEF TypeOK, VisibleIsWritten
    <2>2. CASE Tick
      BY <2>2, SmokeAssumption DEF Tick, Older, TypeOK, VisibleIsWritten, Ages
    <2>3. ASSUME NEW s \in Services, Ingest(s)
          PROVE  visible' \in [Row -> Ages] /\ written' = written /\ VisibleIsWritten'
      BY <2>3, SmokeAssumption DEF Ingest, TypeOK, VisibleIsWritten, Ages
    <2>4. QED
      BY <2>1, <2>2, <2>3 DEF TypeOK
  <1>3. QED
    BY <1>1, <1>2 DEF TypeOK, FoundIsHandled, StepsAreWell, ResultAccepted, PreflightSuffices

\* The steps of the job keep the invariant.
LEMMA JobKeeps ==
  ASSUME IInv, Start \/ Work
  PROVE  IInv'
  <1> USE DEF IInv, Goto, FailAt, rows
  <1>1. CASE Start
    <2> PICK s \in Settings :
          /\ plan' = PlanOf(s)
          /\ IF Preflighted(s) THEN Goto("generate") ELSE FailAt("preflight")
      BY <1>1 DEF Start
    <2>1. TypeOK'
      BY <1>1, PlanType DEF Start, TypeOK, Steps
    <2>2. VisibleIsWritten' /\ FoundIsHandled' /\ ResultAccepted'
      BY <1>1 DEF Start, VisibleIsWritten, FoundIsHandled, ResultAccepted
    <2>3. StepsAreWell' /\ PreflightSuffices'
      BY <1>1, PreflightEnough DEF Start, StepsAreWell, PreflightSuffices, Steps
    <2>4. QED
      BY <2>1, <2>2, <2>3
  <1>2. CASE Generate
    <2>1. written' \in [Row -> Ages] /\ VisibleIsWritten'
      BY <1>2, WriteKeeps DEF Generate, VisibleIsWritten
    <2>2. QED
      BY <1>2, <2>1 DEF Generate, TypeOK, FoundIsHandled, StepsAreWell, ResultAccepted,
         PreflightSuffices, Steps
  <1>3. CASE CheckInputs
    BY <1>3 DEF CheckInputs, TypeOK, VisibleIsWritten, FoundIsHandled, StepsAreWell,
       ResultAccepted, PreflightSuffices, Steps
  <1>4. CASE Ask
    <2>1. written' \in [Row -> Ages] /\ VisibleIsWritten' /\ reached' \in SUBSET Services
      BY <1>4, WriteKeeps, ReachType DEF Ask, VisibleIsWritten, TypeOK
    <2>2. QED
      BY <1>4, <2>1 DEF Ask, TypeOK, FoundIsHandled, StepsAreWell, ResultAccepted,
         PreflightSuffices, Steps
  <1>5. CASE Answered \/ TimedOut
    <2>1. PICK r \in Results(plan, reached) \union {NoResult} : Hear(r)
      BY <1>5 DEF Answered, TimedOut
    <2>2. r \in Result /\ (r = NoResult => ~Accepted(r, plan.expected))
      BY <2>1, ResultType DEF NoResult, Result, Accepted
    <2>3. QED
      BY <1>5, <2>1, <2>2 DEF Hear, Answered, TimedOut, TypeOK, VisibleIsWritten, FoundIsHandled,
         StepsAreWell, ResultAccepted, PreflightSuffices, Steps
  <1>6. CASE QueryPositive
    <2>1. \A s \in Services : <<"operation", s>> \in found' => s \in handled'
      <3> SUFFICES ASSUME NEW s \in Services, <<"operation", s>> \in found'
                   PROVE  InWindow(written[<<"operation", s>>])
        BY <1>6 DEF QueryPositive
      <3>1. <<"operation", s>> \in Row /\ InWindow(visible[<<"operation", s>>])
        BY <1>6 DEF QueryPositive
      <3>2. QED
        BY <3>1, SmokeAssumption DEF InWindow, VisibleIsWritten, TypeOK, Ages
    <2>2. QED
      BY <1>6, <2>1 DEF QueryPositive, TypeOK, VisibleIsWritten, FoundIsHandled, StepsAreWell,
         ResultAccepted, PreflightSuffices, Steps
  <1>7. CASE Judge
    BY <1>7 DEF Judge, TypeOK, VisibleIsWritten, FoundIsHandled, StepsAreWell, ResultAccepted,
       PreflightSuffices, Steps
  <1>8. QED
    BY <1>1, <1>2, <1>3, <1>4, <1>5, <1>6, <1>7 DEF Work

LEMMA NextInv == IInv /\ [Next]_vars => IInv'
  <1>1. IInv /\ UNCHANGED vars => IInv'
    BY DEF vars, IInv, TypeOK, VisibleIsWritten, FoundIsHandled, StepsAreWell, ResultAccepted,
       PreflightSuffices
  <1>2. QED
    BY <1>1, OthersKeep, JobKeeps DEF Next

\* The inductive invariant of a smoke run.
THEOREM Inductive == Spec => []IInv
  BY InitInv, NextInv, PTL DEF Spec

\* The harness turns nothing away that the preflight let through, but for its
\* numbers.
THEOREM PreflightHolds == Spec => []PreflightSuffices
  <1>1. IInv => PreflightSuffices
    BY DEF IInv
  <1>2. QED
    BY <1>1, Inductive, PTL

\* A run that passes has earned it, whatever look-back and environment it has.
THEOREM PassHolds == Spec => PassIsEarned
  <1>1. ASSUME IInv, [Next]_vars, pc' = "passed", pc # "passed"
        PROVE  /\ handled = Services
               /\ AsksItself(plan) =>
                    result.status = 200 /\ "session" \in result.says /\ "bff" \in reached
               /\ \A s \in Services : ~InWindow(visible[<<"leak", s>>])
    <2>1. Judge
      BY <1>1 DEF Next, Work, vars, OtherRequest, Leak, Tick, Ingest, Start, Generate, CheckInputs,
         Ask, Answered, TimedOut, Hear, QueryPositive, Goto, FailAt
    <2>2. pc = "judge" /\ TracesSuffice(found, Leaks)
      BY <1>1, <2>1 DEF Judge, FailAt
    <2>3. handled = Services
      <3>1. \A s \in Services : <<"operation", s>> \in found
        BY <2>2 DEF TracesSuffice, Operations
      <3>2. handled \subseteq Services /\ Services \subseteq handled
        BY <1>1, <2>2, <3>1 DEF IInv, TypeOK, FoundIsHandled
      <3>3. QED
        BY <3>2
    <2>4. AsksItself(plan) =>
            result.status = 200 /\ "session" \in result.says /\ "bff" \in reached
      BY <1>1, <2>2, SessionIsReal DEF IInv, TypeOK, StepsAreWell, ResultAccepted, Accepted, Steps
    <2>5. ASSUME NEW s \in Services PROVE ~InWindow(visible[<<"leak", s>>])
      BY <2>2 DEF TracesSuffice, Leaks, LooksLeaked, Row, Kinds
    <2>6. QED
      BY <2>3, <2>4, <2>5
  <1>2. QED
    BY <1>1, Inductive, PTL DEF Spec, PassIsEarned

\* The run's state and the rows keep their types.
THEOREM TypeCorrect == Spec => []TypeOK
  <1>1. IInv => TypeOK
    BY DEF IInv
  <1>2. QED
    BY <1>1, Inductive, PTL

\* Why CompleteRunPasses fails: a run that passes owes it to time.  The positive
\* query returned the row of the MCP API's operation, as it must, and by the
\* leakage query, which takes that very row for a leak, it was out of the window.
THEOREM PassesByAging ==
  Spec => [][pc' = "passed" /\ pc # "passed" =>
               /\ <<"operation", "mcp">> \in found
               /\ ~InWindow(visible[<<"operation", "mcp">>])]_vars
  <1>1. ASSUME [Next]_vars, pc' = "passed", pc # "passed"
        PROVE  /\ <<"operation", "mcp">> \in found
               /\ ~InWindow(visible[<<"operation", "mcp">>])
    <2>1. Judge
      BY <1>1 DEF Next, Work, vars, OtherRequest, Leak, Tick, Ingest, Start, Generate, CheckInputs,
         Ask, Answered, TimedOut, Hear, QueryPositive, Goto, FailAt
    <2>2. TracesSuffice(found, Leaks)
      BY <1>1, <2>1 DEF Judge, FailAt
    <2>3. <<"operation", "mcp">> \in found
      BY <2>2 DEF TracesSuffice, Operations, Services
    <2>4. <<"operation", "mcp">> \notin Leaks
      BY <2>2 DEF TracesSuffice
    <2>5. QED
      BY <2>3, <2>4 DEF Leaks, LooksLeaked, Row, Kinds, Services
  <1>2. QED
    BY <1>1, PTL DEF Spec

------------------------------------------------------------------------------
(* A run comes to its end.                                                 *)

\* The most steps a run has still to take.
StepsLeft ==
  CASE pc = "idle" -> 7
    [] pc = "generate" -> 6
    [] pc = "inputs" -> 5
    [] pc = "ask" -> 4
    [] pc = "wait" -> 3
    [] pc = "query" -> 2
    [] pc = "judge" -> 1
    [] pc \in {"passed", "failed"} -> 0

\* A run takes seven steps at most and repeats none: a transport is waited for
\* once, rows are asked for once, and a verdict is never taken back.  What the
\* services, the workspace and other clients do in between costs it no step.
THEOREM RunAdvances ==
  Spec => [][/\ StepsLeft \in 0..7
             /\ Start \/ Work => StepsLeft' < StepsLeft
             /\ ~(Start \/ Work) => UNCHANGED <<pc, failedAt>>]_vars
  <1> DEFINE Less == /\ StepsLeft \in 0..7
                     /\ Start \/ Work => StepsLeft' < StepsLeft
                     /\ ~(Start \/ Work) => UNCHANGED <<pc, failedAt>>
  <1>1. ASSUME TypeOK, Next PROVE Less
    <2>1. StepsLeft \in 0..7
      BY <1>1 DEF StepsLeft, TypeOK, Steps
    <2>2. CASE Start
      <3>1. pc = "idle" /\ pc' \in {"generate", "failed"}
        BY <2>2 DEF Start, Goto, FailAt
      <3>2. QED
        BY <2>1, <2>2, <3>1 DEF StepsLeft
    <2>3. CASE Work
      <3>1. \/ pc = "generate" /\ pc' \in {"inputs", "failed"}
            \/ pc = "inputs" /\ pc' \in {"ask", "failed"}
            \/ pc = "ask" /\ pc' = "wait"
            \/ pc = "wait" /\ pc' \in {"query", "failed"}
            \/ pc = "query" /\ pc' = "judge"
            \/ pc = "judge" /\ pc' \in {"passed", "failed"}
        BY <2>3 DEF Work, Generate, CheckInputs, Ask, Answered, TimedOut, Hear, QueryPositive,
           Judge, Goto, FailAt
      <3>2. QED
        BY <2>1, <2>3, <3>1 DEF StepsLeft
    <2>4. ~(Start \/ Work) => UNCHANGED <<pc, failedAt>>
      BY <1>1 DEF Next, OtherRequest, Leak, Tick, Ingest
    <2>5. QED
      BY <2>1, <2>2, <2>3, <2>4
  <1>2. TypeOK /\ [Next]_vars => [Less]_vars
    BY <1>1
  <1> HIDE DEF Less
  <1>3. Spec => [][Less]_vars
    BY <1>2, TypeCorrect, PTL DEF Spec
  <1>4. QED
    BY <1>3 DEF Less

=============================================================================
