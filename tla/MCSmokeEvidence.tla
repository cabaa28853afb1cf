--------------------------- MODULE MCSmokeEvidence ---------------------------
(* Every spelling of the transport with every environment that is right but *)
(* for one variable; the repository's command and another; one service that *)
(* may leak.                                                                *)
EXTENDS SmokeEvidence

MCGood(t) ==
  [transport |-> t, inputs |-> [i \in Inputs |-> "real"],
   numbers |-> [n \in Numbers |-> IF n = "status" THEN "200" ELSE "unset"],
   own |-> TRUE]

MCRightButOne ==
  UNION {
    {[MCGood(t) EXCEPT !.inputs[i] = v] : i \in Inputs, v \in Value}
    \union {[MCGood(t) EXCEPT !.numbers[n] = v] : n \in Numbers, v \in Number} :
    t \in Spelling}

MCSettings ==
  MCRightButOne
  \union {[s EXCEPT !.own = FALSE] : s \in {s \in MCRightButOne : s.transport = "agent-browser"}}

MCLeaky == {"agent"}

=============================================================================
