----------------------------- MODULE SessionGate -----------------------------
(***************************************************************************)
(* What POST /chat/session promises, whatever happens behind the BFF: the  *)
(* services of the chain authorise the request one after the other, and    *)
(* the client gets one answer, a session only if every service the         *)
(* deployment requires has authorised this request.                        *)
(***************************************************************************)
VARIABLES
  required,    \* the services a session needs
  authorised,  \* those that have authorised the request
  answer       \* what the client got

vars == <<required, authorised, answer>>

Services == {"bff", "agent", "mcp"}

\* The services before s on the chain.
Before(s) ==
  CASE s = "bff" -> {}
    [] s = "agent" -> {"bff"}
    [] s = "mcp" -> {"bff", "agent"}

Init ==
  /\ required \in {{"bff"}, {"bff", "agent"}, {"bff", "agent", "mcp"}}
  /\ authorised = {}
  /\ answer = "none"

\* A service may still authorise a request whose client has been answered.
Authorise(s) ==
  /\ s \notin authorised
  /\ Before(s) \subseteq authorised
  /\ authorised' = authorised \union {s}
  /\ UNCHANGED <<required, answer>>

Open ==
  /\ answer = "none"
  /\ required \subseteq authorised
  /\ answer' = "session"
  /\ UNCHANGED <<required, authorised>>

\* The first service is the only one whose refusal the client sees as such.
Deny ==
  /\ answer = "none"
  /\ authorised = {}
  /\ answer' = "denied"
  /\ UNCHANGED <<required, authorised>>

Fail ==
  /\ answer = "none"
  /\ answer' = "failed"
  /\ UNCHANGED <<required, authorised>>

Next == (\E s \in Services : Authorise(s)) \/ Open \/ Deny \/ Fail

Spec == Init /\ [][Next]_vars

==============================================================================
