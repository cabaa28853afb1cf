-------------------------- MODULE SpaSessionProofs --------------------------
(* For any number of accounts and clicks: what the page shows is its       *)
(* user's own, unless she signed out with a click in flight.               *)
EXTENDS SpaSession, Naturals, TLAPS

LEMMA InitInv == Init => IInv
  BY SpaAssumption DEF Init, IInv, TypeOK, TextIsOwn, ClickIsOwn, LeavingIsCrossed, InFlight,
     MaybeAccount, Waiting, Ended

\* Every step keeps the invariant.
LEMMA NextInv == IInv /\ [Next]_vars => IInv'
  <1> SUFFICES ASSUME IInv, [Next]_vars PROVE IInv'
    OBVIOUS
  <1> USE SpaAssumption DEF IInv, TypeOK, TextIsOwn, ClickIsOwn, LeavingIsCrossed, InFlight,
          MaybeAccount, Waiting, Ended, text
  <1>1. CASE SignIn
    BY <1>1 DEF SignIn
  <1>2. CASE SignOut
    BY <1>2 DEF SignOut
  <1>3. CASE PopupCloses
    BY <1>3 DEF PopupCloses
  <1>4. ASSUME NEW c \in Clicks, Click(c) PROVE IInv'
    BY <1>4 DEF Click, Goto
  <1>5. ASSUME NEW c \in Clicks, AcquireTokenSilent(c) PROVE IInv'
    BY <1>5 DEF AcquireTokenSilent, Goto, ShowError, Interact
  <1>6. ASSUME NEW c \in Clicks, CreateChatSession(c) PROVE IInv'
    BY <1>6 DEF CreateChatSession, Goto, Show, ShowError
  <1>7. ASSUME NEW c \in Clicks, CreateChatSessionAfterPopup(c) PROVE IInv'
    BY <1>7 DEF CreateChatSessionAfterPopup, Goto, Show
  <1>8. ASSUME NEW c \in Clicks, AcquireTokenPopup(c) PROVE IInv'
    BY <1>8 DEF AcquireTokenPopup, Goto
  <1>9. CASE UNCHANGED vars
    BY <1>9 DEF vars
  <1>10. QED
    BY <1>1, <1>2, <1>3, <1>4, <1>5, <1>6, <1>7, <1>8, <1>9 DEF Next, Answer

\* The inductive invariant of the page.
THEOREM Inductive == Spec => []IInv
  BY InitInv, NextInv, PTL DEF Spec

\* No page ever shows the session or the failure of an account that has gone,
\* unless it signed out with a click in flight.
THEOREM TextHolds == Spec => []TextIsOwn
  <1>1. IInv => TextIsOwn
    BY DEF IInv
  <1>2. QED
    BY <1>1, Inductive, PTL

\* The page's state keeps its types.
THEOREM TypeCorrect == Spec => []TypeOK
  <1>1. IInv => TypeOK
    BY DEF IInv
  <1>2. QED
    BY <1>1, Inductive, PTL

\* The most answers a click has still to wait for, the click itself included.
AnswersLeft(c) ==
  IF pc[c] = "unused" THEN 4
  ELSE IF pc[c] = "silent" THEN 3
  ELSE IF pc[c] = "popup" THEN 2
  ELSE IF pc[c] \in Ended THEN 0
  ELSE 1

\* A click waits for three answers at most and asks for one popup at most: what
\* is answered brings it on, and nothing that others do takes it back.
THEOREM ClicksAdvance ==
  Spec => [][\A c \in Clicks :
               /\ AnswersLeft(c) \in 0..4
               /\ Click(c) \/ Answer(c) \/ AcquireTokenPopup(c) =>
                    AnswersLeft(c)' < AnswersLeft(c)
               /\ AnswersLeft(c)' <= AnswersLeft(c)]_vars
  <1> DEFINE Own(c) == Click(c) \/ Answer(c) \/ AcquireTokenPopup(c)
             Less(c) == /\ AnswersLeft(c) \in 0..4
                        /\ Own(c) => AnswersLeft(c)' < AnswersLeft(c)
                        /\ AnswersLeft(c)' <= AnswersLeft(c)
  <1>0. ASSUME TypeOK, NEW c \in Clicks, Own(c)
        PROVE  \/ pc[c] = "unused" /\ pc'[c] = "silent"
               \/ pc[c] = "silent" /\ pc'[c] \in {"session", "popup"} \union Ended
               \/ pc[c] = "popup" /\ pc'[c] \notin {"unused", "silent", "popup"}
               \/ pc[c] \notin {"unused", "silent", "popup"} \union Ended /\ pc'[c] \in Ended
    <2>1. \A x : [pc EXCEPT ![c] = x][c] = x
      BY <1>0 DEF TypeOK
    <2>2. CASE Click(c)
      BY <2>1, <2>2 DEF Click, Goto
    <2>3. CASE AcquireTokenSilent(c)
      BY <2>1, <2>3 DEF AcquireTokenSilent, ShowError, Interact, Goto, Ended
    <2>4. CASE CreateChatSession(c) \/ CreateChatSessionAfterPopup(c)
      BY <2>1, <2>4 DEF CreateChatSession, CreateChatSessionAfterPopup, Show, ShowError, Goto, Ended
    <2>5. CASE AcquireTokenPopup(c)
      BY <2>1, <2>5 DEF AcquireTokenPopup, Goto, Ended
    <2>6. QED
      BY <1>0, <2>2, <2>3, <2>4, <2>5 DEF Answer
  <1>1. ASSUME TypeOK, Next, NEW c \in Clicks PROVE Less(c)
    <2>1. AnswersLeft(c) \in 0..4
      BY DEF AnswersLeft
    <2>2. CASE Own(c)
      <3>1. \/ pc[c] = "unused" /\ pc'[c] = "silent"
            \/ pc[c] = "silent" /\ pc'[c] \in {"session", "popup"} \union Ended
            \/ pc[c] = "popup" /\ pc'[c] \notin {"unused", "silent", "popup"}
            \/ pc[c] \notin {"unused", "silent", "popup"} \union Ended /\ pc'[c] \in Ended
        BY <1>0, <1>1, <2>2
      <3>2. AnswersLeft(c)' < AnswersLeft(c) /\ AnswersLeft(c)' \in 0..4
        <4>1. CASE pc[c] = "unused" /\ pc'[c] = "silent"
          BY <4>1 DEF AnswersLeft
        <4>2. CASE pc[c] = "silent" /\ pc'[c] \in {"session", "popup"} \union Ended
          BY <4>2 DEF AnswersLeft, Ended
        <4>3. CASE pc[c] = "popup" /\ pc'[c] \notin {"unused", "silent", "popup"}
          BY <4>3 DEF AnswersLeft, Ended
        <4>4. CASE pc[c] \notin {"unused", "silent", "popup"} \union Ended /\ pc'[c] \in Ended
          BY <4>4 DEF AnswersLeft, Ended
        <4>5. QED
          BY <3>1, <4>1, <4>2, <4>3, <4>4
      <3>3. AnswersLeft(c)' <= AnswersLeft(c)
        BY <2>1, <3>2
      <3>4. QED
        BY <2>1, <3>2, <3>3
    <2>3. ASSUME ~Own(c) PROVE pc'[c] = pc[c]
      <3>1. ASSUME NEW d \in Clicks, Own(d) PROVE pc'[c] = pc[c]
        <4>1. d # c
          BY <2>3, <3>1
        <4>2. \E x : pc' = [pc EXCEPT ![d] = x]
          BY <3>1 DEF Click, Answer, AcquireTokenSilent, CreateChatSession,
             CreateChatSessionAfterPopup, AcquireTokenPopup, Show, ShowError, Interact, Goto
        <4>3. QED
          BY <1>1, <4>1, <4>2 DEF TypeOK
      <3>2. CASE SignIn \/ SignOut \/ PopupCloses
        BY <3>2 DEF SignIn, SignOut, PopupCloses
      <3>3. QED
        BY <1>1, <3>1, <3>2 DEF Next
    <2>4. CASE ~Own(c)
      <3>1. AnswersLeft(c)' = AnswersLeft(c)
        BY <2>3, <2>4 DEF AnswersLeft
      <3>2. AnswersLeft(c)' <= AnswersLeft(c)
        BY <2>1, <3>1
      <3>3. QED
        BY <2>1, <2>4, <3>2
    <2>5. QED
      BY <2>2, <2>4
  <1>2. TypeOK /\ [Next]_vars => [\A c \in Clicks : Less(c)]_vars
    BY <1>1
  <1>3. QED
    BY <1>2, TypeCorrect, PTL DEF Spec

=============================================================================
