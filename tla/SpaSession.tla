----------------------------- MODULE SpaSession -----------------------------
(***************************************************************************)
(* The browser client: App.tsx and createChatSession of bffClient.ts.      *)
(*                                                                         *)
(* A click on "Start BFF session" is an async function that goes on while  *)
(* the page stays usable: the user may click again, sign out, or let       *)
(* somebody else sign in before an answer is there.  A click keeps the     *)
(* account it was made with; what it shows, whoever is there sees.  MSAL   *)
(* and the BFF are external: they answer in any order, or with an error.   *)
(***************************************************************************)
CONSTANTS
  Accounts,  \* accounts that may sign in
  Clicks,    \* clicks on "Start BFF session"
  None       \* no account

ASSUME SpaAssumption == None \notin Accounts

VARIABLES
  account,        \* activeAccount: the first account MSAL holds
  signing,        \* the popup of signIn or signOut that is open
  sessionResult,  \* whose session is shown
  error,          \* whose failed click is shown
  pc,             \* click -> what it waits for, or how it ended
  owner,          \* click -> the account it was made with
  crossed         \* accounts that were signing out with a click in flight

vars == <<account, signing, sessionResult, error, pc, owner, crossed>>
text == <<sessionResult, error>>

Waiting == {"silent", "session", "popup", "popup session"}
Ended == {"shown", "failed", "rejected"}
MaybeAccount == Accounts \union {None}

TypeOK ==
  /\ account \in MaybeAccount
  /\ signing \in {"no", "in", "out"}
  /\ sessionResult \in MaybeAccount
  /\ error \in MaybeAccount
  /\ pc \in [Clicks -> {"unused"} \union Waiting \union Ended]
  /\ owner \in [Clicks -> MaybeAccount]
  /\ crossed \subseteq Accounts

Init ==
  /\ account \in MaybeAccount
  /\ signing = "no"
  /\ sessionResult = None
  /\ error = None
  /\ pc = [c \in Clicks |-> "unused"]
  /\ owner = [c \in Clicks |-> None]
  /\ crossed = {}

------------------------------------------------------------------------------
(* Signing in and out.  The text is cleared at once, the account changes    *)
(* when the popup has done its work.  MSAL has one popup at a time: a call  *)
(* while another is open is rejected, and nobody catches that.              *)

PopupFree == signing = "no" /\ \A c \in Clicks : pc[c] # "popup"

SignIn ==
  /\ account = None
  /\ error' = None
  /\ signing' = IF PopupFree THEN "in" ELSE signing
  /\ UNCHANGED <<account, sessionResult, pc, owner, crossed>>

InFlight == \E c \in Clicks : pc[c] \in Waiting /\ owner[c] = account

SignOutKeepingResult ==
  /\ account # None
  /\ error' = None
  /\ signing' = IF PopupFree THEN "out" ELSE signing
  /\ crossed' = IF InFlight THEN crossed \union {account} ELSE crossed
  /\ UNCHANGED <<account, sessionResult, pc, owner>>

SignOut ==
  /\ account # None
  /\ sessionResult' = None
  /\ error' = None
  /\ signing' = IF PopupFree THEN "out" ELSE signing
  /\ crossed' = IF InFlight THEN crossed \union {account} ELSE crossed
  /\ UNCHANGED <<account, pc, owner>>

\* The user has signed in or out, or has given up.
PopupCloses ==
  /\ signing # "no"
  /\ signing' = "no"
  /\ \/ UNCHANGED account
     \/ signing = "in" /\ account' \in Accounts
     \/ signing = "out" /\ account' = None
  /\ UNCHANGED <<text, pc, owner, crossed>>

------------------------------------------------------------------------------
(* startSession                                                            *)

Goto(c, place) == pc' = [pc EXCEPT ![c] = place]

\* The button is there for a user who is signed in, and until she no longer is.
Click(c) ==
  /\ pc[c] = "unused"
  /\ account # None
  /\ Goto(c, "silent")
  /\ owner' = [owner EXCEPT ![c] = account]
  /\ crossed' = IF signing = "out" THEN crossed \union {account} ELSE crossed
  /\ UNCHANGED <<account, signing, text>>

Show(c) ==
  /\ sessionResult' = owner[c]
  /\ error' = None
  /\ Goto(c, "shown")

\* The catch clause: any error but one that asks for interaction is shown.
ShowError(c) ==
  /\ error' = owner[c]
  /\ Goto(c, "failed")
  /\ UNCHANGED sessionResult

\* InteractionRequiredAuthError: a popup, if none is open.
Interact(c) ==
  /\ Goto(c, IF PopupFree THEN "popup" ELSE "rejected")
  /\ UNCHANGED text

\* acquireTokenSilent answers.
AcquireTokenSilent(c) ==
  /\ pc[c] = "silent"
  /\ (Goto(c, "session") /\ UNCHANGED text) \/ ShowError(c) \/ Interact(c)
  /\ UNCHANGED <<account, signing, owner, crossed>>

CreateChatSessionRetrying(c) ==
  /\ pc[c] = "session"
  /\ Show(c) \/ (Goto(c, "silent") /\ UNCHANGED text)
  /\ UNCHANGED <<account, signing, owner, crossed>>

\* createChatSession answers, with a session or a status that is not ok.
CreateChatSession(c) ==
  /\ pc[c] = "session"
  /\ Show(c) \/ ShowError(c)
  /\ UNCHANGED <<account, signing, owner, crossed>>

\* acquireTokenPopup: inside the catch clause, where no error is caught.
AcquireTokenPopup(c) ==
  /\ pc[c] = "popup"
  /\ Goto(c, "popup session") \/ Goto(c, "rejected")
  /\ UNCHANGED <<account, signing, text, owner, crossed>>

CreateChatSessionAfterPopup(c) ==
  /\ pc[c] = "popup session"
  /\ Show(c) \/ (Goto(c, "rejected") /\ UNCHANGED text)
  /\ UNCHANGED <<account, signing, owner, crossed>>

------------------------------------------------------------------------------
Answer(c) ==
  AcquireTokenSilent(c) \/ CreateChatSession(c) \/ CreateChatSessionAfterPopup(c)

Next ==
  \/ SignIn \/ SignOut \/ PopupCloses
  \/ \E c \in Clicks : Click(c) \/ Answer(c) \/ AcquireTokenPopup(c)

Spec == Init /\ [][Next]_vars

\* MSAL and the browser end every request; nothing makes a user close a popup.
FairSpec == Spec /\ \A c \in Clicks : WF_vars(Answer(c))

------------------------------------------------------------------------------
(* What is shown, and to whom.                                             *)

\* A page shows the session, or the failure, of the account that is signed in
\* and of no earlier one, although answers come in when they like: unless that
\* account had a click in flight while it was signing out.
TextIsOwn ==
  \A a \in {sessionResult, error} \ {None} : a = account \/ a \in crossed

\* A click comes to its end or to a popup, and never asks for more than one.
ClicksEnd ==
  \A c \in Clicks :
    pc[c] \in {"silent", "session", "popup session"} ~> pc[c] \in Ended \union {"popup"}

------------------------------------------------------------------------------
(* Why TextIsOwn holds: a click in flight will show what is allowed, and a  *)
(* sign-out that is under way has its account among the crossed if anything *)
(* of it is shown or in flight.                                             *)

ClickIsOwn ==
  \A c \in Clicks : pc[c] \in Waiting =>
    owner[c] \in Accounts /\ (owner[c] = account \/ owner[c] \in crossed)

LeavingIsCrossed ==
  signing = "out" =>
    /\ account \in Accounts
    /\ account \notin crossed =>
         account \notin {sessionResult, error} /\ ~InFlight

\* The inductive invariant.
IInv == TypeOK /\ TextIsOwn /\ ClickIsOwn /\ LeavingIsCrossed
        /\ (signing = "in" => account = None)

=============================================================================
