------------------------------- MODULE OneLogin -------------------------------
(***************************************************************************)
(* What authflow promises to those who call it (internal/authflow): of any *)
(* number of calls of OIDC, UserpassBrowser and Setup one is under way at  *)
(* a time, a call made meanwhile fails at once (ErrBusy), and a call that  *)
(* was let in returns once, with an error or with what was granted to it,  *)
(* and makes room for the next one with that.  Listeners, browsers, tabs,  *)
(* handlers and timers are nobody else's business.                         *)
(***************************************************************************)

CONSTANTS
    Flows,     \* the calls
    Requests,  \* what may be granted, each at most once
    NoFlow,    \* no call
    Failure,   \* a call returned an error
    Nothing    \* a call has not returned

VARIABLES
    running,   \* the call under way
    returned,  \* returned[f]: what the call f returned
    owner      \* owner[r]: the call that r was granted to

loginVars == <<running, returned, owner>>

LoginInit ==
    /\ running = NoFlow
    /\ returned = [f \in Flows |-> Nothing]
    /\ owner = [r \in Requests |-> NoFlow]

Begin(f) ==
    /\ running = NoFlow /\ returned[f] = Nothing
    /\ running' = f
    /\ UNCHANGED <<returned, owner>>

Refuse(f) ==
    /\ running \notin {NoFlow, f} /\ returned[f] = Nothing
    /\ returned' = [returned EXCEPT ![f] = Failure]
    /\ UNCHANGED <<running, owner>>

\* To the call under way, or too late to one that is over.
GrantTo(r, f) ==
    /\ owner[r] = NoFlow
    /\ running = f \/ returned[f] # Nothing
    /\ owner' = [owner EXCEPT ![r] = f]
    /\ UNCHANGED <<running, returned>>

End(f) ==
    /\ running = f /\ returned[f] = Nothing
    /\ running' = NoFlow
    /\ \E out \in {Failure} \union {r \in Requests : owner[r] = f} :
          returned' = [returned EXCEPT ![f] = out]
    /\ UNCHANGED owner

LoginNext ==
    \/ \E f \in Flows : Begin(f) \/ Refuse(f) \/ End(f)
    \/ \E r \in Requests, f \in Flows : GrantTo(r, f)

LoginSpec == LoginInit /\ [][LoginNext]_loginVars

=============================================================================
