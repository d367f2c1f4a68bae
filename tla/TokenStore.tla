----------------------------- MODULE TokenStore -----------------------------
(***************************************************************************)
(* What the token file promises to whoever reads it, the CLI and SOPS      *)
(* included (internal/bao/token.go, "the standard token location"): it is  *)
(* empty or holds one token.  A token gets there at most once, by itself   *)
(* and straight from its login, or never does, and a token that has been   *)
(* replaced or removed does not come back.  Failures, crashes and          *)
(* temporary files are nobody else's business.                             *)
(***************************************************************************)

CONSTANTS
    Tokens,    \* what the server may issue
    NoToken    \* no token is stored

VARIABLES
    stored,    \* the token in the file
    issued,    \* tokens the server has issued
    coming     \* issued to logins that have yet to save them

storeVars == <<stored, issued, coming>>

StoreInit == stored = NoToken /\ issued = {} /\ coming = {}

\* A login gets a token.
Issue(t) ==
    /\ t \notin issued
    /\ issued' = issued \union {t}
    /\ coming' = coming \union {t}
    /\ UNCHANGED stored

\* It saves it.
Save(t) ==
    /\ t \in coming
    /\ stored' = t
    /\ coming' = coming \ {t}
    /\ UNCHANGED issued

\* It does not, or all those under way do not, and the file is as it was.
GiveUp ==
    /\ \E t \in coming : coming' \in {coming \ {t}, {}}
    /\ UNCHANGED <<stored, issued>>

\* A login that is none of ours.
IssueAndSave(t) ==
    /\ t \notin issued
    /\ issued' = issued \union {t}
    /\ stored' = t
    /\ UNCHANGED coming

Clear ==
    /\ stored' = NoToken
    /\ UNCHANGED <<issued, coming>>

StoreNext ==
    \/ \E t \in Tokens : Issue(t) \/ Save(t) \/ IssueAndSave(t)
    \/ GiveUp \/ Clear

StoreSpec == StoreInit /\ [][StoreNext]_storeVars

=============================================================================
