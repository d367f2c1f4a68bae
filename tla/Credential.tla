----------------------------- MODULE Credential -----------------------------
(***************************************************************************)
(* The token itself: what a login (cmd/baobar/main.go, runLogin;           *)
(* internal/bao/token.go, WriteToken) and a logout (main.go, the Logout    *)
(* closure and removeToken; tray.go, the alert after it) do to the token   *)
(* file and to the session on the server, when they overlap each other,    *)
(* the terminal and the end of the process.                                *)
(***************************************************************************)
CONSTANTS
    Tokens,        \* tokens the server may issue, each at most once
    NoToken,       \* no file, or nothing in hand
    Torn,          \* a file with part of a token in it
    Logins,        \* login goroutines
    Logouts        \* logout goroutines

ASSUME CredentialAssumption ==
    NoToken \notin Tokens /\ Torn \notin Tokens /\ Torn # NoToken

VARIABLES
    file,      \* the token file
    readable,  \* whether ReadToken may open it
    temp,      \* temp[g]: the temporary file of login g
    litter,    \* temporary files that nobody will remove
    issued,    \* tokens the server has issued
    valid,     \* tokens the server honours
    login,     \* where each login goroutine stands
    hand,      \* hand[g]: the token login g is to save
    logout,    \* where each logout goroutine stands
    held,      \* held[o]: the token logout o read
    revokeErr, \* revokeErr[o]: whether its RevokeSelf failed
    ended      \* history: ended[o] is how the latest logout o ended, "running"
               \* while it has not

disk   == <<file, readable, temp, litter>>
server == <<issued, valid>>
logins == <<login, hand>>
logouts == <<logout, held, revokeErr, ended>>
vars == <<disk, server, logins, logouts>>

Init ==
    /\ file = NoToken /\ readable = TRUE
    /\ temp = [g \in Logins |-> NoToken]
    /\ litter = {}
    /\ issued = {} /\ valid = {}
    /\ login = [g \in Logins |-> "none"]
    /\ hand = [g \in Logins |-> NoToken]
    /\ logout = [o \in Logouts |-> "none"]
    /\ held = [o \in Logouts |-> NoToken]
    /\ revokeErr = [o \in Logouts |-> FALSE]
    /\ ended = [o \in Logouts |-> "running"]

-----------------------------------------------------------------------------
(* Login.                                                                  *)

Go(g, from, to) == login[g] = from /\ login' = [login EXCEPT ![g] = to]

\* A browser flow takes authflow's only slot; saving happens after it.
StartFlow(g) ==
    /\ Go(g, "none", "flow")
    /\ \A h \in Logins : login[h] # "flow"
    /\ UNCHANGED <<disk, server, hand, logouts>>

\* The flow ends without a token: alert.
FlowFails(g) ==
    /\ Go(g, "flow", "none")
    /\ UNCHANGED <<disk, server, hand, logouts>>

\* The server issues a token and the flow returns it.
FlowSucceeds(g) ==
    /\ Go(g, "flow", "create")
    /\ \E t \in Tokens \ issued :
         /\ issued' = issued \union {t}
         /\ valid' = valid \union {t}
         /\ hand' = [hand EXCEPT ![g] = t]
    /\ UNCHANGED <<disk, logouts>>

\* Slip: written in place, truncating first.
CreateInPlace(g) ==
    /\ Go(g, "create", "write")
    /\ file' = Torn
    /\ UNCHANGED <<readable, temp, litter, server, hand, logouts>>

\* os.CreateTemp: an empty file of its own, mode 0600.
CreateTemp(g) ==
    /\ Go(g, "create", "write")
    /\ temp' = [temp EXCEPT ![g] = Torn]
    /\ UNCHANGED <<file, readable, litter, server, hand, logouts>>

CreateFails(g) ==
    /\ Go(g, "create", "none")
    /\ hand' = [hand EXCEPT ![g] = NoToken]
    /\ UNCHANGED <<disk, server, logouts>>

\* WriteString and Close.
WriteTemp(g) ==
    /\ Go(g, "write", "rename")
    /\ temp' = [temp EXCEPT ![g] = hand[g]]
    /\ UNCHANGED <<file, readable, litter, server, hand, logouts>>

\* Slip: a copy, whose source stays.
RenameByCopy(g) ==
    /\ Go(g, "rename", "force")
    /\ file' = temp[g] /\ readable' = TRUE
    /\ hand' = [hand EXCEPT ![g] = NoToken]
    /\ UNCHANGED <<temp, litter, server, logouts>>

\* os.Rename over the token file.
Rename(g) ==
    /\ Go(g, "rename", "force")
    /\ file' = temp[g] /\ readable' = TRUE
    /\ temp' = [temp EXCEPT ![g] = NoToken]
    /\ hand' = [hand EXCEPT ![g] = NoToken]
    /\ UNCHANGED <<litter, server, logouts>>

\* A failed write, close or rename: the deferred function removes the
\* temporary file, with what has been written of it, or fails to and does not
\* say so; the user is told that the token was not saved.
WriteOrRenameFails(g) ==
    /\ login[g] \in {"write", "rename"}
    /\ login' = [login EXCEPT ![g] = "none"]
    /\ temp' = [temp EXCEPT ![g] = NoToken]
    /\ \E left \in {temp[g], hand[g]} : litter' \in {litter, litter \union {left}}
    /\ hand' = [hand EXCEPT ![g] = NoToken]
    /\ UNCHANGED <<file, readable, server, logouts>>

\* deps.force, and runLogin returns nil.
ForcePoll(g) ==
    /\ Go(g, "force", "none")
    /\ UNCHANGED <<disk, server, hand, logouts>>

LoginStep(g) ==
    \/ StartFlow(g) \/ FlowFails(g) \/ FlowSucceeds(g)
    \/ CreateTemp(g) \/ CreateFails(g) \/ WriteTemp(g) \/ Rename(g)
    \/ WriteOrRenameFails(g) \/ ForcePoll(g)

-----------------------------------------------------------------------------
(* Logout.                                                                 *)

Pass(o, from, to) == logout[o] = from /\ logout' = [logout EXCEPT ![o] = to]

\* Slip: the error of ReadToken is not looked at.
LogoutReadsAnyway(o) ==
    /\ Pass(o, "none", "revoke")
    /\ held' = [held EXCEPT ![o] = file]
    /\ revokeErr' = [revokeErr EXCEPT ![o] = FALSE]
    /\ ended' = [ended EXCEPT ![o] = "running"]
    /\ UNCHANGED <<disk, server, logins>>

\* ReadToken: whatever keeps it from a token, there is nothing to revoke.
LogoutReads(o) ==
    /\ logout[o] = "none"
    /\ revokeErr' = [revokeErr EXCEPT ![o] = FALSE]
    /\ \/ /\ file # NoToken /\ readable
          /\ held' = [held EXCEPT ![o] = file]
          /\ logout' = [logout EXCEPT ![o] = "revoke"]
       \/ /\ file = NoToken \/ ~readable
          /\ held' = [held EXCEPT ![o] = NoToken]
          /\ logout' = [logout EXCEPT ![o] = "remove"]
    /\ ended' = [ended EXCEPT ![o] = "running"]
    /\ UNCHANGED <<disk, server, logins>>

\* Slip: the revocation's error is dropped.
RevokeUnreported(o) ==
    /\ Pass(o, "revoke", "remove")
    /\ valid' \in {valid, valid \ {held[o]}}
    /\ UNCHANGED <<disk, issued, logins, held, revokeErr, ended>>

\* RevokeSelf succeeds, or is refused, or fails before or after the server
\* has done it.  Any error is revokeErr.
Revoke(o) ==
    /\ Pass(o, "revoke", "remove")
    /\ \/ /\ held[o] \in valid
          /\ valid' = valid \ {held[o]}
          /\ UNCHANGED revokeErr
       \/ /\ held[o] \notin valid
          /\ revokeErr' = [revokeErr EXCEPT ![o] = TRUE]
          /\ UNCHANGED valid
       \/ /\ valid' \in {valid, valid \ {held[o]}}
          /\ revokeErr' = [revokeErr EXCEPT ![o] = TRUE]
    /\ UNCHANGED <<disk, issued, logins, held, ended>>

\* removeToken, then return its error or revokeErr; the caller alerts on
\* either.  The cache, deleted just before, is not modelled here.
Remove(o) ==
    /\ Pass(o, "remove", "none")
    /\ \/ /\ file' = NoToken
          /\ ended' = [ended EXCEPT ![o] =
                IF revokeErr[o] THEN "alerted" ELSE "silent"]
       \/ /\ file # NoToken
          /\ ended' = [ended EXCEPT ![o] = "alerted"]
          /\ UNCHANGED file
    /\ UNCHANGED <<readable, temp, litter, server, logins, held, revokeErr>>

LogoutStep(o) == LogoutReads(o) \/ Revoke(o) \/ Remove(o)

-----------------------------------------------------------------------------
(* The terminal, the server and the end of the process.                    *)

\* bao login in a terminal.
TerminalLogin ==
    /\ \E t \in Tokens \ issued :
         /\ issued' = issued \union {t}
         /\ valid' = valid \union {t}
         /\ file' = t
    /\ readable' = TRUE
    /\ UNCHANGED <<temp, litter, logins, logouts>>

\* A token expires, or is revoked elsewhere.
Lapse(t) ==
    /\ valid' = valid \ {t}
    /\ UNCHANGED <<disk, issued, logins, logouts>>

Chmod ==
    /\ file # NoToken
    /\ readable' = FALSE
    /\ UNCHANGED <<file, temp, litter, server, logins, logouts>>

\* Every goroutine ends where it stands; what it had on disk stays there.
Crash ==
    /\ litter' = litter \union ({temp[g] : g \in Logins} \ {NoToken})
    /\ temp' = [g \in Logins |-> NoToken]
    /\ login' = [g \in Logins |-> "none"]
    /\ hand' = [g \in Logins |-> NoToken]
    /\ logout' = [o \in Logouts |-> "none"]
    /\ held' = [o \in Logouts |-> NoToken]
    /\ revokeErr' = [o \in Logouts |-> FALSE]
    /\ ended' = [o \in Logouts |-> "running"]
    /\ UNCHANGED <<file, readable, server>>

Next ==
    \/ \E g \in Logins : LoginStep(g)
    \/ \E o \in Logouts : LogoutStep(o)
    \/ TerminalLogin \/ Chmod \/ Crash
    \/ \E t \in Tokens : Lapse(t)

Spec == Init /\ [][Next]_vars

-----------------------------------------------------------------------------
Content == Tokens \union {NoToken, Torn}

TypeOK ==
    /\ file \in Content /\ readable \in BOOLEAN
    /\ temp \in [Logins -> Content]
    /\ litter \subseteq Content \ {NoToken}
    /\ valid \subseteq issued /\ issued \subseteq Tokens
    /\ login \in [Logins -> {"none", "flow", "create", "write", "rename", "force"}]
    /\ hand \in [Logins -> Tokens \union {NoToken}]
    /\ logout \in [Logouts -> {"none", "revoke", "remove"}]
    /\ held \in [Logouts -> Content]
    /\ \A o \in Logouts : logout[o] = "revoke" => held[o] # NoToken
    /\ revokeErr \in [Logouts -> BOOLEAN]
    /\ ended \in [Logouts -> {"running", "silent", "alerted"}]

\* Whoever reads the token file, the CLI included, finds no file or a whole
\* token, also after a crash in the middle of WriteToken.
TokenFileWhole == file # Torn

\* What is saved went from the server to one login and from there to the file,
\* once and whole; a login that fails at any point, or is cut off, leaves the
\* file as it was, and no write that was under way brings back a token that
\* has been replaced or removed.
Store == INSTANCE TokenStore
    WITH stored <- file,
         coming <- {hand[g] : g \in Logins} \ {NoToken}

KeepsTokenStore == Store!StoreSpec

\* There is one copy on the disk of the token in the token file: temporary
\* files, those included that a failed removal or the end of the process has left
\* for good, hold parts of tokens and tokens that were never saved
\* (token.go, the deferred os.Remove, whose error is dropped).
NoCopyLeft ==
    file \in Tokens => file \notin litter \union {temp[g] : g \in Logins}

\* A logout that read a token and reports nothing has had that token revoked,
\* whatever other goroutines and the terminal did to the file meanwhile.
SilentMeansRevoked ==
    \A o \in Logouts :
        ended[o] = "silent" /\ held[o] \in Tokens => held[o] \notin valid

=============================================================================
