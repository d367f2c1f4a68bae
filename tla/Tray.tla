-------------------------------- MODULE Tray --------------------------------
(***************************************************************************)
(* The goroutines of a running tray (internal/tray/tray.go, onReadyNormal  *)
(* and uiLoop) and of the logins and logouts it starts                     *)
(* (cmd/baobar/main.go, Login, Logout and runLogin): who disables and      *)
(* enables the login items, and how a change of the token file gets to the *)
(* screen.                                                                 *)
(*                                                                         *)
(* `version' counts the changes this program makes to the token file.  A   *)
(* Status call is reduced to what matters here: it reads the file, is done *)
(* if there is no token, and otherwise decides, using up the poller's      *)
(* forceNext, whether to ask the server or to repeat the last status.  A   *)
(* call that fails has used it up all the same, and reports whatever the   *)
(* cache has.  Poller has the rest of it.  Rendering and the               *)
(* start-at-login checkbox touch nothing that is modelled here.            *)
(***************************************************************************)
EXTENDS Integers

CONSTANTS
    Logins,      \* login goroutines that may be alive at once
    Logouts,     \* logout goroutines that may be alive at once
    NoOne,       \* no goroutine
    MaxVersion   \* bound on version

Items == {"userpass", "oidc"}

ASSUME GoroutineAssumption ==
    /\ NoOne \notin Logins
    /\ MaxVersion \in Nat

\* What the status of no session describes; also what a Status call goes by that
\* is over.
NoVersion == -1

VARIABLES
    enabled,    \* whether the two login items are enabled
    queued,     \* clicks on them that systray has yet to deliver
    loginDone,  \* the channel loginDone, of capacity one: its length
    refresh,    \* the channel refresh, of capacity one: its length
    slot,       \* authflow's inFlight, and who holds it
    login,      \* where each login goroutine stands
    logout,     \* where each logout goroutine stands
    version,    \* changes made to the token file
    forceNext,  \* Poller.forceNext
    poll, seen, \* the poll goroutine, and the version its Status call goes by
    holder,     \* the version the latest Status describes
    failed,     \* history: whether the file as it is was last asked about in vain
    shown       \* the version on the screen

menu   == <<enabled, queued, loginDone, slot>>
poller == <<forceNext, poll, seen, holder, failed, shown>>
vars == <<menu, refresh, login, logout, version, poller>>

Init ==
    /\ enabled = TRUE
    /\ queued = {}
    /\ loginDone = 0 /\ refresh = 0
    /\ slot = NoOne
    /\ login = [g \in Logins |-> "none"]
    /\ logout = [g \in Logouts |-> "none"]
    /\ version = 0
    /\ forceNext = FALSE
    /\ poll = "read" /\ seen = NoVersion
    /\ holder = 0 /\ failed = FALSE
    /\ shown = 0

-----------------------------------------------------------------------------
(* uiLoop and the clicks systray sends it.                                 *)

\* The user picks an enabled login item.
Click(m) ==
    /\ enabled
    /\ m \notin queued
    /\ queued' = queued \union {m}
    /\ UNCHANGED <<enabled, loginDone, slot, refresh, login, logout, version, poller>>

\* systray drops a click that finds nobody receiving.
DropClick(m) ==
    /\ m \in queued
    /\ queued' = queued \ {m}
    /\ UNCHANGED <<enabled, loginDone, slot, refresh, login, logout, version, poller>>

\* Both items are disabled before the goroutine starts, whether or not they
\* have been enabled since the click was made.
LoginClicked(m, g) ==
    /\ m \in queued
    /\ queued' = queued \ {m}
    /\ login[g] = "none"
    /\ enabled' = FALSE
    /\ login' = [login EXCEPT ![g] = "start"]
    /\ UNCHANGED <<loginDone, slot, refresh, logout, version, poller>>

\* The UI goroutine alone enables the items.
LoginDone ==
    /\ loginDone = 1
    /\ loginDone' = 0
    /\ enabled' = TRUE
    /\ UNCHANGED <<queued, slot, refresh, login, logout, version, poller>>

\* Slip: a channel without a buffer, so that a kick finds nobody receiving
\* while a Status call runs.
KickUnbuffered == refresh' = IF poll = "wait" THEN 1 ELSE refresh

\* kick: ask for a poll, unless one is already asked for.
Kick == refresh' = 1

RefreshClicked ==
    /\ Kick
    /\ UNCHANGED <<menu, login, logout, version, poller>>

Render ==
    /\ shown # holder
    /\ shown' = holder
    /\ UNCHANGED <<menu, refresh, login, logout, version,
                   forceNext, poll, seen, holder, failed>>

-----------------------------------------------------------------------------
(* The goroutine of a login: o.Login, then loginDone, then kick.           *)

Move(g, from, to) ==
    /\ login[g] = from
    /\ login' = [login EXCEPT ![g] = to]

\* authflow takes its only slot.
Acquire(g) ==
    /\ Move(g, "start", "flow")
    /\ slot = NoOne
    /\ slot' = g
    /\ UNCHANGED <<enabled, queued, loginDone, refresh, logout, version, poller>>

\* ErrBusy: alert, and no signal on loginDone.
Busy(g) ==
    /\ Move(g, "start", "kick")
    /\ slot # NoOne
    /\ UNCHANGED <<menu, refresh, logout, version, poller>>

\* Slip: nobody signals when a login fails.
FlowFailsSilently(g) ==
    /\ Move(g, "flow", "kick")
    /\ slot' = NoOne
    /\ UNCHANGED <<enabled, queued, loginDone, refresh, logout, version, poller>>

\* The flow ends without a token, which is alerted.
FlowFails(g) ==
    /\ Move(g, "flow", "signal")
    /\ slot' = NoOne
    /\ UNCHANGED <<enabled, queued, loginDone, refresh, logout, version, poller>>

\* The flow returns a token: the slot is free before the token is saved.
FlowSucceeds(g) ==
    /\ Move(g, "flow", "save")
    /\ slot' = NoOne
    /\ UNCHANGED <<enabled, queued, loginDone, refresh, logout, version, poller>>

SaveToken(g) ==
    /\ Move(g, "save", "force")
    /\ version < MaxVersion
    /\ version' = version + 1
    /\ failed' = FALSE
    /\ UNCHANGED <<menu, refresh, logout, forceNext, poll, seen, holder, shown>>

SaveFails(g) ==
    /\ Move(g, "save", "signal")
    /\ UNCHANGED <<menu, refresh, logout, version, poller>>

\* deps.force: Poller.Force, straight from the login goroutine.
ForcePoll(g) ==
    /\ Move(g, "force", "signal")
    /\ forceNext' = TRUE
    /\ UNCHANGED <<menu, refresh, logout, version, poll, seen, holder, failed, shown>>

\* Slip: a count where the channel has room for one.
SignalCounted(g) ==
    /\ Move(g, "signal", "kick")
    /\ loginDone' = loginDone + 1
    /\ UNCHANGED <<enabled, queued, slot, refresh, logout, version, poller>>

\* loginDone <- struct{}{} blocks while the channel is full.
Signal(g) ==
    /\ Move(g, "signal", "kick")
    /\ loginDone = 0
    /\ loginDone' = 1
    /\ UNCHANGED <<enabled, queued, slot, refresh, logout, version, poller>>

LoginKicks(g) ==
    /\ Move(g, "kick", "none")
    /\ Kick
    /\ UNCHANGED <<menu, logout, version, poller>>

(* The goroutine of a logout: o.Logout, perhaps an alert, then kick.       *)

\* The click that starts it changes nothing here.  Revoke, drop the cache,
\* remove the file; or fail to remove it, or find none.
Logout(g) ==
    /\ logout[g] = "none"
    /\ logout' = [logout EXCEPT ![g] = "kick"]
    /\ \/ version < MaxVersion /\ version' = version + 1 /\ failed' = FALSE
       \/ UNCHANGED <<version, failed>>
    /\ UNCHANGED <<menu, refresh, login, forceNext, poll, seen, holder, shown>>

LogoutKicks(g) ==
    /\ logout[g] = "kick"
    /\ logout' = [logout EXCEPT ![g] = "none"]
    /\ Kick
    /\ UNCHANGED <<menu, login, version, poller>>

-----------------------------------------------------------------------------
(* The poll goroutine.                                                     *)

\* Status reads the token file; one that is not there or cannot be read will
\* do for "signed out".
PollReads ==
    /\ poll = "read"
    /\ seen' = version
    /\ poll' \in {"decide", "none"}
    /\ UNCHANGED <<menu, refresh, login, logout, version, forceNext, holder, failed, shown>>

\* It asks the server when forced; otherwise it may, or the cache or the
\* throttle repeats what it said last.
PollDecides ==
    /\ poll = "decide"
    /\ \/ poll' = "ask" /\ forceNext' = FALSE /\ UNCHANGED seen
       \/ ~forceNext /\ poll' = "wait" /\ seen' = NoVersion /\ UNCHANGED forceNext
    /\ UNCHANGED <<menu, refresh, login, logout, version, holder, failed, shown>>

\* h.set(o.Status(ctx)): the server has accepted or rejected the token, or
\* there is none.
PollAnswers ==
    /\ poll \in {"ask", "none"}
    /\ holder' = seen
    /\ failed' = FALSE
    /\ poll' = "wait" /\ seen' = NoVersion
    /\ UNCHANGED <<menu, refresh, login, logout, version, forceNext, shown>>

\* A transport failure: the status is of the session in the cache, which may be
\* any earlier one, or of none; one of these stands for them all.
PollFails ==
    /\ poll = "ask"
    /\ holder' \in (seen - 1)..seen
    /\ failed' = (seen = version)
    /\ poll' = "wait" /\ seen' = NoVersion
    /\ UNCHANGED <<menu, refresh, login, logout, version, forceNext, shown>>

PollTick ==
    /\ poll = "wait"
    /\ poll' = "read"
    /\ UNCHANGED <<menu, refresh, login, logout, version, forceNext, seen, holder, failed, shown>>

\* <-refresh, o.Refresh().
PollRefreshed ==
    /\ poll = "wait"
    /\ refresh = 1
    /\ refresh' = 0
    /\ forceNext' = TRUE
    /\ poll' = "read"
    /\ UNCHANGED <<menu, login, logout, version, seen, holder, failed, shown>>

Status == PollReads \/ PollDecides \/ PollAnswers \/ PollFails
Poll == Status \/ PollTick \/ PollRefreshed

LoginStep(g) ==
    \/ Acquire(g) \/ Busy(g) \/ FlowFails(g) \/ FlowSucceeds(g) \/ SaveToken(g)
    \/ SaveFails(g) \/ ForcePoll(g) \/ Signal(g) \/ LoginKicks(g)

Next ==
    \/ \E m \in Items :
         Click(m) \/ DropClick(m) \/ \E g \in Logins : LoginClicked(m, g)
    \/ LoginDone \/ RefreshClicked \/ Render
    \/ \E g \in Logouts : Logout(g) \/ LogoutKicks(g)
    \/ \E g \in Logins : LoginStep(g)
    \/ Poll

Spec == Init /\ [][Next]_vars

\* Every goroutine is scheduled: a login flow ends by its own timeout, every
\* request has one, the tickers tick, and a select with several ready cases
\* picks each of them sooner or later.  Nothing obliges a call
\* that is not forced to ask, or one that asks to succeed.
Fairness ==
    /\ WF_vars(LoginDone) /\ WF_vars(Render)
    /\ WF_vars(Status)
    /\ WF_vars(PollTick \/ PollRefreshed) /\ SF_vars(PollRefreshed)
    /\ \A g \in Logins : WF_vars(LoginStep(g))
    /\ \A g \in Logouts : WF_vars(LogoutKicks(g))

FairSpec == Spec /\ Fairness

-----------------------------------------------------------------------------
TypeOK ==
    /\ enabled \in BOOLEAN
    /\ queued \subseteq Items
    /\ loginDone \in {0, 1} /\ refresh \in {0, 1}
    /\ slot \in Logins \union {NoOne}
    /\ login \in [Logins -> {"none", "start", "flow", "save", "force", "signal", "kick"}]
    /\ logout \in [Logouts -> {"none", "kick"}]
    /\ version \in 0..MaxVersion
    /\ forceNext \in BOOLEAN
    /\ poll \in {"read", "decide", "none", "ask", "wait"}
    /\ {seen, holder, shown} \subseteq (0..MaxVersion) \union {NoVersion}
    /\ seen = NoVersion <=> poll \in {"read", "wait"}
    /\ failed \in BOOLEAN

\* The login items are never left disabled for good: as long as they are
\* disabled, a goroutine that will signal loginDone is alive or its signal is
\* in the channel (tray.go, the ErrBusy test before loginDone).
NoStuckMenu ==
    enabled \/ loginDone = 1
    \/ \E g \in Logins : login[g] \in {"start", "flow", "save", "force", "signal"}

\* One browser flow at a time, and the slot is free when none runs.
OneFlow == \A g \in Logins : login[g] = "flow" <=> slot = g

\* Whatever the status leaves out is on its way to it, unless the call that
\* asked for it has failed: a kick is to come or in the channel, or a call is to
\* ask that will read, or has read, the file as it is.  forceNext alone is no
\* such thing, as a Status call that had read the file before the change may use
\* it up (tray.go, "deps.force" and kick; poller.go, forceNext = false).
KickToCome ==
    \/ refresh = 1
    \/ \E g \in Logins : login[g] \in {"force", "signal", "kick"}
    \/ \E g \in Logouts : logout[g] = "kick"

ChangeOnItsWay ==
    holder # version /\ ~failed =>
        \/ KickToCome
        \/ forceNext /\ (poll = "decide" => seen = version)
        \/ poll \in {"ask", "none"} /\ seen = version

\* Disabled items are enabled again.
ItemsComeBack == ~enabled ~> enabled

\* A login or a logout made here gets to the screen, although a kick may be
\* dropped and forceNext may be used up by a Status call that read the token
\* file before the change; or else the call that was to show it fails, after
\* using forceNext up.  What is shown of it then is ShowsOwnSession of Poller.
ChangeIsShown ==
    \A v \in 1..MaxVersion : version = v ~> (shown = v \/ version > v \/ failed)

\* docs/superpowers/specs/2026-08-13-baobar-m2-terminal-free-login-design.md:218:
\* both login items are disabled while a flow is in progress.
DisabledDuringFlow == slot # NoOne => ~enabled

=============================================================================
