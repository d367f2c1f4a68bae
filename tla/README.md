# Baobar in TLA+

Specifications of Baobar, the tray application that shows the state of an OpenBao session, with
the TLC configurations that check them and the theorems that TLAPS proves about them. Paths in this
document are relative to the repository; line numbers of each definition are in `PROJECT.json`
under `map`, by module.

## 1. Inventory

Baobar is one process. It watches two files it shares with others, talks to one server, and serves
short-lived HTTP sessions on loopback while somebody logs in.

| Component | Source | State | Operations | What is hard | What must hold |
|---|---|---|---|---|---|
| Token poller | `internal/bao/poller.go`, `state.go` | `lastAttempt`, `lastStamp`, `lastStatus`, `forceNext` under `mu` | `Status`, `Force` | `Status` looks at the token file twice, at the throttle fields twice and at the server once, with everything else running in between | the audit-log budget; nothing shown that is too old, expired, rejected, or another server's |
| Status cache | `internal/bao/cache.go` | one JSON file, outlives the process | `LoadCache`, `SaveCache`, `DeleteCache`, `Fresh` | errors are dropped; the file survives restarts and changes of address | an entry is used for its own session and server only |
| Token file | `internal/bao/token.go` | `~/.vault-token`, shared with the CLI and SOPS | `ReadToken`, `WriteToken` | crashes and failures half-way, readers at any time | whole or absent, and no copy of the token in it left beside it |
| API client | `internal/bao/client.go` | none | `LookupSelf`, `RevokeSelf` | three kinds of answers, two ways to learn an expiry | refused, failed and accepted are kept apart |
| Wiring | `cmd/baobar/main.go` | none of its own | start-up, `Logout`, `runLogin` | logout is four steps, each may fail, while logins write the same file | the user is told what is still valid |
| Tray | `internal/tray/tray.go` | menu items, `holder`, channels `refresh` and `loginDone` | UI loop, poll loop, goroutine per login and logout | dropped clicks, dropped kicks, a blocking channel, one signal for several flows | changes reach the screen; the menu is never stuck |
| Warnings | `internal/notify/tracker.go`, end of `render` | `key`, `fired` | `Crossed` | sleep, re-login, renewals, a key that moves | once for each expiry, always the most urgent one, none missed |
| Browser flows | `internal/authflow` | slot `inFlight`; per session two listeners, `once`, `done` | `OIDC`, `UserpassBrowser`, `Setup`, handlers | late and repeated requests, timeouts, half-bound ports | one flow, its own result, everything released |
| Configuration and start-up | `internal/config/config.go`, `cmd/baobar/main.go`, `authflow/setup.go` | `config.toml` | `Load`, `SaveAddr`, first-run setup | saves that fail, race or are cut off; two launches at once; setup succeeds, then another setting is refused | settings survive; nobody is asked twice; the tray comes whatever happens |
| Start at login | `internal/autostart` | plist, desktop file or registry value; the checkbox | `Enabled`, `Enable`, `Disable`, the toggle | a toggle fails half-way; the program the entry names is upgraded, moved or gone | the checkbox follows the disk; an entry goes on to work |
| Readout | `internal/tray/format.go`, `render` in `tray.go` | what was last written to each part of the menu | `Human`, `Label`, `MenuLines`, `policySlots` | writing changes only; a countdown between polls; a submenu of fixed size | the screen shows the last status, and nothing is dropped silently |

How they meet: the poll goroutine calls `Status` once a second and puts the result in `holder`, from
which the UI goroutine renders. A click on a login starts a goroutine that runs a browser flow, writes
the token file, calls `Force`, signals `loginDone` and kicks the poll goroutine through `refresh`. A
click on logout starts one that revokes, deletes the cache, removes the token file and kicks. The CLI
writes and removes the same token file at any time; the server revokes and expires tokens. Before any of
this `main` loads the configuration, and serves the setup form if there is no address yet. The checkbox
for starting at login is read and toggled on the UI goroutine.

## 2. Modules

| Module | Lines of code it stands for | Checked by | Proved in |
|---|---|---|---|
| `Poller` | `poller.go`, `cache.go`, `state.go`, with `token.go`, `client.go` and `removeToken` as their effects | `MCPoller*.cfg` | `PollerProofs` |
| `AuditBudget` | nothing: the promise of `README.md` ("at most once per recheck window", save what was asked for), implemented by `Poller` | property `KeepsAuditBudget` | `PollerProofs` |
| `Tray` | goroutines of `tray.go`, login and logout of `main.go` | `MCTray*.cfg` | `TrayProofs` |
| `Credential` | `token.go`, `runLogin`, the `Logout` closure, `removeToken` | `MCCredential.cfg` | `CredentialProofs` |
| `TokenStore` | nothing: what readers of the token file see, the CLI and SOPS included, implemented by `Credential` | property `KeepsTokenStore` | `CredentialProofs` |
| `AuthFlow` | `session.go`, `oidc.go`, `browser.go`, `setup.go`, `userpass.go` as a choice | `MCAuthFlow.cfg` | `AuthFlowProofs` |
| `OneLogin` | nothing: what the callers of `authflow` see, one login at a time with one outcome each, implemented by `AuthFlow` | property `KeepsOneLogin` | `AuthFlowProofs` |
| `Warnings` | `tracker.go`, the end of `render`, the expiry in `client.go` | `MCScreen.cfg` | `WarningsProofs` |
| `Screen` | the rest of `render`, `format.go`, the status it gets; extends `Warnings`, both being one function | `MCScreen.cfg` | `ScreenProofs` |
| `Startup` | `main` up to the tray, `config.go`, `setup.go` | `MCStartup.cfg` | `StartupProofs` |
| `Autostart` | `internal/autostart`, the checkbox in `tray.go` | `MCAutostart.cfg` | `AutostartProofs` |

A definition whose comment begins with *Slip* is not part of the specification. It is the definition
after it with a plausible mistake, and shows that a property notices that mistake: substituting it
must violate the property `PROJECT.json` pairs it with under `mutants`.

### Poller

One action per step of `Status`: `Begin` (`now := p.Now()`), `ReadToken` or `ReadTokenFails`,
`StampToken`, `Snapshot` (the copy under `mu`), then `ServeFresh`, `Throttle` or `MarkAttempt`, then
`LookupSelf` and `ReplyOk`, `ReplyForbidden` or `ReplyError`. `Status` is split exactly where another
actor may act and make a difference: the cache and `lastStatus` are written by `Status` itself
(`DropCache` apart), so loading and comparing them are part of the step that decides. `lastAttempt`,
`lastStamp` and `lastStatus` have no other writer than `Status`; only the copy of `forceNext` is a
variable.

The other actors are `ForceRefresh`, `WriteToken`, `RemoveToken`, `DropCache` (the logout goroutine),
`Tick`, `SetWallClock` and `Restart`. Revocation has no action: any token may have been revoked since the
last call, so `LookupSelf` may be answered "forbidden" at any time. `Restart` may come at any point, leaves the cache
file as it is or, in the middle of `SaveCache`, truncated, and may bring another address.

A session is named by its token; what a cache entry says of it is a function of that name. `clock` is
Go's monotonic reading, which `now.Sub(lastAttempt)` uses; `wall` is what goes into `checked_at` and
what expiries are compared with. Time is in whole seconds: comparisons of Unix seconds in `Fresh` can
be up to one second more generous than the model's. The wall clock may be set to any of `Skews` at any
time; `Drift` bounds how far apart they are, and the age bounds have it added to them. The server judges expiry by `clock`, that is, its
clock agrees with the one the process started with. `SaveCache` has three outcomes: saved, unchanged
(the directory or file cannot be opened) and truncated (the write failed). With `StampsCollide` a rewrite
may have the stamp of the one before, as when two tokens of equal length are written within the resolution
of the file system's clock; without it stamps are unique per write. The history variable `fileAt` is the
time of the latest change of the token file, which `ShowsOwnSession` relates to what is shown.

### AuditBudget and the refinement

`AuditBudget` has two variables, the time of the last request and the number of *credits*, reasons to
ask early. `Poller` implements it with `lastCall <- lastAttempt` and
`credits <- Pending(forceNext) + StampDebt`: a pending `Force`, a token file with another stamp than
the last one asked about, a stamp in the hands of a running `Status` that differs from that one, and a
new process are the only credits. No failure of the cache, the network or the clocks creates one.

### Tray

Login goroutines go `start, flow, save, force, signal, kick`, logout goroutines `run, kick`. Both
channels have a buffer of one: `Kick` never blocks, `Signal` does. `queued` is what systray has in
flight: a click made while the items were enabled may be delivered after they were disabled, which is
how several login goroutines come to be alive. `Status` is reduced to reading the version of the token
file (`PollReads`), deciding whether to ask, with `forceNext` consumed when it does (`PollDecides`), and
either reporting what it read (`PollAnswers`) or falling back (`PollFails`). That the decision may come
after a change which the reading missed is the race `ChangeIsShown` is about. `ChangeOnItsWay` is the
safety part of that: as long as the screen is behind the token file, something is under way that will
bring it up to date.

A lookup that fails has used up the forced refresh and the stamp all the same (`poller.go:118`), and the
status is then that of an earlier session or a bare "degraded" one (`poller.go:131`). Nothing is under way
any more, and the throttle repeats it for a window. This is the exception both properties make: the history
variable `failed` says that the last answer was such a one and read the file as it is now. What may be
shown meanwhile, and for how long, is `ShowsOwnSession` of `Poller`. `ChangeOnItsWay` does not excuse a
failed call that read the file *before* the change.

A click on logout and what `o.Logout` does to the file are one action, `Logout`, since the click changes
nothing that another goroutine sees; the kick after it is a step of its own.

### Credential

The token file with its content and whether it can be read, the temporary files, what the server honours, and one program counter
per login and logout goroutine. `WriteToken` is `CreateTemp`, `WriteTemp`, `Rename`, with the deferred
removal in `WriteOrRenameFails`. The error of that `os.Remove` is dropped (`token.go:52`), so the file may
stay as far as it was written: `litter` is what such failures, and ends of the process, have left. It may
well hold a token, and a valid one, which was never saved and which no logout will revoke. What
`NoCopyLeft` says is that it never holds the one that was: `os.Rename` takes the copy away.
`Logout` is `LogoutReads`, `Revoke`, `Remove`; a request may fail
after the server has carried it out. The history variable `ended` records how a logout ended: silently
or with the alert.

`TokenStore` has three variables: the token in the file, those the server has issued, and those that are
still coming, to each of which one thing happens: it is saved or given up. `Credential` implements it with
`stored <- file` and with the tokens in the hands of logins as `coming`. Temporary files, revocations and
the ways of failing are stutters or one `GiveUp`; a torn file has no counterpart at all.

### AuthFlow

Flows of all three kinds and requests on goroutines of their own. A request's handler asks the server
(`Grant`, `Deny`), writes its page (`TellSuccess`) and finishes (`FinishFlow`), at any time after it
arrived, the flow's end included. The two listeners of an OIDC session share a fixed port with other
flows and with another process. `ServeStarts` is a step of its own because `go s.srv.Serve(ln)` only
starts a goroutine. First-run setup comes before the tray: `MayStart` keeps
logins back until it has succeeded.

`OneLogin` has three variables: the call under way, what each call returned and to which call each
request was granted. `AuthFlow` implements it with `running <- slot`, with `returned` the result of
the flows that have got to `Return`, and with `owner` the target of the requests in `granted`. A flow's
result is settled by its `Select`, two steps before it is returned; a grant may come after its flow is over.

### Warnings and Screen

`render` is one function: it writes the icon and the menu, and at its end asks the Tracker. `Warnings` has
the clock, the session and expiry of the status, the Tracker and the notifications sent; `Screen` adds
the rest of the status and what was last written to each part of the menu (`last...` in `uiLoop`), and
conjoins `Draw` to `Render`. Sessions are numbered by login. `Ends` has for each session the times at which
the server may say that it ends: more than one, if it is renewed or if seconds are rounded differently, and
`{0}` if it has no end (`NeverExpire`). `Publish` picks one of them and one of the answers that mean it
(`AnswersFor`): an `expire_time`, or only a `ttl`, which is zero or centuries for a session without an end.
What the status gets is what `LookupExpiry` makes of that answer, branch by branch of `client.go:91-113`.
So the Tracker's key may move at any poll; the histories `ends` and `moves` record the end last told and how often
it was another one. A `Duration` is
64 bits wide, `Seconds` wraps at `Half`, so that leaving out the cap of `client.go:100` shows. A status may
be published when its session is over, as the cache allows, but not for a session older than the last one
shown (see the list in section 3). A text is a record of what it says: its kind, its hours and minutes,
its list. `View` is what `render` would write on an empty screen, `Keys` what each part is kept up by.

### Startup

One main goroutine per launch (`FirstLoad`, `OpenForm`, `TimesOut` or `FormDone`, `SecondLoad`) and one
handler per submission of a form, which goes through `SaveAddr` (`Submit`, `DecodeExisting`, `CreateTemp`,
`Rename`, and the failures of each) and then writes its page and finishes. Launches, submissions, the ends
of processes (`End`) and edits by hand interleave. The settings other than the address are one value:
`Load` looks at them after the address and refuses a bad one whichever it is. The removal of the temporary
file after a failure may fail as well, its error is dropped (`config.go:273`). An `os.Stat` that fails, for
whatever reason, is taken for "no file" (`config.go:257`): `Found` has that, for `StatMayFail`. `byHand` remembers the file
as the user left it, `since` the submissions made after that.

### Autostart

The three mechanisms differ in `mech`: a file that `os.WriteFile` truncates and then writes (`Truncate`,
`Write`, `WriteFails`), or a registry value (`SetValue`). Programs are paths of four sorts: inside a
bundle, in a temporary directory, in a directory named for a version, and others; `Link` is a symbolic link
as package managers make them, which `Upgrade` moves. `Enabled` is the package's, `WouldStart` what the
desktop does with the entry at the next login; `Start` begins a process by any path to a program.

## 3. Runs

Bounds are in the `.cfg` files under the names the modules give them. TLC explores all interleavings
within them.

| Run | Shows | Bounds, and why they are enough |
|---|---|---|
| `poller` | `ConfirmedWithin2R`, `ShowsOwnSession`, `ExpiredWithinWindow`, `RejectedStaysOut` | window 2, horizon 5, t1 expiring at 3: a violation of the age bounds needs a check, a failed forced call and a throttled call, two windows in all. Two writes of the token file, so that one may replace a token and share the other's stamp. With a bound of one window instead of two the same run violates `ShowsOwnSession` |
| `poller_budget` | `OtherServerNeverShown`, `KeepsAuditBudget`, `ForceReachesServer` | two servers with a session each, one a root token, the other expiring at the horizon; a horizon of one whole window, so that a call may be throttled, prompted or due again; clock set back by a whole window, cache that resists deletion |
| `tray` | `NoStuckMenu`, `ChangeOnItsWay`, `ChangeIsShown`, `ItemsComeBack` | two login goroutines, one of them in a flow and the other refused or from a stale click; one change, by a login or a logout, at any moment of the poll goroutine, whose calls may fail. The safety part is proved for any number |
| `credential` | `KeepsTokenStore`, `NoCopyLeft`, `SilentMeansRevoked` | two logins, two logouts, three tokens, a terminal, crashes, failed removals; goroutines and tokens are symmetric |
| `authflow` | `KeepsOneLogin`, `CallbackIsOurs`, `ResultIsItsOwn`, `HandlersEnd`, `PortsAreFreed` | two flows of any kind, so that a late request belongs to an earlier one and two callbacks compete for the port, and two requests, so that one may be repeated; no symmetry, because of the temporal properties; `CHECK_DEADLOCK FALSE` because flows and requests are used once and then all is done |
| `screen` | `OncePerExpiry`, `NoLateWarning`, `NoWarningMissed`, `ScreenIsCurrent`, `CountdownIsTrue`, `EndlessIsNeverOver`, `PoliciesAccountedFor` | three sessions: one that the server ends at either of two times, one without an end, one ordinary; three moves of each, the first answer included (`MaxMoves`), so that an end is moved away and back; sleeps long enough to jump over one or both thresholds; two rows in the submenu, answers with one and with three policies, two of them with the same number of names; any number is proved |
| `startup` | `SettingsSurvive`, `NeverAskedTwice`, `SetupSettlesTheAddress`, `EveryLaunchArrives` | two launches and two submissions, of one form or of two; one edit by hand at any time outside a running `SaveAddr` (`EditsRace`); files with each of the contents `Load` tells apart; an environment with and without an address; an `os.Stat` that finds what is there (`StatMayFail = FALSE`). `CHECK_DEADLOCK FALSE` because launches and submissions are used once |
| `autostart` | `EntrySurvives`, `SetBoxWouldStart`, `ToggleAnswered` | two versions, a bundle, a local build, a temporary program and a bundle in a temporary place: one path for each way `resolveIntoBundle` and `checkStablePath` treat one. Nothing is counted, so no bound limits the number of toggles, restarts and upgrades |

Each module's `TypeOK` is checked by its first run (`ScreenTypeOK` has that of `Warnings` in it).
`RejectedStaysOut` needs deletions of the cache file that succeed; `poller` has them, `poller_budget` does
not. The age bounds are checked with a wall clock that nobody sets (`Drift = 0`), because another setting
of it makes the states too many for a horizon long enough; the theorems have them for any settings.

Fairness. `poller_budget`: weak fairness of `Status`, because the poll goroutine never returns, its
ticker fires each second, and no file operation or request blocks for ever (the client's timeout is
five seconds). `tray`: every goroutine is scheduled; a flow ends by its own
timeout (five minutes) or its context (six); strong fairness of `PollRefreshed`, because a `select`
with several ready cases picks among them at random, so that a waiting kick is taken sooner or later.
Fairness of a login goroutine includes `Signal`, which only blocks until the UI loop, fair as well,
has emptied the channel. Clicks are not fair: nobody has to click. Nor does anything make a call that is
not forced ask the server, or one that asks succeed. `authflow`: goroutines are
scheduled, each request to the server is bounded by the flow's context, and the timer fires. `startup`:
the main goroutine of a process that has been started goes on, and the timer of the form fires; nothing
obliges a user to submit it, or a handler to finish.

### Where the code and its documentation disagree

Each of these runs violates one property that states what the documentation says.

| Run | Documentation | Code |
|---|---|---|
| `poller_revoked` | `README.md:373`: a revoked token is noticed within the window | after a failed forced refresh, cache and throttle add up to almost two windows. `ConfirmedWithin2R` is what does hold |
| `poller_stamps` | `cache.go:11`: the stamp identifies the token of the entry | the stamp is taken after the token was read, and a login may come between |
| `poller_network` | `CONTRIBUTING.md:51`: a network failure is not a logout | the fallback uses the entry of an expired earlier session for a new token |
| `tray_disabled` | M2 design (`docs/superpowers/specs/2026-08-13-baobar-m2-terminal-free-login-design.md:218`): both items are disabled during a flow | the end of one flow enables them during the next one |

Seen while modelling, and not given a run of their own:

* A session that expires inside a window is shown with its last state until the window ends
  (`poller.go:114`), where the design of 2026-08-13, line 127, has "expired" as signed out.
  `ExpiredWithinWindow` is the bound that holds.
* A rejected session whose cache entry cannot be deleted is shown from that entry again
  (`poller.go:128`); `docs/NEXT.md:170` has a failed `DeleteCache` as harmless.
* A logout removes whatever is in the token file when it gets there (`main.go:92`): a token written
  while it was revoking the previous one, or one it could not read, is removed unrevoked and silently.
  Its alert (`tray.go:355`) is one text for every failure, so it may say "cleared" of a file that could
  not be removed, and "remains valid" of a token the server has just called invalid.
* The page "Signed in" is written before the flow is told (`browser.go:100`, `oidc.go:97`), so it may
  be shown for a flow that has timed out.
* `serve` may return while a listener is still open whose `Serve` goroutine has not run
  (`session.go:293`). `PortsAreFreed` shows that it is closed in the end.
* "At most once per token" (`tracker.go:9`) holds of an expiry, not of a token: whenever the server names
  another one, because of a renewal or because `ttl` was rounded differently (`client.go:104`), the
  warnings are repeated. `OncePerExpiry` is what does hold. They are also repeated for an older session that is shown
  again from the cache because the entry of the newer one could not be saved, with stamps that collide;
  `Warnings` leaves that out.
* An answer with a `ttl` of zero is a session without end (`client.go:97`). So a server that gives no
  `expire_time` has an ordinary session shown as endless in its last second; the model has this.
* A temporary file may be left without the process having ended, when the removal fails as well
  (`token.go:52`, `config.go:273`; `token.go:48`: "any failure past this point must not leave the temp file behind").
* `SaveAddr` takes any failure of `os.Stat` for "no file" (`config.go:257`) and then replaces the file by one
  without the other settings. `StatMayFail` switches that on, and `SettingsSurvive` fails.
* `README.md:305` has a notification fire at `BAOBAR_WARN`; the thresholds of the Tracker are fixed at 30
  and 5 minutes (`main.go:67`), and only the icon follows the setting.
* `config.go:92` says that an unreadable file is no error. A file that is there and cannot be opened is
  one: `DecodeFile` fails (`config.go:99`).
* The setup page says "Baobar is starting" (`setup.go:85`) when the second `Load` may still refuse
  another setting, or the flow may have timed out a moment before.
* `SaveAddr` goes on from what it read: an edit made by hand before its rename is lost (`EditsRace`
  switches such edits on, and `SettingsSurvive` fails). Comments and unknown keys are dropped, and the
  temporary file is not synced before the rename; both are outside the model.
* Two launches may both show the form, and the one that loads last runs with the address typed into the
  other's.
* A toggle may succeed while `Enabled` is false, when the running program has been moved away since it was
  started: the box stays empty and nothing is said (`tray.go:40` against `tray.go:95`). `ToggleAnswered`
  names this exception.
* On Linux `os.Executable` has already followed the link, so that an entry made by a process started
  through a link into a versioned directory names the version (`Lasts`).
* A LaunchAgent cut off behind its program reads as enabled though launchd refuses it, the exception in
  `SetBoxWouldStart`. That the desktop's own settings may disable an entry is not seen by `Enabled` either.

## 4. Proofs

Theorems hold for every value of the constants that satisfies the modules' `ASSUME`s, which say no more
than that markers such as `NoToken` are none of the tokens, that numbers are numbers and that somebody
launches the program. Every module proves its `TypeOK` first, `TypeInv` being that with what else the
steps rely on.

`PollerProofs`

* `TypeCorrect`: `Spec => []TypeOK`, with the addition that from `ReadToken` on `Status` holds a token.
* `ServerCorrect`: `Spec => []OtherServerNeverShown`. The invariant alone is not inductive: a cache
  entry must be filed under its session's own server (`Home[cache.about] = cache.addr`), and so an
  answer "ok" in flight must have come from that server. `ServerInv` says both.
* `BudgetCorrect`: `Spec => KeepsAuditBudget`, the refinement. `QuietStep` shows that every step
  but `MarkAttempt` is a `Prompt`, a `Waive`, a `Boot` or a stutter, `CallStep` that `MarkAttempt`
  is a `Call`. `BudgetInv` is needed for the latter: the *copy* `forced` says that the field
  `forceNext` is still set, since nobody but `Status` clears it.
* `ConfirmedCorrect` and `ExpiredCorrect`, for a wall clock that may be set at any time. `ClockInv`
  orders the readings a `Status` holds and keeps `wall - now` within `Skews`, `AcceptInv` says that an entry
  is no younger than the server's word, whichever setting of the clock dated it and whichever reads it, and
  `StaleInv` carries the argument: the attempt a status rests on lies within one window and `Drift` of the
  server's word (or within `Drift` of the expiry), and the throttle, which goes by the monotonic clock,
  repeats it for less than one more window. So a clock that is set back adds what it is set back by once, not
  once for each window.
* `OwnSessionCorrect`, likewise, with stamps that may collide. `OwnInv` says that
  whatever is held about another token than the one in the file, a `Status` under way, the cache entry, the
  status shown, was asked for before the file changed or rests on an attempt less than a window later.
  `FileChange` is the step that matters: every write of the file restarts both windows, for everything
  known then was known before it.
* `RejectedCorrect`: `Spec => RejectedStaysOut`, assuming `~DeleteMayFail` and a wall clock that is never
  set ahead of the server's. Behind a reported "signed out" there is no cache entry, or one whose session was
  over by the wall clock of then (`RejectInv`), and so no step but an answer of the server can show a live
  session next, unless that clock has been set back (`RejectStep`). Both assumptions are needed: with a clock
  that is ahead TLC finds a session that the server has just accepted reported as signed out, its entry not
  saved, and the entry before it, about another token with the same stamp, shown once the clock is right again.

`TrayProofs`

* `MenuCorrect`: `Spec => []NoStuckMenu`, for any number of goroutines. A goroutine refused with
  `ErrBusy` does not signal, and may be the one that disabled the items; what makes this safe is
  `OneFlow`, which puts the holder of the slot in a flow, from where it will signal. So the two are
  proved together.
* `FlowCorrect`: `Spec => []OneFlow`: at most one flow runs, and the slot is held exactly while it does.
* `ChangeCorrect`: `Spec => []ChangeOnItsWay`, for any number of logins, logouts and changes. What `WayInv`
  adds is that a `Status` which read the file before a change is itself followed by a kick. The case that matters is a change between
  `PollReads` and `PollDecides`: the forced refresh is used up for the old version, and the kick that the
  login or the logout has yet to send is what makes up for it. The exception for a failed call is exact:
  `failed` is set only by a call that read the file as it is, and every later change clears it.
  `ChangeIsShown` is this with fairness.

`CredentialProofs`, for any number of logins, logouts and tokens

* `FileCorrect`: `Spec => []TokenFileWhole`. `FileInv` adds that what is about to be renamed is a whole token.
* `CopyCorrect`: `Spec => []NoCopyLeft`. `CopyInv` follows a token from hand to temporary file to the token
  file, and says that one left in a temporary file for good is in nobody's hand and so will never be saved.
* `StoreCorrect`: `Spec => KeepsTokenStore`, the refinement. `LoginStore` shows that a step of a login is an
  `Issue`, a `Save`, a `GiveUp` or a stutter; `HandInv` is what it needs: each token is in one hand at most,
  only until it is renamed, and what is renamed over the file is that token.
* `SilenceCorrect`: `Spec => []SilentMeansRevoked`. A token that was revoked must not become valid again:
  `RevokeInv` says that every token held anywhere has been issued, and the server issues none twice.

`AuthFlowProofs`, for any number of flows and requests

* `OneLoginCorrect`: `Spec => KeepsOneLogin`, the refinement. `FlowLogin` shows that a step of a flow is a
  `Begin`, a `Refuse`, an `End` or a stutter, `HandlerLogin` that a handler's is a `GrantTo` or a stutter. It
  rests on the slot being exact, on the result being the flow's own, and on `GrantInv`: a request
  reaches a flow that has begun, which follows from what is known of its listeners.
* `SlotCorrect`: `Spec => []SlotIsExact`, inductive as it stands: whoever is between `acquire` and `release`
  holds the slot.
* `ListenerCorrect`: `Spec => []NoListenerLeft`, the safety part of `PortsAreFreed`. `ListenInv` follows each
  listener from binding over starting and serving to closing along every way out of a flow; the listener that
  `serve` may leave open behind it belongs to a goroutine that has yet to start, and will find `Shutdown` done.
* `RoomCorrect`: `Spec => []FinishHasRoom`, the safety part of `HandlersEnd`: `finish` never waits.
* `ResultCorrect`: `Spec => []ResultIsItsOwn`. `ResultInv` follows a request from the server's grant
  through its page to the channel `done`, and says of what is in the channel what is to be shown of the
  result.
* `CallbackCorrect`: `Spec => []CallbackIsOurs`. By `PortInv` a flow that is served holds the `[::1]`
  half of its pair, or the machine has none: a port that is held cannot be taken by another program.

`StartupProofs`, for any number of launches, submissions and edits

* `TypeCorrect`: `Spec => []TypeOK`, by which a temporary file beside `config.toml` is one of a `SaveAddr`
  between `CreateTemp` and `Rename` or of one that has failed.
* `SettingsCorrect`: `Spec => []SettingsSurvive`, with the assumptions `~EditsRace`, that nobody edits the
  file between the reading and the renaming of a `SaveAddr`, and `~StatMayFail`; TLC refutes it without
  either. By `KeepInv` every `SaveAddr` under way
  carries the settings that are in the file, so that of two at once it does not matter which is last.
* `AskedOnceCorrect`: `Spec => []NeverAskedTwice`. `AskInv` follows the address a submission was accepted
  with to the file; a later `SaveAddr` puts another usable one there.
* `SetupCorrect`: `Spec => []SetupSettlesTheAddress`, from `AskInv` and `SetupInv`: a form is finished by
  a submission that got as far as its page.

`AutostartProofs`, for any paths, upgrades and restarts

* `EntryCorrect`: `Spec => []EntrySurvives`. Not inductive alone, for what an entry names may be replaced
  by the next upgrade: `EntryInv` says that a process started from a lasting place knows itself by
  that path, and so names neither a temporary place nor that of a version.
* `BoxCorrect`: `Spec => SetBoxWouldStart`, from the types; `Enabled` looks for itself each time.
* `ToggleCorrect`: `Spec => ToggleAnswered`. `ToggleInv` says what a toggle without an error has left.

`WarningsProofs`, for any sessions, thresholds and sleeps

* `ExpiryOfAnswer`, the lemma everything rests on: what `LookupExpiry` makes of an answer is the end that the
  server meant, or none, or a time that is over when that end is.
* `OnceCorrect`: `Spec => []OncePerExpiry`. By `OnceInv` a threshold that has been notified as often as the
  expiry of the latest session has moved is marked in the Tracker, and the Tracker still goes by that expiry;
  polls and sign-outs between do not touch it.
* `OrderCorrect`: `Spec => NoLateWarning`. By `ClosedInv` the marks have no gaps above, so that the most urgent of
  the newly crossed thresholds is the most urgent of all that the session is inside of (`DueIsUrgent`), also
  after the key has moved.
* `MissedCorrect`: `Spec => []NoWarningMissed`, assuming `EndsApart`, that the server ends no two ordinary
  sessions at the same time: the Tracker knows a session by its expiry, and would take the second for the
  first. `MissInv` says that the shortest mark was notified for a session whose expiry is the key.
  The shortest of any thresholds exists because `<` on the naturals is well-founded.

`ScreenProofs`, for any texts, sizes and clock

* `ScreenWarns`: `ScreenSpec => Spec`, so that what is proved of the warnings holds of the screen;
  `ScreenOnce` is an instance.
* `ScreenCorrect`: `ScreenSpec => []ScreenIsCurrent`. `DrawnInv` says what each remembered key tells of the
  part of the screen it is kept for, though some keys are not the text that is written; a part that
  has never been written is remembered by a key that no status makes (`KeysAreNew`).
* `MergeIsTheSet`: the merged list of an answer names each policy of its two lists once, and not `default`.
  `Merge` is a fold of the community modules, which is a recursive function on sets of places. `TurnsExist`
  and `MergeTurns` unroll it into the list that each turn of the loop has made, and the induction over the
  turns is that of `SetInduction`, which is about a set of numbers and has no operator as a parameter.
* `PoliciesCorrect`: `ScreenSpec => []PoliciesAccountedFor`, for any number of rows and policies. `SlotsAccount`
  is about one list (all of it, or all but one row of it and a count of the rest), `ListInv` and `RowsInv`
  say that the rows were made from such a list.
* `ScreenTypeCorrect`: `ScreenSpec => []ScreenTypeOK`, which needs those for the number of rows.
* `CountdownCorrect` and `EndlessCorrect`: what the current screen says of the end that the server last told.
  `HumanIsTime` is the arithmetic:
  hours and minutes, each rounded down, are the time rounded down, whatever the length of a minute.

Only model-checked: the liveness properties and everything about fairness (`ForceReachesServer`,
`ChangeIsShown`, `ItemsComeBack`, `HandlersEnd`, `PortsAreFreed`, `EveryLaunchArrives`): the prover has no
rules for `ENABLED` and fairness. For the first five the invariant that makes them true is proved: `BudgetInv`,
by which only an attempt uses up a forced refresh, `ChangeOnItsWay`, `NoStuckMenu`, `FinishHasRoom` and
`NoListenerLeft`. The properties of the runs that expect a violation are false. No module uses `RECURSIVE`.

## 5. What is not modelled, and the plan

Not modelled: formats of files and messages, the escaping and texts of pages, icons, `browserCommand`,
the sending of notifications, which headers and hosts `guard` accepts, what `ValidateAddr` accepts, the
quoting of paths in login entries, the choice of an MFA method, the menu of a configuration error, and
`configerror.go`. They are data or plain calls.

Next: an abstract store for the configuration file in `Startup`, with the refinement proved; then `Session`,
"a login makes the session visible, a logout ends it", and the composition of `Poller`, `Tray` and `Credential`
that implements it.
