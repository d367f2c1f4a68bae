------------------------------- MODULE Poller -------------------------------
(***************************************************************************)
(* bao.Poller: the token file, the cache file and the server turned into   *)
(* one Status (internal/bao/poller.go, cache.go, state.go, token.go).      *)
(*                                                                         *)
(* Status runs on the poll goroutine only and is split where it touches    *)
(* something another actor may change meanwhile: the token file is read,   *)
(* then stat'ed; the throttle fields are read under mu, then written under *)
(* mu; the server is called with mu free.  Everybody else, the terminal,   *)
(* the login and logout goroutines, the server and the clocks, acts        *)
(* between any two of these steps.                                         *)
(*                                                                         *)
(* A session is named by its token: what a cache entry or a status says of *)
(* it (display name, policies, expiry) is a function of that name.  Time   *)
(* is counted in seconds.  `clock' is Go's monotonic reading, used by      *)
(* now.Sub(lastAttempt); the wall clock, used for checked_at and expiry,   *)
(* is clock + skew.                                                        *)
(***************************************************************************)
EXTENDS Integers

CONSTANTS
    Tokens,        \* the tokens that may be put in the token file
    NoToken,       \* what ReadToken finds in a missing or blank file
    NoCache,       \* what LoadCache finds in a missing or corrupt file
    Addrs,         \* server addresses
    Home,          \* Home[t]: the server that issued t
    NonExpiring,   \* tokens that never expire (root)
    ExpiresAt,     \* ExpiresAt[t]: expiry of every other token
    Recheck,       \* Poller.Recheck
    Warn,          \* Poller.Warn
    Skews,         \* offsets the wall clock may be set to
    Drift,         \* how far one of them may be behind another
    StampsCollide, \* whether a rewrite may have the TokenStamp of the last one
    DeleteMayFail, \* whether os.Remove may fail on the cache file
    MaxTime,       \* bound on clock
    MaxWrites      \* bound on the rewrites of the token file

ASSUME TokenAssumption ==
    /\ NoToken \notin Tokens
    /\ NonExpiring \subseteq Tokens
    /\ Home \in [Tokens -> Addrs]
    /\ ExpiresAt \in [Tokens -> Int]

ASSUME TimeAssumption ==
    /\ Recheck \in Nat \ {0}
    /\ Warn \in Nat
    /\ 0 \in Skews
    /\ Skews \subseteq Int
    /\ Drift \in Nat /\ \A s, u \in Skews : s - u <= Drift
    /\ StampsCollide \in BOOLEAN /\ DeleteMayFail \in BOOLEAN
    /\ MaxTime \in Nat
    /\ MaxWrites \in Nat

VARIABLES
    clock, skew,   \* monotonic time, and the offset of the wall clock
    file,          \* the token file: its token and its TokenStamp (0: no file)
    writes,        \* rewrites of the token file so far
    cache,         \* the cache file
    addr, lastAttempt, lastStamp, lastStatus, forceNext, \* the Poller
    pc, now, wall, token, stamp, forced, reply,          \* Status' locals
    at,            \* history: now of the latest completed Status, 0 at start
    okAt,          \* history: okAt[t] is when the server last accepted t
    fileAt         \* history: when the token file was last written or removed

env     == <<clock, skew, file, writes, fileAt>>
poller  == <<addr, lastAttempt, lastStamp, lastStatus, forceNext>>
locals  == <<now, wall, token, stamp, forced, reply>>
history == <<at, okAt>>
vars == <<env, cache, poller, pc, locals, history>>

States == {"signedOut", "signedIn", "expiring", "degraded"}

StatusRecord == [state : States, about : Tokens \union {NoToken}]

CacheEntry == [about : Tokens, checkedAt : Int, stamp : Nat, addr : Addrs]

TokenFile == [tok : Tokens \union {NoToken}, stamp : Nat]

\* The zero Status of a new Poller, also what a rejected token yields.
SignedOut == [state |-> "signedOut", about |-> NoToken]

-----------------------------------------------------------------------------
(* Pure parts of the code.                                                 *)

\* Slip: reachability asked first, so that an old expiry never counts.
ClassifyDegradedFirst(remaining, reachable) ==
    IF ~reachable THEN "degraded"
    ELSE IF remaining <= 0 THEN "signedOut"
    ELSE IF remaining <= Warn THEN "expiring"
    ELSE "signedIn"

\* Classify, for the one call site, where the expiry is known.
Classify(remaining, reachable) ==
    IF remaining <= 0 THEN "signedOut"
    ELSE IF ~reachable THEN "degraded"
    ELSE IF remaining <= Warn THEN "expiring"
    ELSE "signedIn"

\* statusFrom: NeverExpires short-cuts Classify.
StatusFrom(t, reachable) ==
    [about |-> t,
     state |-> IF t \notin NonExpiring
               THEN Classify(ExpiresAt[t] - wall, reachable)
               ELSE IF reachable THEN "signedIn" ELSE "degraded"]

\* Slip: no age limit.
FreshForever(c) ==
    /\ c.addr = addr
    /\ c.stamp = stamp
    /\ c.about \in NonExpiring \/ ExpiresAt[c.about] > wall

\* Cache.Fresh.
Fresh(c) ==
    /\ c.addr = addr
    /\ c.stamp = stamp
    /\ wall - c.checkedAt < Recheck
    /\ c.about \in NonExpiring \/ ExpiresAt[c.about] > wall

\* LoadCache succeeds and the entry is fresh.
HaveFresh == cache # NoCache /\ Fresh(cache)

\* Slip: the throttle rests on the cache alone, as it once did.
CallServerUnthrottled == TRUE

\* Slip: a forced call is throttled like any other.
CallServerUnforced ==
    \/ stamp # lastStamp
    \/ lastAttempt = 0
    \/ now - lastAttempt >= Recheck

\* The audit-log throttle lets the call through.
CallServer ==
    \/ forced
    \/ stamp # lastStamp
    \/ lastAttempt = 0
    \/ now - lastAttempt >= Recheck

\* The server at addr knows the token and it has not expired.
Accepted(t) ==
    /\ Home[t] = addr
    /\ t \in NonExpiring \/ ExpiresAt[t] > clock

\* Slip: the cache outlives the session.
NotDeleted == {cache}

\* DeleteCache: its error is dropped.
Deleted == IF DeleteMayFail THEN {NoCache, cache} ELSE {NoCache}

\* SaveCache: the entry, or the old file (open failed), or a truncated one.
Saved(c) == {c, cache, NoCache}

-----------------------------------------------------------------------------
Init ==
    /\ clock = 1 /\ skew = 0
    /\ file = [tok |-> NoToken, stamp |-> 0]
    /\ writes = 0
    /\ cache = NoCache
    /\ addr \in Addrs
    /\ lastAttempt = 0 /\ lastStamp = 0
    /\ lastStatus = SignedOut
    /\ forceNext = FALSE
    /\ pc = "idle"
    /\ now = 0 /\ wall = 0
    /\ token = NoToken /\ stamp = 0
    /\ forced = FALSE
    /\ reply = "none"
    /\ at = 0
    /\ okAt = [t \in Tokens |-> 0]
    /\ fileAt = 0

(* Status, step by step.                                                   *)

\* Status returns: its locals are gone.
Return ==
    /\ pc' = "idle"
    /\ at' = now
    /\ now' = 0 /\ wall' = 0
    /\ token' = NoToken /\ stamp' = 0
    /\ forced' = FALSE
    /\ reply' = "none"
    /\ UNCHANGED okAt

\* recordStatus(s), then return.
Record(s) ==
    /\ lastStatus' = s
    /\ UNCHANGED <<addr, lastAttempt, lastStamp, forceNext>>
    /\ Return

\* The ticker or a refresh wakes the poll goroutine: now := p.Now().
Begin ==
    /\ pc = "idle"
    /\ pc' = "read"
    /\ now' = clock /\ wall' = clock + skew
    /\ UNCHANGED <<env, cache, poller, token, stamp, forced, reply, history>>

ReadToken ==
    /\ pc = "read"
    /\ file.tok # NoToken
    /\ token' = file.tok
    /\ pc' = "stamp"
    /\ UNCHANGED <<env, cache, poller, now, wall, stamp, forced, reply, history>>

\* No usable token: drop the cache, signed out.
ReadTokenFails ==
    /\ pc = "read"
    /\ file.tok = NoToken
    /\ cache' \in Deleted
    /\ Record(SignedOut)
    /\ UNCHANGED env

\* A second look at the file, which may have been rewritten since ReadToken.
StampToken ==
    /\ pc = "stamp"
    /\ stamp' = file.stamp
    /\ pc' = "snapshot"
    /\ UNCHANGED <<env, cache, poller, now, wall, token, forced, reply, history>>

\* The throttle fields are copied under mu.  Only forceNext has writers other
\* than Status itself, so only its copy can differ from the field later on.
Snapshot ==
    /\ pc = "snapshot"
    /\ forced' = forceNext
    /\ pc' = "decide"
    /\ UNCHANGED <<env, cache, poller, now, wall, token, stamp, reply, history>>

ServeFresh ==
    /\ pc = "decide"
    /\ ~forced /\ HaveFresh
    /\ Record(StatusFrom(cache.about, TRUE))
    /\ UNCHANGED <<env, cache>>

\* Inside the window: the last status again, whatever it was.
Throttle ==
    /\ pc = "decide"
    /\ forced \/ ~HaveFresh
    /\ ~CallServer
    /\ Return
    /\ UNCHANGED <<env, cache, poller>>

\* Slip: the attempt is dated at the start of the window it closes.
MarkAttemptBackdated ==
    /\ pc = "decide"
    /\ forced \/ ~HaveFresh
    /\ CallServer
    /\ lastAttempt' = now - Recheck
    /\ lastStamp' = stamp
    /\ forceNext' = FALSE
    /\ pc' = "call"
    /\ UNCHANGED <<env, cache, addr, lastStatus, locals, history>>

\* Note the attempt and use up forceNext, under mu.
MarkAttempt ==
    /\ pc = "decide"
    /\ forced \/ ~HaveFresh
    /\ CallServer
    /\ lastAttempt' = now
    /\ lastStamp' = stamp
    /\ forceNext' = FALSE
    /\ pc' = "call"
    /\ UNCHANGED <<env, cache, addr, lastStatus, locals, history>>

\* LookupSelf: the server's verdict, or a transport failure or timeout.  Any
\* token may have been revoked since the last call.
LookupSelf ==
    /\ pc = "call"
    /\ \/ /\ Accepted(token)
          /\ reply' = "ok"
          /\ okAt' = [okAt EXCEPT ![token] = clock]
       \/ /\ reply' = "forbidden"
          /\ UNCHANGED okAt
       \/ /\ reply' = "error"
          /\ UNCHANGED okAt
    /\ pc' = "reply"
    /\ UNCHANGED <<env, cache, poller, now, wall, token, stamp, forced, at>>

\* The entry describes the token that was read, under the stamp taken later.
Entry == [about |-> token, checkedAt |-> wall, stamp |-> stamp, addr |-> addr]

ReplyOk ==
    /\ pc = "reply" /\ reply = "ok"
    /\ cache' \in Saved(Entry)
    /\ Record(StatusFrom(token, TRUE))
    /\ UNCHANGED env

ReplyForbidden ==
    /\ pc = "reply" /\ reply = "forbidden"
    /\ cache' \in Deleted
    /\ Record(SignedOut)
    /\ UNCHANGED env

\* Slip: any server's entry will do.
UsableAnywhere == cache # NoCache

\* The entry a transport failure falls back on.
Usable == cache # NoCache /\ cache.addr = addr

\* Fall back on whatever the cache says of this server.
ReplyError ==
    /\ pc = "reply" /\ reply = "error"
    /\ IF Usable
       THEN Record(StatusFrom(cache.about, FALSE))
       ELSE Record([state |-> "degraded", about |-> NoToken])
    /\ UNCHANGED <<env, cache>>

Status ==
    \/ Begin \/ ReadToken \/ ReadTokenFails \/ StampToken \/ Snapshot
    \/ ServeFresh \/ Throttle \/ MarkAttempt \/ LookupSelf
    \/ ReplyOk \/ ReplyForbidden \/ ReplyError

-----------------------------------------------------------------------------
(* The other actors.                                                       *)

\* Refresh now, a login or a logout: any goroutine, at any moment.
ForceRefresh ==
    /\ forceNext' = TRUE
    /\ UNCHANGED <<env, cache, addr, lastAttempt, lastStamp, lastStatus,
                   pc, locals, history>>

\* A login here or in a terminal.  The file has a new mtime or, while the clock
\* of the file system stands still, the last one again.
WriteToken(t) ==
    /\ writes < MaxWrites
    /\ writes' = writes + 1
    /\ \E n \in {writes + 1} \union (IF StampsCollide THEN {writes} \ {0} ELSE {}) :
          file' = [tok |-> t, stamp |-> n]
    /\ fileAt' = clock
    /\ UNCHANGED <<clock, skew, cache, poller, pc, locals, history>>

\* A logout here or in a terminal.
RemoveToken ==
    /\ file' = [tok |-> NoToken, stamp |-> 0]
    /\ fileAt' = clock
    /\ UNCHANGED <<clock, skew, writes, cache, poller, pc, locals, history>>

\* Logout's DeleteCache, on its own goroutine.
DropCache ==
    /\ cache' \in Deleted
    /\ UNCHANGED <<env, poller, pc, locals, history>>

Tick ==
    /\ clock < MaxTime
    /\ clock' = clock + 1
    /\ UNCHANGED <<skew, file, writes, fileAt, cache, poller, pc, locals, history>>

SetWallClock(s) ==
    /\ skew' = s
    /\ UNCHANGED <<clock, file, writes, fileAt, cache, poller, pc, locals, history>>

\* The process ends anywhere, perhaps half-way through SaveCache, and a new
\* one starts, perhaps with another address in its configuration.
Restart(a) ==
    /\ addr' = a
    /\ lastAttempt' = 0 /\ lastStamp' = 0
    /\ lastStatus' = SignedOut
    /\ forceNext' = FALSE
    /\ pc' = "idle"
    /\ now' = 0 /\ wall' = 0
    /\ token' = NoToken /\ stamp' = 0
    /\ forced' = FALSE
    /\ reply' = "none"
    /\ at' = 0
    /\ cache' \in IF reply = "ok" THEN {cache, NoCache} ELSE {cache}
    /\ UNCHANGED <<env, okAt>>

Others ==
    \/ ForceRefresh \/ RemoveToken \/ DropCache \/ Tick
    \/ \E t \in Tokens : WriteToken(t)
    \/ \E s \in Skews : SetWallClock(s)
    \/ \E a \in Addrs : Restart(a)

Next == Status \/ Others

Spec == Init /\ [][Next]_vars

\* The poll goroutine never stops (a one-second ticker), no file operation
\* blocks, and the HTTP client gives up after five seconds.
FairSpec == Spec /\ WF_vars(Status)

-----------------------------------------------------------------------------
TypeOK ==
    /\ clock \in Nat /\ clock >= 1
    /\ skew \in Skews
    /\ file \in TokenFile
    /\ writes \in Nat
    /\ cache \in CacheEntry \union {NoCache}
    /\ addr \in Addrs
    /\ lastAttempt \in Nat /\ lastStamp \in Nat
    /\ lastStatus \in StatusRecord
    /\ forceNext \in BOOLEAN
    /\ pc \in {"idle", "read", "stamp", "snapshot", "decide", "call", "reply"}
    /\ now \in Nat /\ wall \in Int
    /\ token \in Tokens \union {NoToken}
    /\ stamp \in Nat
    /\ forced \in BOOLEAN
    /\ reply \in {"none", "ok", "forbidden", "error"}
    /\ at \in Nat
    /\ okAt \in [Tokens -> Nat]
    /\ fileAt \in Nat
-----------------------------------------------------------------------------
(* Safety.                                                                 *)

Shown(states) == lastStatus.state \in states

Live == {"signedIn", "expiring"}

\* A status or a cache fallback never describes a session of a server other
\* than the one this Poller talks to, whatever the cache file survived: a
\* restart with another address, a failed delete, a wall clock that was set
\* (Poller.Addr, Cache.Addr, Fresh and the fallback in Status).
OtherServerNeverShown ==
    lastStatus.about \in Tokens => Home[lastStatus.about] = addr

\* Whatever is shown as live was accepted by the server less than two recheck
\* windows before the Status call that shows it, through revocations, failed
\* calls, forced calls, rewritten files and restarts: the bound the cache and
\* the throttle, each good for one window, give together.  A wall clock that is
\* set makes it longer by what it may be set back, and no more, for the entry's
\* age is a difference of wall clock readings (cache.go:95) and the throttle's
\* is not.
ConfirmedWithin2R ==
    Shown(Live) => /\ okAt[lastStatus.about] > 0
                   /\ at < okAt[lastStatus.about] + 2 * Recheck + Drift

\* A login is noticed: the session shown as live is that of the token in the
\* file, two windows after the file was changed at the latest, although its stamp
\* may be that of the file before (cache.go:26), a Status that had read the
\* former token may file its answer under the new stamp, the call for the new
\* one may fail, the cache that is to be replaced may not be writable, and the
\* wall clock may be set back.
ShowsOwnSession ==
    Shown(Live) /\ lastStatus.about # file.tok => at < fileAt + 2 * Recheck + Drift

\* An expired session is not shown as anything but signed out for longer than
\* one recheck window: the throttle replays a status for so long at most, after
\* the session has expired by the wall clock.
ExpiredWithinWindow ==
    ~Shown({"signedOut"}) /\ lastStatus.about \in Tokens \ NonExpiring
        => at < ExpiresAt[lastStatus.about] + Recheck + Drift

\* The session had ended when the last status was made, by some setting of the
\* wall clock.
Reopened(t) == t \notin NonExpiring /\ \E s \in Skews : ExpiresAt[t] <= at + s

\* Once a Poller has reported signed out it reports a live session only on
\* the server's word: no cache entry that survived, or was restored by a step
\* still in flight, brings a rejected session back.  What had ended by the wall
\* clock only may go on when that is set back.  Holds unless the cache file
\* cannot be deleted, or the wall clock is set ahead.
RejectedStaysOut ==
    [][Shown({"signedOut"}) /\ at > 0 /\ lastStatus'.state \in Live
        => reply = "ok" \/ Reopened(lastStatus'.about)]_vars

\* The audit-log budget of README.md and of the comment on Poller: a call is a
\* window after the last one or answers a prompt.  A prompt is a pending
\* Force, a token file other than the one last asked about, a new process.
Pending(b) == IF b THEN 1 ELSE 0

StampDebt ==
    IF pc \in {"snapshot", "decide", "call", "reply"}
    THEN Pending(lastAttempt = 0 \/ stamp # lastStamp) + Pending(file.stamp # stamp)
    ELSE Pending(lastAttempt = 0 \/ file.stamp # lastStamp)

Credits == Pending(forceNext) + StampDebt

Budget == INSTANCE AuditBudget
    WITH Window <- Recheck, lastCall <- lastAttempt, credits <- Credits

KeepsAuditBudget == Budget!BudgetSpec

\* A forced refresh is never forgotten: forceNext is cleared only by marking
\* an attempt (or by the end of the process), and while the file holds a
\* token the poll loop gets there.
ForceReachesServer == forceNext ~> (~forceNext \/ file.tok = NoToken)

-----------------------------------------------------------------------------
(* What the documentation says and the code does not do.                   *)

\* README.md:373: a revoked token is noticed within one recheck window, so
\* what is shown as live was accepted, and not revoked, that long ago at most.
ConfirmedWithinWindow ==
    Shown(Live) => at < okAt[lastStatus.about] + Recheck

\* cache.go:11: a stamp identifies the token its cache entry describes.
CacheStampsHonest ==
    cache # NoCache /\ cache.stamp = file.stamp /\ file.tok # NoToken
        => cache.about = file.tok

\* CONTRIBUTING.md:51 and poller_test.go:174: an unreachable server is not a
\* logout, as long as the token in the file has not expired.
NetworkFailureIsNotLogout ==
    [][reply = "error" /\ pc' = "idle" /\ at' > 0 /\ lastStatus'.state = "signedOut"
        => token \notin NonExpiring /\ ExpiresAt[token] <= wall]_vars

=============================================================================
