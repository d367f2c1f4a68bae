------------------------------ MODULE Warnings ------------------------------
(***************************************************************************)
(* Expiry warnings: notify.Tracker (internal/notify/tracker.go), the end   *)
(* of render (internal/tray/tray.go) that asks it once a second, and the   *)
(* expiry that LookupSelf reads off the server's answer                    *)
(* (internal/bao/client.go), which is the key the Tracker knows a session  *)
(* by.                                                                     *)
(*                                                                         *)
(* Sessions are numbered in the order of their logins.  A status is shown  *)
(* for a session of no lower number than the last one shown: what Poller   *)
(* says of a cache that could not be saved is not repeated here.  Time is  *)
(* the wall clock.                                                         *)
(***************************************************************************)
EXTENDS Integers, FiniteSetsExt

CONSTANTS
    Sessions,    \* 1..N
    Ends,        \* Ends[s]: when the server may say that it ends session s, more
                 \* than one time if that is renewed or rounded; {0}: never
    Huge,        \* a ttl that stands for no end, centuries; a root token's is 0
    Cap,         \* 3_153_600_000 seconds
    Half,        \* half the range of a time.Duration
    Thresholds,  \* NewTracker(30*time.Minute, 5*time.Minute)
    MaxSleep,    \* longest time between two renderings
    MaxMoves,    \* bound on moves[s]
    MaxTime      \* bound on clock

NeverExpire == {s \in Sessions : Ends[s] = {0}}

ASSUME WarningsAssumption ==
    /\ Sessions \subseteq Nat \ {0}
    /\ Ends \in [Sessions -> SUBSET Nat]
    /\ \A s \in Sessions \ NeverExpire : 0 \notin Ends[s]
    /\ Thresholds \subseteq Nat \ {0}
    /\ Huge \in Nat /\ Cap \in Nat /\ Half \in Nat /\ Cap < Half /\ Cap < Huge
    /\ MaxSleep \in Nat /\ MaxMoves \in Nat /\ MaxTime \in Nat

VARIABLES
    clock,
    about,     \* the session the status in the holder is about, 0: signed out
    expiresAt, \* the status' ExpiresAt, 0: none
    latest,    \* highest session shown
    key, fired,  \* the Tracker
    rendered,  \* whether the UI goroutine has rendered that status at that time
    told,      \* history: told[s][th] counts the notifications of th for s
    ends,      \* history: when the server last said that it ends session latest
    moves      \* history: moves[s] counts the times it said another for s

history == <<told, ends, moves>>
vars == <<clock, about, expiresAt, latest, key, fired, rendered, history>>

Init ==
    /\ clock = 1
    /\ about = 0 /\ expiresAt = 0
    /\ latest = 0
    /\ key = 0 /\ fired = {}
    /\ rendered = FALSE
    /\ told = [s \in Sessions |-> [th \in Thresholds |-> 0]]
    /\ ends = 0 /\ moves = [s \in Sessions |-> 0]

-----------------------------------------------------------------------------
\* Slip: a ttl is a ttl.
EndlessUncapped(ttl) == ttl = 0

\* LookupSelf, without an expire_time: no ttl, or one so long that a Duration
\* could not hold it.
Endless(ttl) == ttl = 0 \/ ttl > Cap

\* time.Duration(ttl) * time.Second, in 64 bits.
Seconds(ttl) == ((ttl + Half) % (2 * Half)) - Half

\* LookupSelf: when the session of an answer to a call made at `now` is over,
\* 0: never.  A ttl below zero is taken for none left.
LookupExpiry(a, now) ==
    CASE a.expire_time # 0 -> a.expire_time
      [] a.expire_time = 0 /\ Endless(a.ttl) -> 0
      [] a.expire_time = 0 /\ ~Endless(a.ttl) -> now + (IF a.ttl > 0 THEN Seconds(a.ttl) ELSE 0)

\* The server's answers about a session that it ends at `end`: that time, or
\* the seconds until then.
AnswersFor(end) ==
    IF end = 0 THEN [expire_time : {0}, ttl : {0, Huge}]
    ELSE [expire_time : {0, end}, ttl : {end - clock}]

\* The server is asked about session s, which may be over, and its answer
\* becomes the status, at once or by way of the cache: a time is then that
\* time still, and a ttl is one from the time it was given.
Publish(s) ==
    /\ s >= latest
    /\ latest' = s /\ about' = s
    /\ \E end \in Ends[s] : \E a \in AnswersFor(end) :
         /\ expiresAt' = LookupExpiry(a, clock)
         /\ ends' = end
         /\ moves' = [moves EXCEPT ![s] = IF s = latest /\ end = ends THEN @ ELSE @ + 1]
    /\ moves'[s] <= MaxMoves
    /\ rendered' = FALSE
    /\ UNCHANGED <<clock, key, fired, told>>

\* No token, or one that the server rejects.
PublishSignedOut ==
    /\ about' = 0 /\ expiresAt' = 0
    /\ rendered' = FALSE
    /\ UNCHANGED <<clock, latest, key, fired, history>>

\* Slip: the set survives the session.
ArmedForever(k) == fired

\* Crossed, first part: a new key arms every threshold again.
Armed(k) == IF k = key THEN fired ELSE {}

\* time.Until(s.ExpiresAt).
Remaining == expiresAt - clock

\* Slip: the mark is the time left, not the threshold.
MarkRemaining(due) == IF due = {} THEN {} ELSE {Remaining}

\* Slip: a tick marks what it notifies only.
MarkUrgent(due) == IF due = {} THEN {} ELSE {Min(due)}

\* Crossed, second part: every threshold newly crossed is marked.
Mark(due) == due

\* One notification, for the most urgent of the thresholds newly crossed.
Render ==
    /\ ~rendered
    /\ rendered' = TRUE
    /\ IF expiresAt # 0 /\ Remaining > 0
       THEN LET due == {th \in Thresholds : Remaining <= th /\ th \notin Armed(expiresAt)}
            IN /\ key' = expiresAt
               /\ fired' = Armed(expiresAt) \union Mark(due)
               /\ told' = IF due = {} THEN told ELSE [told EXCEPT ![about][Min(due)] = @ + 1]
       ELSE UNCHANGED <<key, fired, told>>
    /\ UNCHANGED <<clock, about, expiresAt, latest, ends, moves>>

\* A second, or a night with the lid closed.
Pass ==
    /\ rendered
    /\ \E d \in 1..MaxSleep : clock' = clock + d
    /\ clock' <= MaxTime
    /\ rendered' = FALSE
    /\ UNCHANGED <<about, expiresAt, latest, key, fired, history>>

Next == Render \/ Pass \/ PublishSignedOut \/ \E s \in Sessions : Publish(s)

Spec == Init /\ [][Next]_vars

-----------------------------------------------------------------------------
TypeOK ==
    /\ clock \in Nat /\ expiresAt \in Int /\ key \in Int /\ ends \in Nat
    /\ about \in Sessions \union {0} /\ latest \in Sessions \union {0}
    /\ rendered \in BOOLEAN
    /\ fired \subseteq Thresholds
    /\ told \in [Sessions -> [Thresholds -> Nat]]
    /\ moves \in [Sessions -> Nat]

\* A threshold is notified again for a session only if the server has said
\* another expiry since: once, if it never does, through any number of polls,
\* sign-outs, sleeps and re-logins (tracker.go:24-39; the "at most once per
\* token" of tracker.go:9 takes the expiry for the token).
OncePerExpiry == \A s \in Sessions : \A th \in Thresholds : told[s][th] <= moves[s]

\* The thresholds that the session in the status is inside of.
Inside == {th \in Thresholds : Remaining <= th}

\* A notification never says less than how urgent it is: it names the shortest
\* threshold that its session is inside of, also after a night that crossed
\* them all and when the server moves the expiry back and forth between them
\* (tray.go:322, "the most urgent one is the only useful message").
NoLateWarning ==
    [][\A s \in Sessions : \A th \in Thresholds :
        told'[s][th] > told[s][th] => s = about /\ th \in Inside /\ th = Min(Inside)]_vars

\* Nobody is left unwarned: once a status has been rendered, the most urgent
\* threshold its session is inside of has been notified for that session,
\* whatever was rendered of other sessions before.
NoWarningMissed ==
    rendered /\ expiresAt # 0 /\ Remaining > 0 /\ Inside # {} => told[about][Min(Inside)] > 0

=============================================================================
