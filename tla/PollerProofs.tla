---------------------------- MODULE PollerProofs ----------------------------
(* Theorems about Poller, for every value of its constants.                *)
EXTENDS Poller, TLAPS

-----------------------------------------------------------------------------
(* Type correctness.                                                       *)

\* A status made from a session is a status record.
LEMMA StatusFromType ==
    ASSUME NEW t \in Tokens, NEW r \in BOOLEAN
    PROVE  StatusFrom(t, r) \in StatusRecord
BY DEF StatusFrom, Classify, StatusRecord, States

\* The zero status and the status with nothing to fall back on.
LEMMA BlankStatusType ==
    /\ SignedOut \in StatusRecord
    /\ [state |-> "degraded", about |-> NoToken] \in StatusRecord
BY DEF SignedOut, StatusRecord, States

\* From Snapshot on, the token in hand is a token.
TokenInHand ==
    pc \in {"stamp", "snapshot", "decide", "call", "reply"} => token \in Tokens

\* The inductive invariant of type correctness.
TypeInv == TypeOK /\ TokenInHand

\* The two flags; a lemma of its own because Zenon, not SMT, settles it.
Flags == forceNext \in BOOLEAN /\ forced \in BOOLEAN

\* Every step keeps the two flags Boolean.
LEMMA NextFlags == ASSUME Flags, [Next]_vars PROVE Flags'
<1> USE DEF Flags
<1>1. CASE UNCHANGED vars
    BY <1>1 DEF vars, poller, locals
<1>2. CASE Begin \/ ReadToken \/ StampToken \/ Snapshot \/ LookupSelf
    BY <1>2 DEF Begin, ReadToken, StampToken, Snapshot, LookupSelf, poller
<1>3. CASE ReadTokenFails \/ ServeFresh \/ ReplyOk \/ ReplyForbidden \/ ReplyError
    <2>1. ASSUME NEW s, Record(s) PROVE Flags'
        BY <2>1, Zenon DEF Record, Return
    <2> QED BY <1>3, <2>1, Zenon
            DEF ReadTokenFails, ServeFresh, ReplyOk, ReplyForbidden, ReplyError
<1>4. CASE Throttle
    BY <1>4, Zenon DEF Throttle, Return, poller
<1>5. CASE MarkAttempt
    BY <1>5, Zenon DEF MarkAttempt, locals
<1>6. CASE ForceRefresh
    BY <1>6, Zenon DEF ForceRefresh, locals
<1>7. CASE RemoveToken \/ DropCache \/ Tick
    BY <1>7, Zenon DEF RemoveToken, DropCache, Tick, poller, locals
<1>8. ASSUME NEW t \in Tokens, WriteToken(t) PROVE Flags'
    BY <1>8, Zenon DEF WriteToken, poller, locals
<1>9. ASSUME NEW s \in Skews, SetWallClock(s) PROVE Flags'
    BY <1>9, Zenon DEF SetWallClock, poller, locals
<1>10. ASSUME NEW a \in Addrs, Restart(a) PROVE Flags'
    BY <1>10, Zenon DEF Restart
<1> QED
    BY <1>1, <1>2, <1>3, <1>4, <1>5, <1>6, <1>7, <1>8, <1>9, <1>10
    DEF Next, Status, Others

\* A new process has its types right.
LEMMA InitTypeInv == Init => TypeInv
<1> SUFFICES ASSUME Init PROVE TypeInv
    OBVIOUS
<1>1. Flags
    BY Zenon DEF Init, Flags
<1>2. lastStatus \in StatusRecord
    BY BlankStatusType DEF Init
<1> QED BY <1>1, <1>2, TimeAssumption
        DEF Init, Flags, TypeInv, TypeOK, TokenInHand, TokenFile

\* Every step, of Status or of another actor, keeps the types.
LEMMA NextTypeInv == TypeInv /\ [Next]_vars => TypeInv'
<1> SUFFICES ASSUME TypeInv, [Next]_vars PROVE TypeInv'
    OBVIOUS
<1>0. forceNext' \in BOOLEAN /\ forced' \in BOOLEAN
    BY NextFlags, Zenon DEF TypeInv, TypeOK, Flags
<1> USE <1>0 DEF TypeInv, TypeOK, TokenInHand
<1>r. ASSUME NEW s \in StatusRecord, Record(s), UNCHANGED env,
             cache' \in CacheEntry \union {NoCache}
      PROVE  TypeInv'
    BY <1>r DEF Record, Return, env
<1>1. CASE UNCHANGED vars
    BY <1>1 DEF vars, env, poller, locals, history
<1>2. CASE Begin
    BY <1>2, TimeAssumption DEF Begin, env, poller, history
<1>3. CASE ReadToken
    BY <1>3 DEF ReadToken, env, poller, history, TokenFile
<1>4. CASE ReadTokenFails
    BY <1>4, <1>r, BlankStatusType DEF ReadTokenFails, Deleted
<1>5. CASE StampToken
    BY <1>5 DEF StampToken, env, poller, history, TokenFile
<1>6. CASE Snapshot
    BY <1>6 DEF Snapshot, env, poller, history
<1>7. CASE ServeFresh
    <2>1. cache \in CacheEntry /\ cache.about \in Tokens
        BY <1>7 DEF ServeFresh, HaveFresh, CacheEntry
    <2>2. StatusFrom(cache.about, TRUE) \in StatusRecord
        BY <2>1, StatusFromType
    <2> QED BY <1>7, <1>r, <2>2 DEF ServeFresh, env
<1>8. CASE Throttle
    BY <1>8 DEF Throttle, Return, env, poller
<1>9. CASE MarkAttempt
    BY <1>9 DEF MarkAttempt, env, locals, history
<1>10. CASE LookupSelf
    BY <1>10 DEF LookupSelf, env, poller
<1>11. CASE ReplyOk
    <2>1. StatusFrom(token, TRUE) \in StatusRecord
        BY <1>11, StatusFromType DEF ReplyOk
    <2>2. Entry \in CacheEntry
        BY <1>11 DEF ReplyOk, Entry, CacheEntry
    <2> QED BY <1>11, <1>r, <2>1, <2>2 DEF ReplyOk, Saved
<1>12. CASE ReplyForbidden
    BY <1>12, <1>r, BlankStatusType DEF ReplyForbidden, Deleted
<1>13. CASE ReplyError
    <2>1. Usable => StatusFrom(cache.about, FALSE) \in StatusRecord
        BY StatusFromType DEF Usable, CacheEntry
    <2> QED BY <1>13, <1>r, <2>1, BlankStatusType DEF ReplyError
<1>14. CASE ForceRefresh
    BY <1>14 DEF ForceRefresh, env, locals, history
<1>15. ASSUME NEW t \in Tokens, WriteToken(t) PROVE TypeInv'
    BY <1>15 DEF WriteToken, TokenFile, poller, locals, history
<1>16. CASE RemoveToken
    BY <1>16 DEF RemoveToken, TokenFile, poller, locals, history
<1>17. CASE DropCache
    BY <1>17 DEF DropCache, Deleted, env, poller, locals, history
<1>19. CASE Tick
    BY <1>19 DEF Tick, poller, locals, history
<1>20. ASSUME NEW s \in Skews, SetWallClock(s) PROVE TypeInv'
    BY <1>20 DEF SetWallClock, poller, locals, history
<1>21. ASSUME NEW a \in Addrs, Restart(a) PROVE TypeInv'
    BY <1>21, BlankStatusType DEF Restart, env
<1> QED
    BY <1>1, <1>2, <1>3, <1>4, <1>5, <1>6, <1>7, <1>8, <1>9, <1>10, <1>11, <1>12,
       <1>13, <1>14, <1>15, <1>16, <1>17, <1>19, <1>20, <1>21
    DEF Next, Status, Others

\* Every variable keeps its type, and a Status call past ReadToken has a token.
THEOREM TypeCorrect == Spec => []TypeOK
<1>1. Spec => []TypeInv
    BY InitTypeInv, NextTypeInv, PTL DEF Spec
<1>2. TypeInv => TypeOK
    BY DEF TypeInv
<1> QED BY <1>1, <1>2, PTL
-----------------------------------------------------------------------------
(* No status describes another server's session.                           *)

\* An entry's address is its session's server, and so is the address of a
\* server that has just accepted a token.
ServerInv ==
    /\ OtherServerNeverShown
    /\ cache # NoCache => Home[cache.about] = cache.addr
    /\ reply = "ok" => pc = "reply" /\ token \in Tokens /\ Home[token] = addr

\* A status made from a session names that session.
LEMMA StatusFromAbout ==
    ASSUME NEW t, NEW r PROVE StatusFrom(t, r).about = t
BY DEF StatusFrom

\* A new process shows no session.
LEMMA InitServerInv == Init => ServerInv
BY TokenAssumption DEF Init, ServerInv, OtherServerNeverShown, SignedOut

\* Every step keeps entries, answers and the status to their servers.
LEMMA NextServerInv == TypeInv /\ ServerInv /\ [Next]_vars => ServerInv'
<1> SUFFICES ASSUME TypeInv, ServerInv, [Next]_vars PROVE ServerInv'
    OBVIOUS
<1> USE DEF ServerInv, OtherServerNeverShown
<1>r. ASSUME NEW s, Record(s), s.about \in Tokens => Home[s.about] = addr,
             cache' = NoCache \/ cache' = cache \/ Home[cache'.about] = cache'.addr
      PROVE  ServerInv'
    BY <1>r DEF Record, Return
<1>b. /\ SignedOut.about \notin Tokens
      /\ [state |-> "degraded", about |-> NoToken].about \notin Tokens
    BY TokenAssumption DEF SignedOut
<1>1. CASE UNCHANGED vars
    BY <1>1 DEF vars, poller, locals
<1>2. CASE Begin
    BY <1>2 DEF Begin, poller
<1>3. CASE ReadToken
    BY <1>3 DEF ReadToken, poller
<1>4. CASE ReadTokenFails
    BY <1>4, <1>r, <1>b DEF ReadTokenFails, Deleted
<1>5. CASE StampToken
    BY <1>5 DEF StampToken, poller
<1>6. CASE Snapshot
    BY <1>6 DEF Snapshot, poller
<1>7. CASE ServeFresh
    <2>1. Home[cache.about] = addr
        BY <1>7 DEF ServeFresh, HaveFresh, Fresh
    <2> QED BY <1>7, <1>r, <2>1, StatusFromAbout DEF ServeFresh
<1>8. CASE Throttle
    BY <1>8 DEF Throttle, Return, poller
<1>9. CASE MarkAttempt
    BY <1>9 DEF MarkAttempt, locals
<1>10. CASE LookupSelf
    BY <1>10 DEF LookupSelf, Accepted, poller, TypeInv, TokenInHand
<1>11. CASE ReplyOk
    <2>1. Home[token] = addr
        BY <1>11 DEF ReplyOk
    <2>2. Entry.about = token /\ Entry.addr = addr
        BY DEF Entry
    <2> QED BY <1>11, <1>r, <2>1, <2>2, StatusFromAbout DEF ReplyOk, Saved
<1>12. CASE ReplyForbidden
    BY <1>12, <1>r, <1>b DEF ReplyForbidden, Deleted
<1>13. CASE ReplyError
    <2>1. Usable => Home[cache.about] = addr
        BY DEF Usable
    <2> QED BY <1>13, <1>r, <1>b, <2>1, StatusFromAbout DEF ReplyError
<1>14. CASE ForceRefresh
    BY <1>14 DEF ForceRefresh, locals
<1>15. ASSUME NEW t \in Tokens, WriteToken(t) PROVE ServerInv'
    BY <1>15 DEF WriteToken, poller, locals
<1>16. CASE RemoveToken \/ Tick
    BY <1>16 DEF RemoveToken, Tick, poller, locals
<1>17. CASE DropCache
    BY <1>17 DEF DropCache, Deleted, poller, locals
<1>18. ASSUME NEW s \in Skews, SetWallClock(s) PROVE ServerInv'
    BY <1>18 DEF SetWallClock, poller, locals
<1>19. ASSUME NEW a \in Addrs, Restart(a) PROVE ServerInv'
    BY <1>19, <1>b DEF Restart
<1> QED
    BY <1>1, <1>2, <1>3, <1>4, <1>5, <1>6, <1>7, <1>8, <1>9, <1>10, <1>11, <1>12,
       <1>13, <1>14, <1>15, <1>16, <1>17, <1>18, <1>19
    DEF Next, Status, Others

\* The status always describes a session of the configured server.
THEOREM ServerCorrect == Spec => []OtherServerNeverShown
<1>1. Spec => [](TypeInv /\ ServerInv)
    BY InitTypeInv, NextTypeInv, InitServerInv, NextServerInv, PTL DEF Spec
<1>2. ServerInv => OtherServerNeverShown
    BY DEF ServerInv
<1> QED BY <1>1, <1>2, PTL

-----------------------------------------------------------------------------
(* The audit-log budget.                                                   *)

\* A forced Status still owes the call when it decides; a call in flight has
\* been marked; and no Status begins before time one.
BudgetInv ==
    /\ forced => pc \in {"decide", "call", "reply"}
    /\ pc = "decide" /\ forced => forceNext
    /\ pc \in {"call", "reply"} => stamp = lastStamp /\ lastAttempt > 0
    /\ pc # "idle" => now > 0

\* A new process has no Status under way.
LEMMA InitBudgetInv == Init => BudgetInv
BY DEF Init, BudgetInv

\* Every step keeps a forced Status owing its call until it makes it.
LEMMA NextBudgetInv == TypeInv /\ BudgetInv /\ [Next]_vars => BudgetInv'
<1> SUFFICES ASSUME TypeInv, BudgetInv, [Next]_vars PROVE BudgetInv'
    OBVIOUS
<1> USE DEF BudgetInv
<1>1. CASE UNCHANGED vars
    BY <1>1 DEF vars, poller, locals
<1>2. CASE Begin
    BY <1>2 DEF Begin, poller, TypeInv, TypeOK
<1>3. CASE ReadToken \/ StampToken
    BY <1>3 DEF ReadToken, StampToken, poller
<1>4. CASE Snapshot
    BY <1>4 DEF Snapshot, poller
<1>5. CASE MarkAttempt
    BY <1>5 DEF MarkAttempt, locals
<1>6. CASE LookupSelf
    BY <1>6 DEF LookupSelf, poller
<1>7. ASSUME Return PROVE BudgetInv'
    BY <1>7 DEF Return
<1>8. CASE Throttle \/ ReadTokenFails \/ ServeFresh \/ ReplyOk \/ ReplyForbidden
           \/ ReplyError
    BY <1>7, <1>8 DEF Throttle, ReadTokenFails, ServeFresh, ReplyOk,
                      ReplyForbidden, ReplyError, Record
<1>9. CASE ForceRefresh
    BY <1>9 DEF ForceRefresh, locals
<1>10. CASE RemoveToken \/ DropCache \/ Tick
    BY <1>10 DEF RemoveToken, DropCache, Tick, poller, locals
<1>11. ASSUME NEW t \in Tokens, WriteToken(t) PROVE BudgetInv'
    BY <1>11 DEF WriteToken, poller, locals
<1>12. ASSUME NEW s \in Skews, SetWallClock(s) PROVE BudgetInv'
    BY <1>12 DEF SetWallClock, poller, locals
<1>13. ASSUME NEW a \in Addrs, Restart(a) PROVE BudgetInv'
    BY <1>13 DEF Restart
<1> QED
    BY <1>1, <1>2, <1>3, <1>4, <1>5, <1>6, <1>8, <1>9, <1>10, <1>11, <1>12, <1>13
    DEF Next, Status, Others

\* A step that is no call and no restart raises the credits by one at most.
LEMMA QuietStep ==
    ASSUME TypeInv, BudgetInv, [Next]_vars,
           ~MarkAttempt, \A a \in Addrs : ~Restart(a)
    PROVE  lastAttempt' = lastAttempt /\ Credits' <= Credits + 1
<1> USE DEF Credits, StampDebt, Pending
<1>1. CASE UNCHANGED vars
    BY <1>1 DEF vars, env, poller, locals
<1>2. CASE Begin \/ ReadToken \/ StampToken \/ Snapshot \/ LookupSelf
    BY <1>2 DEF Begin, ReadToken, StampToken, Snapshot, LookupSelf, env, poller
<1>3. ASSUME Return, pc \in {"read", "decide", "reply"}, UNCHANGED env,
             UNCHANGED <<lastAttempt, lastStamp, forceNext>>
      PROVE  lastAttempt' = lastAttempt /\ Credits' <= Credits + 1
    BY <1>3 DEF Return, env, BudgetInv
<1>4. CASE Throttle \/ ReadTokenFails \/ ServeFresh \/ ReplyOk \/ ReplyForbidden
           \/ ReplyError
    BY <1>3, <1>4 DEF Throttle, ReadTokenFails, ServeFresh, ReplyOk,
                      ReplyForbidden, ReplyError, Record, env, poller
<1>5. CASE ForceRefresh
    BY <1>5 DEF ForceRefresh, env, locals
<1>6. CASE RemoveToken \/ DropCache \/ Tick
    BY <1>6 DEF RemoveToken, DropCache, Tick, env, poller, locals
<1>7. ASSUME NEW t \in Tokens, WriteToken(t)
      PROVE  lastAttempt' = lastAttempt /\ Credits' <= Credits + 1
    BY <1>7 DEF WriteToken, poller, locals
<1>8. ASSUME NEW s \in Skews, SetWallClock(s)
      PROVE  lastAttempt' = lastAttempt /\ Credits' <= Credits + 1
    BY <1>8 DEF SetWallClock, poller, locals
<1> QED
    BY <1>1, <1>2, <1>4, <1>5, <1>6, <1>7, <1>8 DEF Next, Status, Others

\* A call is paid for by a credit or comes a window after the last attempt.
LEMMA CallStep ==
    ASSUME TypeInv, BudgetInv, MarkAttempt
    PROVE  /\ lastAttempt' > 0
           /\ \/ Credits' < Credits
              \/ lastAttempt' - lastAttempt >= Recheck /\ Credits' <= Credits
<1>1. lastAttempt' > 0
    BY DEF MarkAttempt, BudgetInv
<1>2. StampDebt' = Pending(file.stamp # stamp)
    BY <1>1 DEF MarkAttempt, StampDebt, Pending, env, locals, TypeInv, TypeOK
<1>3. Credits' = StampDebt'
    <2>1. ~forceNext'
        BY Zenon DEF MarkAttempt
    <2> QED BY <2>1, <1>2 DEF Credits, Pending
<1>4. Credits = Pending(forceNext) + Pending(lastAttempt = 0 \/ stamp # lastStamp)
                + Pending(file.stamp # stamp)
    BY DEF MarkAttempt, Credits, StampDebt, Pending
<1>5. forced => forceNext
    BY DEF MarkAttempt, BudgetInv
<1>6. lastAttempt' = now
    BY DEF MarkAttempt
<1> QED BY <1>1, <1>2, <1>3, <1>4, <1>5, <1>6 DEF MarkAttempt, CallServer, Pending

\* Every step is a step of AuditBudget, or a stutter of it.
LEMMA BudgetStep ==
    TypeInv /\ BudgetInv /\ [Next]_vars => [Budget!BudgetNext]_(Budget!budgetVars)
<1> SUFFICES ASSUME TypeInv, BudgetInv, [Next]_vars PROVE Budget!BudgetNext
    OBVIOUS
<1>c. Credits \in Nat /\ Credits' \in Nat
    BY DEF Credits, StampDebt, Pending
<1>1. CASE MarkAttempt
    BY <1>1, <1>c, CallStep DEF Budget!BudgetNext, Budget!Call
<1>2. ASSUME NEW a \in Addrs, Restart(a) PROVE Budget!BudgetNext
    <2>1. Credits' = 1 /\ lastAttempt' = 0
        BY <1>2 DEF Restart, Credits, StampDebt, Pending
    <2> QED BY <2>1 DEF Budget!BudgetNext, Budget!Boot
<1>3. CASE ~MarkAttempt /\ \A a \in Addrs : ~Restart(a)
    <2>1. lastAttempt' = lastAttempt /\ Credits' <= Credits + 1
        BY <1>3, QuietStep
    <2>2. CASE Credits' >= Credits
        BY <2>1, <2>2 DEF Budget!BudgetNext, Budget!Prompt
    <2>3. CASE ~(Credits' >= Credits)
        BY <2>1, <2>3, <1>c DEF Budget!BudgetNext, Budget!Waive
    <2> QED BY <2>2, <2>3
<1> QED BY <1>1, <1>2, <1>3

\* The poller implements the budget, whatever cache, disk, wall clock, server
\* and network do: requests are a window apart or asked for.
THEOREM BudgetCorrect == Spec => KeepsAuditBudget
<1>1. Init => Budget!BudgetInit
    BY DEF Init, Budget!BudgetInit, Credits, StampDebt, Pending
<1>2. Spec => [](TypeInv /\ BudgetInv)
    BY InitTypeInv, NextTypeInv, InitBudgetInv, NextBudgetInv, PTL DEF Spec
<1> QED BY <1>1, <1>2, BudgetStep, PTL DEF Spec, KeepsAuditBudget, Budget!BudgetSpec
-----------------------------------------------------------------------------
(* How stale a status can be, with a wall clock that is set.               *)

\* The clocks a Status call holds: its own reading of now, not before the last
\* attempt nor the last status, and not after the present.
ClockInv ==
    /\ lastAttempt <= clock /\ at <= clock
    /\ \A t \in Tokens : okAt[t] <= clock
    /\ pc # "idle" => /\ 0 < now /\ now <= clock /\ wall - now \in Skews
                      /\ lastAttempt <= now /\ at <= now
    /\ pc \in {"call", "reply"} => lastAttempt = now

\* What is cached, or about to be, was accepted when it says or later, the date
\* being that of one setting of the wall clock and read by another.
AcceptInv ==
    /\ cache # NoCache =>
         /\ 0 < okAt[cache.about]
         /\ \A s \in Skews : cache.checkedAt <= okAt[cache.about] + s + Drift
    /\ reply = "ok" => pc = "reply" /\ now <= okAt[token]

\* No attempt has been marked whose outcome is still open.
Settled == pc \notin {"call", "reply"}

\* The two windows: the attempt a status rests on lies less than a window
\* after the server's word for it and before its expiry, Drift apart, so what
\* the throttle replays for one more window is less than two, or one, out of
\* date.
StaleInv ==
    /\ Shown(Live) =>
         /\ lastStatus.about \in Tokens
         /\ okAt[lastStatus.about] > 0
         /\ at < okAt[lastStatus.about] + 2 * Recheck + Drift
         /\ Settled => lastAttempt < okAt[lastStatus.about] + Recheck + Drift
    /\ ~Shown({"signedOut"}) /\ lastStatus.about \in Tokens \ NonExpiring =>
         /\ at < ExpiresAt[lastStatus.about] + Recheck + Drift
         /\ Settled => lastAttempt < ExpiresAt[lastStatus.about] + Drift

\* A new process shows nothing that could be stale.
LEMMA InitStale == Init => ClockInv /\ AcceptInv /\ StaleInv
BY TokenAssumption, TimeAssumption
   DEF Init, ClockInv, AcceptInv, StaleInv, Shown, Live, SignedOut

\* However it is set, the wall clock is never further from the clock than that.
LEMMA NextClockInv ==
    ASSUME TypeInv, ClockInv, [Next]_vars PROVE ClockInv'
<1> USE DEF ClockInv
<1>1. CASE UNCHANGED vars
    BY <1>1 DEF vars, env, poller, locals, history
<1>2. CASE Begin
    <2>1. clock \in Nat /\ skew \in Skews /\ skew \in Int /\ now' = clock /\ wall' = clock + skew
        BY <1>2, TimeAssumption DEF Begin, TypeInv, TypeOK
    <2>2. wall' - now' = skew
        BY <2>1
    <2> QED BY <1>2, <2>1, <2>2 DEF Begin, env, poller, history, TypeInv, TypeOK
<1>3. CASE ReadToken \/ StampToken \/ Snapshot \/ LookupSelf
    BY <1>3 DEF ReadToken, StampToken, Snapshot, LookupSelf, env, poller, history,
                TypeInv, TypeOK
<1>4. CASE MarkAttempt
    BY <1>4 DEF MarkAttempt, env, locals, history, TypeInv, TypeOK
<1>5. ASSUME Return, pc # "idle", UNCHANGED env, UNCHANGED lastAttempt PROVE ClockInv'
    BY <1>5 DEF Return, env
<1>6. CASE Throttle \/ ReadTokenFails \/ ServeFresh \/ ReplyOk \/ ReplyForbidden
           \/ ReplyError
    BY <1>5, <1>6 DEF Throttle, ReadTokenFails, ServeFresh, ReplyOk,
                      ReplyForbidden, ReplyError, Record, env, poller
<1>7. CASE ForceRefresh
    BY <1>7 DEF ForceRefresh, env, locals, history
<1>8. CASE RemoveToken \/ DropCache
    BY <1>8 DEF RemoveToken, DropCache, env, poller, locals, history
<1>9. CASE Tick
    BY <1>9 DEF Tick, poller, locals, history, TypeInv, TypeOK
<1>10. ASSUME NEW t \in Tokens, WriteToken(t) PROVE ClockInv'
    BY <1>10 DEF WriteToken, poller, locals, history
<1>11. ASSUME NEW s \in Skews, SetWallClock(s) PROVE ClockInv'
    BY <1>11 DEF SetWallClock, poller, locals, history
<1>12. ASSUME NEW a \in Addrs, Restart(a) PROVE ClockInv'
    BY <1>12 DEF Restart, env, TypeInv, TypeOK
<1> QED
    BY <1>1, <1>2, <1>3, <1>4, <1>6, <1>7, <1>8, <1>9, <1>10, <1>11, <1>12
    DEF Next, Status, Others

\* The two readings of one moment, by any setting of the wall clock.
LEMMA WallIsNear ==
    ASSUME TypeInv, ClockInv, pc # "idle"
    PROVE  /\ now \in Nat /\ wall \in Int /\ now <= wall + Drift
           /\ \A s \in Skews : s \in Int /\ wall <= now + s + Drift
<1>1. now \in Nat /\ wall \in Int /\ wall - now \in Skews
    BY DEF TypeInv, TypeOK, ClockInv
<1>2. 0 - (wall - now) <= Drift
    BY <1>1, TimeAssumption
<1>3. ASSUME NEW s \in Skews PROVE s \in Int /\ (wall - now) - s <= Drift
    BY <1>1, <1>3, TimeAssumption
<1> QED BY <1>1, <1>2, <1>3, TimeAssumption

\* No entry claims more than the server said.
LEMMA NextAcceptInv ==
    ASSUME TypeInv, ClockInv, AcceptInv, [Next]_vars PROVE AcceptInv'
<1> USE DEF AcceptInv
<1>1. CASE UNCHANGED vars
    BY <1>1 DEF vars, locals, history
<1>2. CASE Begin \/ ReadToken \/ StampToken \/ Snapshot
    BY <1>2 DEF Begin, ReadToken, StampToken, Snapshot, history
<1>3. CASE MarkAttempt
    BY <1>3 DEF MarkAttempt, locals, history
<1>4. CASE LookupSelf
    <2>1. \A t \in Tokens : okAt'[t] >= okAt[t]
        BY <1>4 DEF LookupSelf, TypeInv, TypeOK, ClockInv
    <2>2. cache # NoCache => /\ 0 < okAt'[cache.about]
                             /\ \A s \in Skews : cache.checkedAt <= okAt'[cache.about] + s + Drift
        <3>1. cache # NoCache => cache.about \in Tokens /\ cache.checkedAt \in Int
            BY DEF TypeInv, TypeOK, CacheEntry
        <3>2. okAt \in [Tokens -> Nat] /\ okAt' \in [Tokens -> Nat]
            BY <1>4, NextTypeInv DEF LookupSelf, TypeInv, TypeOK
        <3> SUFFICES ASSUME cache # NoCache, NEW s \in Skews
                     PROVE  /\ 0 < okAt'[cache.about]
                            /\ cache.checkedAt <= okAt'[cache.about] + s + Drift
            BY TimeAssumption
        <3>3. 0 < okAt[cache.about] /\ cache.checkedAt <= okAt[cache.about] + s + Drift
            OBVIOUS
        <3>4. /\ okAt[cache.about] \in Nat /\ okAt'[cache.about] \in Nat /\ s \in Int /\ Drift \in Nat
              /\ okAt'[cache.about] >= okAt[cache.about]
            BY <2>1, <3>1, <3>2, TimeAssumption
        <3> QED BY <3>1, <3>3, <3>4
    <2>3. reply' = "ok" => pc' = "reply" /\ now' <= okAt'[token']
        BY <1>4 DEF LookupSelf, TypeInv, TypeOK, TokenInHand, ClockInv
    <2> QED BY <1>4, <2>2, <2>3 DEF LookupSelf
<1>5. ASSUME Return, cache' = cache \/ cache' = NoCache PROVE AcceptInv'
    BY <1>5 DEF Return
<1>6. CASE Throttle \/ ReadTokenFails \/ ServeFresh \/ ReplyForbidden \/ ReplyError
    BY <1>5, <1>6 DEF Throttle, ReadTokenFails, ServeFresh,
                      ReplyForbidden, ReplyError, Record, Deleted
<1>7. CASE ReplyOk
    <2>1. 0 < now /\ now <= okAt[token] /\ okAt[token] \in Nat
        BY <1>7 DEF ReplyOk, ClockInv, TypeInv, TypeOK, TokenInHand
    <2>2. /\ 0 < okAt[Entry.about]
          /\ \A s \in Skews : Entry.checkedAt <= okAt[Entry.about] + s + Drift
        BY <1>7, <2>1, WallIsNear, TimeAssumption DEF ReplyOk, Entry
    <2> QED BY <1>7, <2>2 DEF ReplyOk, Saved, Record, Return
<1>8. CASE ForceRefresh
    BY <1>8 DEF ForceRefresh, locals, history
<1>9. CASE RemoveToken \/ DropCache \/ Tick
    BY <1>9 DEF RemoveToken, DropCache, Deleted, Tick, locals, history
<1>10. ASSUME NEW t \in Tokens, WriteToken(t) PROVE AcceptInv'
    BY <1>10 DEF WriteToken, locals, history
<1>11. ASSUME NEW s \in Skews, SetWallClock(s) PROVE AcceptInv'
    BY <1>11 DEF SetWallClock, locals, history
<1>12. ASSUME NEW a \in Addrs, Restart(a) PROVE AcceptInv'
    BY <1>12 DEF Restart
<1> QED
    BY <1>1, <1>2, <1>3, <1>4, <1>6, <1>7, <1>8, <1>9, <1>10, <1>11, <1>12
    DEF Next, Status, Others

\* A status made from a session whose word is less than a window old.
LEMMA FreshStatus ==
    ASSUME TypeInv, ClockInv, NEW t \in Tokens, NEW r \in BOOLEAN,
           r => okAt[t] > 0 /\ now < okAt[t] + Recheck + Drift,
           Record(StatusFrom(t, r)), pc # "idle"
    PROVE  StaleInv'
<1> DEFINE s == StatusFrom(t, r)
<1>1. s.about = t
    BY DEF StatusFrom
<1>2. s.state \in Live => r
    BY DEF StatusFrom, Classify, Live
<1>3. s.state # "signedOut" /\ t \notin NonExpiring => now < ExpiresAt[t] + Drift
    BY WallIsNear, TokenAssumption, TimeAssumption DEF StatusFrom, Classify
<1>4. /\ lastStatus' = s /\ at' = now /\ lastAttempt' = lastAttempt
      /\ okAt' = okAt
    BY DEF Record, Return
<1>5. lastAttempt <= now /\ now \in Nat /\ lastAttempt \in Nat /\ okAt[t] \in Nat
    BY DEF ClockInv, TypeInv, TypeOK
<1>6. Shown(Live)' => /\ okAt'[t] > 0
                      /\ at' < okAt'[t] + 2 * Recheck + Drift
                      /\ lastAttempt' < okAt'[t] + Recheck + Drift
    BY <1>2, <1>4, <1>5, TimeAssumption DEF Shown
<1>7. ~Shown({"signedOut"})' /\ t \notin NonExpiring =>
         at' < ExpiresAt[t] + Recheck + Drift /\ lastAttempt' < ExpiresAt[t] + Drift
    BY <1>3, <1>4, <1>5, TimeAssumption, TokenAssumption DEF Shown
<1> QED BY <1>1, <1>4, <1>6, <1>7 DEF StaleInv

\* A status that names no session.
LEMMA BlankStatus ==
    ASSUME NEW s, Record(s), s.about = NoToken, s.state \notin Live
    PROVE  StaleInv'
BY TokenAssumption DEF Record, Return, StaleInv, Shown

\* Every step keeps a status within its windows.
LEMMA NextStaleInv ==
    ASSUME TypeInv, BudgetInv, ClockInv, AcceptInv, StaleInv, [Next]_vars
    PROVE  StaleInv'
<1>b. /\ SignedOut.about = NoToken /\ SignedOut.state \notin Live
      /\ [state |-> "degraded", about |-> NoToken].about = NoToken
      /\ [state |-> "degraded", about |-> NoToken].state \notin Live
    BY DEF SignedOut, Live
<1>u. ASSUME UNCHANGED <<lastStatus, lastAttempt, at, okAt>>,
             Settled' => Settled
      PROVE  StaleInv'
    BY <1>u DEF StaleInv, Shown
<1>1. CASE UNCHANGED vars
    BY <1>1, <1>u DEF vars, poller, history, Settled
<1>2. CASE Begin \/ ReadToken \/ StampToken \/ Snapshot
    BY <1>2, <1>u DEF Begin, ReadToken, StampToken, Snapshot, poller, history, Settled
<1>3. CASE MarkAttempt
    BY <1>3 DEF MarkAttempt, history, StaleInv, Shown, Settled
<1>4. CASE LookupSelf
    <2>1. \A t \in Tokens : okAt'[t] >= okAt[t]
        BY <1>4 DEF LookupSelf, TypeInv, TypeOK, ClockInv
    <2>2. okAt' \in [Tokens -> Nat] /\ okAt \in [Tokens -> Nat]
        BY <1>4, NextTypeInv DEF TypeInv, TypeOK
    <2>3. /\ UNCHANGED <<lastStatus, lastAttempt, at>> /\ ~Settled'
          /\ at \in Nat
        BY <1>4 DEF LookupSelf, poller, Settled, TypeInv, TypeOK
    <2> QED BY <2>1, <2>2, <2>3, TimeAssumption DEF StaleInv, Shown
<1>5. CASE ReadTokenFails \/ ReplyForbidden
    BY <1>5, <1>b, BlankStatus DEF ReadTokenFails, ReplyForbidden
<1>6. CASE ServeFresh
    <2>1. cache.about \in Tokens /\ cache.checkedAt \in Int
        BY <1>6 DEF ServeFresh, HaveFresh, TypeInv, TypeOK, CacheEntry
    <2>2. okAt[cache.about] \in Nat /\ now \in Nat /\ wall \in Int /\ wall - now \in Skews
        BY <1>6, <2>1 DEF ServeFresh, TypeInv, TypeOK, ClockInv
    <2>a. /\ 0 < okAt[cache.about] /\ wall - cache.checkedAt < Recheck
          /\ cache.checkedAt <= okAt[cache.about] + (wall - now) + Drift
        BY <1>6, <2>2 DEF ServeFresh, HaveFresh, Fresh, AcceptInv
    <2>3. 0 < okAt[cache.about] /\ now < okAt[cache.about] + Recheck + Drift
        BY <2>1, <2>2, <2>a, TimeAssumption
    <2>4. Record(StatusFrom(cache.about, TRUE)) /\ pc # "idle"
        BY <1>6 DEF ServeFresh
    <2> QED BY <2>1, <2>3, <2>4, FreshStatus
<1>7. CASE Throttle
    <2>1. at' = now /\ UNCHANGED <<lastStatus, lastAttempt, okAt>> /\ Settled
        BY <1>7 DEF Throttle, Return, poller, Settled
    <2>2. now < lastAttempt + Recheck /\ now \in Nat /\ lastAttempt \in Nat
        BY <1>7, TimeAssumption DEF Throttle, CallServer, TypeInv, TypeOK
    <2>3. lastStatus.about \in Tokens => okAt[lastStatus.about] \in Nat
        BY DEF TypeInv, TypeOK
    <2>4. lastStatus.about \in Tokens => ExpiresAt[lastStatus.about] \in Int
        BY TokenAssumption
    <2> QED BY <2>1, <2>2, <2>3, <2>4, TimeAssumption DEF StaleInv, Shown
<1>8. CASE ReplyOk
    <2>1. token \in Tokens /\ pc # "idle" /\ Record(StatusFrom(token, TRUE))
        BY <1>8 DEF ReplyOk, TypeInv, TokenInHand
    <2>2. now <= okAt[token] /\ 0 < now /\ now \in Nat /\ okAt[token] \in Nat
        BY <1>8, <2>1 DEF ReplyOk, AcceptInv, ClockInv, TypeInv, TypeOK
    <2>3. okAt[token] > 0 /\ now < okAt[token] + Recheck + Drift
        BY <2>2, TimeAssumption
    <2> QED BY <2>1, <2>3, FreshStatus
<1>9. CASE ReplyError
    <2>1. CASE Usable
        <3>1. cache.about \in Tokens
            BY <2>1 DEF Usable, TypeInv, TypeOK, CacheEntry
        <3>2. Record(StatusFrom(cache.about, FALSE)) /\ pc # "idle"
            BY <1>9, <2>1 DEF ReplyError
        <3> QED BY <3>1, <3>2, FreshStatus
    <2>2. CASE ~Usable
        BY <1>9, <2>2, <1>b, BlankStatus DEF ReplyError
    <2> QED BY <2>1, <2>2
<1>10. CASE ForceRefresh
    BY <1>10, <1>u DEF ForceRefresh, history, Settled
<1>11. CASE RemoveToken \/ DropCache \/ Tick
    BY <1>11, <1>u DEF RemoveToken, DropCache, Tick, poller, history, Settled
<1>12. ASSUME NEW t \in Tokens, WriteToken(t) PROVE StaleInv'
    BY <1>12, <1>u DEF WriteToken, poller, history, Settled
<1>13. ASSUME NEW s \in Skews, SetWallClock(s) PROVE StaleInv'
    BY <1>13, <1>u DEF SetWallClock, poller, history, Settled
<1>14. ASSUME NEW a \in Addrs, Restart(a) PROVE StaleInv'
    BY <1>14, <1>b, TokenAssumption DEF Restart, StaleInv, Shown
<1> QED
    BY <1>1, <1>2, <1>3, <1>4, <1>5, <1>6, <1>7, <1>8, <1>9, <1>10, <1>11, <1>12,
       <1>13, <1>14
    DEF Next, Status, Others

\* The four invariants together are invariants of the specification.
LEMMA StaleInductive ==
    Spec => [](TypeInv /\ BudgetInv /\ ClockInv /\ AcceptInv /\ StaleInv)
<1> DEFINE I == TypeInv /\ BudgetInv /\ ClockInv /\ AcceptInv /\ StaleInv
<1>1. Init => I
    BY InitTypeInv, InitBudgetInv, InitStale
<1>2. I /\ [Next]_vars => I'
    BY NextTypeInv, NextBudgetInv, NextClockInv, NextAcceptInv, NextStaleInv
<1> QED BY <1>1, <1>2, PTL DEF Spec

\* A session shown as live was accepted by the server less than two recheck
\* windows, and what the wall clock may be set back by, before.
THEOREM ConfirmedCorrect == Spec => []ConfirmedWithin2R
<1>1. StaleInv => ConfirmedWithin2R
    BY DEF StaleInv, ConfirmedWithin2R
<1> QED BY <1>1, StaleInductive, PTL

\* An expired session is reported as signed out one recheck window, and what
\* the wall clock may be behind, later at the latest.
THEOREM ExpiredCorrect == Spec => []ExpiredWithinWindow
<1>1. StaleInv => ExpiredWithinWindow
    BY DEF StaleInv, ExpiredWithinWindow
<1> QED BY <1>1, StaleInductive, PTL

-----------------------------------------------------------------------------
(* A login is noticed.                                                     *)

\* What is not about the token in the file was asked before the file changed;
\* what the throttle may replay rests on an attempt less than a window later.
OwnInv ==
    /\ pc \in {"stamp", "snapshot", "decide", "call", "reply"} /\ token # file.tok =>
         now <= fileAt
    /\ cache # NoCache /\ cache.about # file.tok =>
         \A s \in Skews : cache.checkedAt <= fileAt + s + Drift
    /\ Shown(Live) /\ lastStatus.about # file.tok =>
         /\ at < fileAt + 2 * Recheck + Drift
         /\ Settled => lastAttempt < fileAt + Recheck + Drift

\* A new process shows no session and holds no token.
LEMMA InitOwn == Init => OwnInv
BY DEF Init, OwnInv, Shown, Live, SignedOut

\* Whatever the file was changed to, it was changed last of all.
LEMMA FileChange ==
    ASSUME TypeInv, ClockInv, AcceptInv,
           fileAt' = clock, UNCHANGED <<clock, cache, poller, pc, locals, history>>
    PROVE  OwnInv'
<1>1. /\ clock \in Nat /\ at \in Nat /\ lastAttempt \in Nat /\ now \in Nat
      /\ pc # "idle" => now <= clock
      /\ at <= clock /\ lastAttempt <= clock
    BY DEF TypeInv, TypeOK, ClockInv
<1>2. cache # NoCache => \A s \in Skews : cache.checkedAt <= clock + s + Drift
    <2>1. cache # NoCache => /\ cache.about \in Tokens /\ cache.checkedAt \in Int
                             /\ \A s \in Skews : cache.checkedAt <= okAt[cache.about] + s + Drift
        BY DEF TypeInv, TypeOK, CacheEntry, AcceptInv
    <2>2. \A t \in Tokens : okAt[t] <= clock /\ okAt[t] \in Nat
        BY DEF ClockInv, TypeInv, TypeOK
    <2> SUFFICES ASSUME cache # NoCache, NEW s \in Skews PROVE cache.checkedAt <= clock + s + Drift
        OBVIOUS
    <2>3. /\ cache.checkedAt <= okAt[cache.about] + s + Drift /\ okAt[cache.about] <= clock
          /\ okAt[cache.about] \in Nat /\ cache.checkedAt \in Int /\ s \in Int /\ Drift \in Nat
        BY <2>1, <2>2, TimeAssumption
    <2> QED BY <1>1, <2>3
<1> QED
    BY <1>1, <1>2, TimeAssumption DEF OwnInv, poller, locals, history

\* A session that is shown now, on a word that was given before the change.
LEMMA OwnStatus ==
    ASSUME TypeInv, ClockInv, OwnInv, NEW s, Record(s), pc # "idle", UNCHANGED <<file, fileAt>>,
           cache' = cache \/ cache' = NoCache \/ (cache' = Entry /\ pc = "reply"),
           s.state \in Live /\ s.about # file.tok => now < fileAt + Recheck + Drift
    PROVE  OwnInv'
<1>1. /\ lastStatus' = s /\ at' = now /\ lastAttempt' = lastAttempt /\ pc' = "idle"
    BY DEF Record, Return
<1>2. lastAttempt <= now /\ now \in Nat /\ lastAttempt \in Nat /\ fileAt \in Nat
    BY DEF ClockInv, TypeInv, TypeOK
<1>3. Shown(Live)' /\ s.about # file.tok =>
         at' < fileAt + 2 * Recheck + Drift /\ lastAttempt' < fileAt + Recheck + Drift
    BY <1>1, <1>2, TimeAssumption DEF Shown
<1>4. cache' # NoCache /\ cache'.about # file.tok =>
         \A u \in Skews : cache'.checkedAt <= fileAt + u + Drift
    <2>1. CASE cache' = Entry /\ pc = "reply"
        <3>1. token # file.tok => now <= fileAt
            BY <2>1 DEF OwnInv
        <3>2. Entry.about = token /\ Entry.checkedAt = wall
            BY DEF Entry
        <3> QED BY <2>1, <3>1, <3>2, <1>2, WallIsNear, TimeAssumption
    <2>2. CASE cache' = cache \/ cache' = NoCache
        BY <2>2 DEF OwnInv
    <2> QED BY <2>1, <2>2
<1> QED BY <1>1, <1>3, <1>4 DEF OwnInv

\* Every step keeps what is shown within two windows of the file.
LEMMA NextOwnInv ==
    ASSUME TypeInv, ClockInv, AcceptInv, OwnInv, [Next]_vars
    PROVE  OwnInv'
<1>b. /\ SignedOut.state \notin Live
      /\ [state |-> "degraded", about |-> NoToken].state \notin Live
    BY DEF SignedOut, Live
<1>u. ASSUME UNCHANGED <<file, fileAt, lastStatus, lastAttempt, at, now, token>>,
             cache' \in {cache, NoCache}, Settled' => Settled,
             pc' \in {"stamp", "snapshot", "decide", "call", "reply"} =>
                 pc \in {"stamp", "snapshot", "decide", "call", "reply"}
      PROVE  OwnInv'
    BY <1>u DEF OwnInv, Shown
<1>1. CASE UNCHANGED vars
    BY <1>1, <1>u DEF vars, env, poller, locals, history, Settled
<1>2. CASE Begin
    BY <1>2 DEF Begin, env, poller, history, OwnInv, Shown, Settled
<1>3. CASE ReadToken
    BY <1>3 DEF ReadToken, env, poller, history, OwnInv, Shown, Settled
<1>4. CASE StampToken \/ Snapshot \/ LookupSelf
    BY <1>4, <1>u DEF StampToken, Snapshot, LookupSelf, env, poller, history, Settled
<1>m. CASE MarkAttempt
    BY <1>m DEF MarkAttempt, env, locals, history, OwnInv, Shown, Settled
<1>5. CASE ReadTokenFails \/ ReplyForbidden
    <2>1. /\ Record(SignedOut) /\ pc # "idle" /\ UNCHANGED <<file, fileAt>>
          /\ cache' = cache \/ cache' = NoCache
        BY <1>5 DEF ReadTokenFails, ReplyForbidden, Deleted, env
    <2> QED BY <2>1, <1>b, OwnStatus
<1>6. CASE ServeFresh
    <2>1. /\ cache.checkedAt \in Int /\ wall - now \in Skews /\ wall \in Int
          /\ now \in Nat /\ fileAt \in Nat
        BY <1>6 DEF ServeFresh, HaveFresh, TypeInv, TypeOK, CacheEntry, ClockInv
    <2>a. /\ wall - cache.checkedAt < Recheck
          /\ cache.about # file.tok => cache.checkedAt <= fileAt + (wall - now) + Drift
        BY <1>6, <2>1 DEF ServeFresh, HaveFresh, Fresh, OwnInv
    <2>2. cache.about # file.tok => now < fileAt + Recheck + Drift
        BY <2>1, <2>a, TimeAssumption
    <2>3. /\ Record(StatusFrom(cache.about, TRUE)) /\ pc # "idle"
          /\ UNCHANGED <<file, fileAt, cache>>
        BY <1>6 DEF ServeFresh, env
    <2>4. StatusFrom(cache.about, TRUE).about = cache.about
        BY StatusFromAbout
    <2> QED BY <2>2, <2>3, <2>4, OwnStatus
<1>7. CASE Throttle
    <2>1. /\ at' = now /\ UNCHANGED <<file, fileAt, cache, lastStatus, lastAttempt>>
          /\ Settled /\ pc' = "idle"
        BY <1>7 DEF Throttle, Return, env, poller, Settled
    <2>2. /\ now < lastAttempt + Recheck /\ now \in Nat /\ lastAttempt \in Nat
          /\ fileAt \in Nat
        BY <1>7, TimeAssumption DEF Throttle, CallServer, TypeInv, TypeOK
    <2> QED BY <2>1, <2>2, TimeAssumption DEF OwnInv, Shown
<1>8. CASE ReplyOk
    <2>1. token # file.tok => now < fileAt + Recheck + Drift
        BY <1>8, TimeAssumption DEF ReplyOk, OwnInv, TypeInv, TypeOK
    <2> QED BY <1>8, <2>1, StatusFromAbout, OwnStatus DEF ReplyOk, Saved, env
<1>9. CASE ReplyError
    <2>1. Usable => StatusFrom(cache.about, FALSE).state \notin Live
        BY DEF StatusFrom, Classify, Live
    <2> QED BY <1>9, <2>1, <1>b, OwnStatus DEF ReplyError, env
<1>10. CASE ForceRefresh \/ DropCache \/ Tick
    BY <1>10, <1>u DEF ForceRefresh, DropCache, Deleted, Tick, env, poller, locals,
                       history, Settled
<1>11. CASE RemoveToken
    BY <1>11, FileChange DEF RemoveToken
<1>12. ASSUME NEW t \in Tokens, WriteToken(t) PROVE OwnInv'
    BY <1>12, FileChange DEF WriteToken
<1>13. ASSUME NEW s \in Skews, SetWallClock(s) PROVE OwnInv'
    BY <1>13, <1>u DEF SetWallClock, poller, locals, history, Settled
<1>14. ASSUME NEW a \in Addrs, Restart(a) PROVE OwnInv'
    BY <1>14, <1>b DEF Restart, env, OwnInv, Shown
<1> QED
    BY <1>1, <1>2, <1>3, <1>4, <1>m, <1>5, <1>6, <1>7, <1>8, <1>9, <1>10, <1>11,
       <1>12, <1>13, <1>14
    DEF Next, Status, Others

\* A login is on the screen two recheck windows later, and what the wall clock
\* may be set back by, be the stamp of the new file what it may.
THEOREM OwnSessionCorrect == Spec => []ShowsOwnSession
<1>1. Init => OwnInv
    BY InitOwn
<1>2. TypeInv /\ ClockInv /\ AcceptInv /\ OwnInv /\ [Next]_vars => OwnInv'
    BY NextOwnInv
<1>3. OwnInv => ShowsOwnSession
    BY DEF OwnInv, ShowsOwnSession
<1> QED BY <1>1, <1>2, <1>3, StaleInductive, PTL DEF Spec

-----------------------------------------------------------------------------
(* A rejected session does not come back.                                  *)

\* Behind a reported "signed out" there is no cache entry left, or one whose
\* session was over when it was reported, by the wall clock of then.
RejectInv ==
    /\ Settled /\ lastAttempt > 0 => at > 0
    /\ reply = "ok" => token \in NonExpiring \/ now < ExpiresAt[token]
    /\ Shown({"signedOut"}) /\ at > 0 /\ cache # NoCache =>
         cache.about \in Tokens /\ Reopened(cache.about)

\* A new process has reported nothing.
LEMMA InitReject == Init => RejectInv
BY DEF Init, RejectInv

\* Every step leaves nothing behind a rejection.
LEMMA NextRejectInv ==
    ASSUME \A s \in Skews : s <= 0, ~DeleteMayFail,
           TypeInv, ServerInv, ClockInv, RejectInv, [Next]_vars
    PROVE  RejectInv'
<1>t. /\ now \in Nat /\ at \in Nat /\ lastAttempt \in Nat /\ clock \in Nat
      /\ wall \in Int
      /\ pc # "idle" => /\ 0 < now /\ at <= now /\ now <= clock
                        /\ wall - now \in Skews /\ wall <= now
    <2>1. /\ now \in Nat /\ at \in Nat /\ lastAttempt \in Nat /\ clock \in Nat /\ wall \in Int
          /\ pc # "idle" => 0 < now /\ at <= now /\ now <= clock /\ wall - now \in Skews
        BY DEF TypeInv, TypeOK, ClockInv
    <2>2. wall - now \in Skews => wall - now <= 0
        OBVIOUS
    <2> QED BY <2>1, <2>2
<1>e. \A t \in Tokens : ExpiresAt[t] \in Int
    BY TokenAssumption
<1>o. ASSUME at <= at' , at' \in Nat, NEW t \in Tokens, Reopened(t) PROVE Reopened(t)'
    BY <1>e, <1>o, <1>t, TimeAssumption DEF Reopened
<1>d. Deleted = {NoCache}
    BY DEF Deleted
<1>u. ASSUME UNCHANGED <<lastStatus, lastAttempt, at>>, cache' = cache \/ cache' = NoCache,
             reply' = "ok" => reply = "ok" /\ token' = token /\ now' = now,
             Settled' => Settled
      PROVE  RejectInv'
    BY <1>u DEF RejectInv, Shown, Reopened
<1>g. ASSUME NEW s, Record(s), pc # "idle", cache' = NoCache PROVE RejectInv'
    BY <1>g, <1>t DEF Record, Return, RejectInv
<1>s. ASSUME NEW t, NEW r, t \in NonExpiring \/ wall < ExpiresAt[t],
             t \in Tokens, StatusFrom(t, r).state = "signedOut", pc # "idle"
      PROVE  FALSE
    BY <1>s, <1>t, TokenAssumption DEF StatusFrom, Classify
<1>1. CASE UNCHANGED vars
    BY <1>1, <1>u DEF vars, poller, locals, history, Settled
<1>2. CASE Begin \/ ReadToken \/ StampToken \/ Snapshot
    <2>1. reply # "ok" \/ (token' = token /\ now' = now)
        BY <1>2 DEF Begin, ReadToken, StampToken, Snapshot, ServerInv
    <2> QED BY <1>2, <1>u, <2>1 DEF Begin, ReadToken, StampToken, Snapshot, poller, history, Settled
<1>3. CASE MarkAttempt
    BY <1>3 DEF MarkAttempt, locals, history, RejectInv, Shown, Settled, Reopened
<1>4. CASE LookupSelf
    <2>1. reply' = "ok" => token \in NonExpiring \/ now < ExpiresAt[token]
        <3>1. pc # "idle" /\ token \in Tokens
            BY <1>4 DEF LookupSelf, TypeInv, TokenInHand
        <3> QED BY <1>4, <1>t, <3>1, TokenAssumption DEF LookupSelf, Accepted
    <2> QED BY <1>4, <2>1 DEF LookupSelf, poller, RejectInv, Shown, Settled, Reopened
<1>5. CASE ReadTokenFails \/ ReplyForbidden
    BY <1>5, <1>d, <1>g DEF ReadTokenFails, ReplyForbidden
<1>6. CASE ServeFresh
    <2>1. /\ cache # NoCache /\ cache.about \in Tokens
          /\ cache.about \in NonExpiring \/ wall < ExpiresAt[cache.about]
        BY <1>6, <1>t, TokenAssumption
           DEF ServeFresh, HaveFresh, Fresh, TypeInv, TypeOK, CacheEntry
    <2>2. StatusFrom(cache.about, TRUE).state # "signedOut"
        BY <1>6, <1>s, <2>1 DEF ServeFresh
    <2> QED BY <1>6, <1>t, <2>2 DEF ServeFresh, Record, Return, RejectInv, Shown
<1>7. CASE Throttle
    <2>1. /\ at' = now /\ UNCHANGED <<cache, lastStatus, lastAttempt>> /\ Settled
          /\ reply' = "none" /\ at <= now /\ 0 < now /\ lastAttempt > 0
        BY <1>7, <1>t DEF Throttle, Return, poller, Settled, CallServer
    <2> QED BY <1>t, <1>o, <2>1 DEF RejectInv, Shown
<1>8. CASE ReplyOk
    <2>1. token \in Tokens /\ (token \in NonExpiring \/ wall < ExpiresAt[token])
        <3>1. token \in Tokens /\ (token \in NonExpiring \/ now < ExpiresAt[token]) /\ pc # "idle"
            BY <1>8 DEF ReplyOk, TypeInv, TokenInHand, RejectInv
        <3> QED BY <1>e, <1>t, <3>1
    <2>2. StatusFrom(token, TRUE).state # "signedOut"
        BY <1>8, <1>s, <2>1 DEF ReplyOk
    <2> QED BY <1>8, <1>t, <2>2 DEF ReplyOk, Record, Return, RejectInv, Shown
<1>9. CASE ReplyError
    <2>1. CASE Usable
        <3>1. cache.about \in Tokens
            BY <2>1 DEF Usable, TypeInv, TypeOK, CacheEntry
        <3>2. StatusFrom(cache.about, FALSE).state = "signedOut" =>
                  cache.about \notin NonExpiring /\ ExpiresAt[cache.about] <= wall
            BY <1>9, <1>e, <1>t, <3>1 DEF ReplyError, StatusFrom, Classify
        <3>3. at' = now /\ wall = now + (wall - now) /\ wall - now \in Skews
            BY <1>9, <1>t, <2>1 DEF ReplyError, Record, Return
        <3>4. StatusFrom(cache.about, FALSE).state = "signedOut" => Reopened(cache.about)'
            BY <1>9, <3>2, <3>3 DEF Reopened, ReplyError
        <3> QED BY <1>9, <1>t, <2>1, <3>1, <3>3, <3>4
                DEF ReplyError, Record, Return, RejectInv, Shown
    <2>2. CASE ~Usable
        BY <1>9, <1>t, <2>2 DEF ReplyError, Record, Return, RejectInv, Shown
    <2> QED BY <2>1, <2>2
<1>10. CASE ForceRefresh \/ RemoveToken \/ DropCache \/ Tick
    BY <1>10, <1>u, <1>d DEF ForceRefresh, RemoveToken, DropCache, Tick, poller, locals,
                             history, Settled
<1>11. ASSUME NEW t \in Tokens, WriteToken(t) PROVE RejectInv'
    BY <1>11, <1>u DEF WriteToken, poller, locals, history, Settled
<1>12. ASSUME NEW s \in Skews, SetWallClock(s) PROVE RejectInv'
    BY <1>12, <1>u DEF SetWallClock, poller, locals, history, Settled
<1>13. ASSUME NEW a \in Addrs, Restart(a) PROVE RejectInv'
    BY <1>13 DEF Restart, RejectInv
<1> QED
    BY <1>1, <1>2, <1>3, <1>4, <1>5, <1>6, <1>7, <1>8, <1>9, <1>10, <1>11, <1>12, <1>13
    DEF Next, Status, Others

\* No step takes a status from signed out to live but on the server's word.
LEMMA RejectStep ==
    ASSUME TypeInv, ClockInv, RejectInv, [Next]_vars,
           Shown({"signedOut"}), at > 0, lastStatus'.state \in Live
    PROVE  reply = "ok" \/ Reopened(lastStatus'.about)
<1>1. lastStatus' # lastStatus
    BY DEF Shown, Live
<1>2. SignedOut.state \notin Live /\ [state |-> "degraded", about |-> NoToken].state \notin Live
    BY DEF SignedOut, Live
<1>3. \A t : StatusFrom(t, FALSE).state \notin Live
    BY DEF StatusFrom, Classify, Live
<1>4. ServeFresh => Reopened(lastStatus'.about)
    <2> SUFFICES ASSUME ServeFresh PROVE Reopened(lastStatus'.about)
        OBVIOUS
    <2>1. cache # NoCache /\ lastStatus' = StatusFrom(cache.about, TRUE)
        BY DEF ServeFresh, HaveFresh, Record
    <2> QED BY <2>1, StatusFromAbout DEF RejectInv
<1>5. ASSUME NEW s, Record(s) PROVE s.state \in Live
    BY <1>5 DEF Record
<1>6. ~ReadTokenFails /\ ~ReplyForbidden /\ ~ReplyError
    BY <1>2, <1>3, <1>5 DEF ReadTokenFails, ReplyForbidden, ReplyError
<1>7. UNCHANGED vars \/ Begin \/ ReadToken \/ StampToken \/ Snapshot \/ Throttle \/ MarkAttempt
          \/ LookupSelf \/ ForceRefresh \/ RemoveToken \/ DropCache \/ Tick
          \/ (\E t \in Tokens : WriteToken(t)) \/ (\E s \in Skews : SetWallClock(s))
      => lastStatus' = lastStatus
    BY DEF vars, Begin, ReadToken, StampToken, Snapshot, Throttle, MarkAttempt, LookupSelf,
           ForceRefresh, RemoveToken, DropCache, Tick, WriteToken, SetWallClock, poller
<1>8. ASSUME NEW a \in Addrs, Restart(a) PROVE FALSE
    BY <1>2, <1>8 DEF Restart
<1> QED
    BY <1>1, <1>4, <1>6, <1>7, <1>8 DEF ReplyOk, Next, Status, Others

\* While nobody sets the wall clock ahead and the cache file can be deleted, a
\* session that was rejected, or had ended, comes back on the server's word
\* only, or after it had ended by a clock that has been set back since.
THEOREM RejectedCorrect ==
    ASSUME \A s \in Skews : s <= 0, ~DeleteMayFail PROVE Spec => RejectedStaysOut
<1>1. Init => RejectInv
    BY InitReject
<1>2. TypeInv /\ ServerInv /\ ClockInv /\ RejectInv /\ [Next]_vars => RejectInv'
    BY NextRejectInv
<1>3. TypeInv /\ ClockInv /\ RejectInv /\ [Next]_vars =>
          [Shown({"signedOut"}) /\ at > 0 /\ lastStatus'.state \in Live
               => reply = "ok" \/ Reopened(lastStatus'.about)]_vars
    BY RejectStep
<1>4. Spec => []ServerInv
    BY InitTypeInv, NextTypeInv, InitServerInv, NextServerInv, PTL DEF Spec
<1> QED BY <1>1, <1>2, <1>3, <1>4, StaleInductive, PTL DEF Spec, RejectedStaysOut

=============================================================================
