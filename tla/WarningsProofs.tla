--------------------------- MODULE WarningsProofs ---------------------------
(* Proofs about Warnings, for any sessions, thresholds and clock.          *)
EXTENDS Warnings, WellFoundedInduction, TLAPS

\* Thresholds are natural numbers: any of them have a most urgent one.
LEMMA MostUrgent ==
    ASSUME NEW S \in SUBSET Thresholds, S # {}
    PROVE  Min(S) \in S /\ \A th \in S : Min(S) <= th
<1>1. S \subseteq Nat
    BY WarningsAssumption
<1> DEFINE Less == {p \in Nat \X Nat : p[1] < p[2]}
<1>2. IsWellFoundedOn(Less, Nat)
    BY NatLessThanWellFounded, Zenon DEF OpToRel
<1>3. \A m, n \in Nat : m < n => <<m, n>> \in Less
    OBVIOUS
<1> HIDE DEF Less
<1>4. PICK x \in S : \A y \in S : <<y, x>> \notin Less
    BY <1>1, <1>2, WFMin
<1>5. \A y \in S : x <= y
  <2> SUFFICES ASSUME NEW y \in S, y < x PROVE FALSE
      BY <1>1
  <2>1. <<y, x>> \in Less
      BY <1>1, <1>3
  <2> QED BY <1>4, <2>1
<1> QED BY <1>5 DEF Min

-----------------------------------------------------------------------------
(* Types.                                                                  *)

\* The status is about the highest session shown, or about none; its expiry is
\* what the server last said of that session, unless that is over or the answer
\* told of no end.
TypeInv ==
    /\ TypeOK
    /\ about # 0 => about = latest
    /\ about = 0 => expiresAt = 0
    /\ about \in NeverExpire => expiresAt = 0
    /\ expiresAt \in {0, ends} \/ (expiresAt <= clock /\ ends <= clock)

\* The types hold at the start.
LEMMA InitTypeInv == Init => TypeInv
<1> SUFFICES ASSUME Init PROVE TypeInv
    OBVIOUS
<1>1. told \in [Sessions -> [Thresholds -> Nat]] /\ moves \in [Sessions -> Nat]
    BY DEF Init
<1>2. about \notin NeverExpire
    BY WarningsAssumption DEF Init, NeverExpire
<1>3. /\ clock = 1 /\ about = 0 /\ expiresAt = 0 /\ latest = 0 /\ key = 0
      /\ fired = {} /\ rendered \in BOOLEAN /\ ends = 0
    BY Zenon DEF Init
<1> QED BY <1>1, <1>2, <1>3 DEF TypeInv, TypeOK

\* What LookupSelf makes of an answer is the end that the server spoke of, or
\* none, or it is over and so is the session.
LEMMA ExpiryOfAnswer ==
    ASSUME NEW end \in Nat, NEW a \in AnswersFor(end), clock \in Nat
    PROVE  LET e == LookupExpiry(a, clock)
           IN  /\ e \in Int
               /\ end = 0 => e = 0
               /\ e \in {0, end} \/ (e <= clock /\ end <= clock)
<1> USE WarningsAssumption
<1> DEFINE e == LookupExpiry(a, clock)
<1>1. CASE end = 0
  <2>1. a.expire_time = 0 /\ a.ttl \in {0, Huge}
      BY <1>1 DEF AnswersFor
  <2>2. Endless(a.ttl)
      BY <2>1 DEF Endless
  <2>3. e = 0
      BY <2>1, <2>2 DEF LookupExpiry
  <2> QED BY <1>1, <2>3
<1>2. CASE end # 0 /\ a.expire_time # 0
  <2>1. a.expire_time = end
      BY <1>2 DEF AnswersFor
  <2>2. e = end
      BY <1>2, <2>1 DEF LookupExpiry
  <2> QED BY <1>2, <2>2
<1>3. CASE end # 0 /\ a.expire_time = 0
  <2>1. a.ttl = end - clock
      BY <1>3 DEF AnswersFor
  <2>2. CASE Endless(a.ttl)
    <3>1. e = 0
        BY <1>3, <2>2, Zenon DEF LookupExpiry
    <3> QED BY <1>3, <3>1
  <2>3. CASE ~Endless(a.ttl) /\ a.ttl > 0
    <3>1. a.ttl \in Int /\ 0 < a.ttl /\ a.ttl <= Cap
        BY <2>1, <2>3 DEF Endless
    <3>2. (a.ttl + Half) % (2 * Half) = a.ttl + Half
        BY <3>1
    <3>3. Seconds(a.ttl) = a.ttl
        BY <3>1, <3>2 DEF Seconds
    <3>4. e = clock + Seconds(a.ttl)
        BY <1>3, <2>3, Zenon DEF LookupExpiry
    <3>5. e = end
        BY <2>1, <3>3, <3>4
    <3> QED BY <1>3, <3>5
  <2>4. CASE ~Endless(a.ttl) /\ ~(a.ttl > 0)
    <3>1. a.ttl < 0
        BY <2>1, <2>4 DEF Endless
    <3>2. e = clock + 0
        BY <1>3, <2>4, Zenon DEF LookupExpiry
    <3> QED BY <1>3, <2>1, <3>1, <3>2
  <2> QED BY <2>2, <2>3, <2>4
<1> QED BY <1>1, <1>2, <1>3

\* A session without an end has none in the status, whichever its ttl.
LEMMA PublishType == ASSUME TypeInv, NEW s \in Sessions, Publish(s) PROVE TypeInv'
<1>0. PICK end \in Ends[s] : \E a \in AnswersFor(end) :
        /\ expiresAt' = LookupExpiry(a, clock) /\ ends' = end
        /\ moves' = [moves EXCEPT ![s] = IF s = latest /\ end = ends THEN @ ELSE @ + 1]
    BY Zenon DEF Publish
<1>1. PICK a \in AnswersFor(end) :
        /\ expiresAt' = LookupExpiry(a, clock) /\ ends' = end
        /\ moves' = [moves EXCEPT ![s] = IF s = latest /\ end = ends THEN @ ELSE @ + 1]
    BY <1>0
<1>2. end \in Nat /\ clock \in Nat
    BY WarningsAssumption DEF TypeInv, TypeOK
<1>3. /\ expiresAt' \in Int
      /\ end = 0 => expiresAt' = 0
      /\ expiresAt' \in {0, end} \/ (expiresAt' <= clock /\ end <= clock)
    BY <1>1, <1>2, ExpiryOfAnswer
<1>4. s \in NeverExpire => end = 0
    BY DEF NeverExpire
<1>5. about' = s /\ latest' = s /\ rendered' \in BOOLEAN /\ UNCHANGED <<clock, key, fired, told>>
    BY Zenon DEF Publish
<1>6. moves' \in [Sessions -> Nat]
    BY <1>1 DEF TypeInv, TypeOK
<1>7. s # 0
    BY WarningsAssumption
<1>8. TypeOK'
    BY <1>1, <1>2, <1>3, <1>5, <1>6 DEF TypeInv, TypeOK
<1>9. (about \in NeverExpire => expiresAt = 0)'
    BY <1>3, <1>4, <1>5
<1>10. (expiresAt \in {0, ends} \/ (expiresAt <= clock /\ ends <= clock))'
    BY <1>1, <1>3, <1>5
<1> QED BY <1>5, <1>7, <1>8, <1>9, <1>10 DEF TypeInv

\* What a rendering notifies is a threshold of the session in the status, by
\* the expiry that the server last said.
LEMMA RenderCase ==
    ASSUME TypeInv, Render, expiresAt # 0, Remaining > 0,
           NEW due, due = {th \in Thresholds : Remaining <= th /\ th \notin Armed(expiresAt)}
    PROVE  /\ about \in Sessions \ NeverExpire /\ about = latest
           /\ expiresAt = ends
           /\ key' = expiresAt /\ fired' = Armed(expiresAt) \union due
           /\ due = {} => told' = told
           /\ due # {} => /\ Min(due) \in due /\ \A th \in due : Min(due) <= th
                          /\ told' = [told EXCEPT ![about][Min(due)] = @ + 1]
<1>1. about \in Sessions \ NeverExpire /\ about = latest
    BY DEF TypeInv, TypeOK
<1>2. expiresAt = ends
  <2>1. expiresAt \in Int /\ clock \in Nat /\ expiresAt - clock > 0
      BY DEF TypeInv, TypeOK, Remaining
  <2> QED BY <2>1 DEF TypeInv
<1>3. due # {} => Min(due) \in due /\ \A th \in due : Min(due) <= th
    BY MostUrgent
<1> QED BY <1>1, <1>2, <1>3 DEF Render, Mark

\* Renderings keep the types.
LEMMA RenderType == ASSUME TypeInv, Render PROVE TypeInv'
<1> DEFINE due == {th \in Thresholds : Remaining <= th /\ th \notin Armed(expiresAt)}
<1>1. UNCHANGED <<clock, about, expiresAt, latest, ends, moves>> /\ rendered' \in BOOLEAN
    BY Zenon DEF Render
<1>2. CASE expiresAt # 0 /\ Remaining > 0
  <2> HIDE DEF due
  <2>1. due \subseteq Thresholds
      BY DEF due
  <2>2. Armed(expiresAt) \subseteq Thresholds
      BY DEF Armed, TypeInv, TypeOK
  <2>3. key' = expiresAt /\ fired' = Armed(expiresAt) \union due
      BY <1>2, RenderCase DEF due
  <2>4. told' \in [Sessions -> [Thresholds -> Nat]]
    <3>1. CASE due = {}
        BY <1>2, <3>1, RenderCase DEF due, TypeInv, TypeOK
    <3>2. CASE due # {}
      <4>1. about \in Sessions /\ Min(due) \in Thresholds
          BY <1>2, <2>1, <3>2, RenderCase DEF due
      <4>2. told' = [told EXCEPT ![about][Min(due)] = @ + 1]
          BY <1>2, <3>2, RenderCase DEF due
      <4> QED BY <4>1, <4>2 DEF TypeInv, TypeOK
    <3> QED BY <3>1, <3>2
  <2> QED BY <1>1, <2>1, <2>2, <2>3, <2>4 DEF TypeInv, TypeOK
<1>3. CASE ~(expiresAt # 0 /\ Remaining > 0)
  <2>1. UNCHANGED <<key, fired, told>>
      BY <1>3, Zenon DEF Render
  <2> QED BY <1>1, <2>1 DEF TypeInv, TypeOK
<1> QED BY <1>2, <1>3

\* Every step keeps the types.
LEMMA NextTypeInv == TypeInv /\ [Next]_vars => TypeInv'
<1> SUFFICES ASSUME TypeInv, [Next]_vars PROVE TypeInv'
    OBVIOUS
<1>1. CASE Render
    BY <1>1, RenderType
<1>2. CASE Pass
  <2>1. /\ rendered' \in BOOLEAN
        /\ UNCHANGED <<about, expiresAt, latest, key, fired, told, ends, moves>>
      BY <1>2, Zenon DEF Pass, history
  <2>2. clock' \in Nat /\ clock <= clock' /\ clock \in Nat
      BY <1>2, WarningsAssumption DEF TypeInv, TypeOK, Pass
  <2>3. expiresAt \in Int /\ ends \in Nat
      BY DEF TypeInv, TypeOK
  <2>4. (expiresAt \in {0, ends} \/ (expiresAt <= clock /\ ends <= clock))'
      BY <2>1, <2>2, <2>3 DEF TypeInv
  <2> QED BY <2>1, <2>2, <2>4 DEF TypeInv, TypeOK
<1>3. CASE PublishSignedOut
  <2>1. /\ about' = 0 /\ expiresAt' = 0 /\ rendered' \in BOOLEAN
        /\ UNCHANGED <<clock, latest, key, fired, told, ends, moves>>
      BY <1>3, Zenon DEF PublishSignedOut, history
  <2> QED BY <2>1 DEF TypeInv, TypeOK
<1>4. ASSUME NEW s \in Sessions, Publish(s) PROVE TypeInv'
    BY <1>4, PublishType
<1>5. CASE UNCHANGED vars
    BY <1>5 DEF TypeInv, TypeOK, vars, history
<1> QED BY <1>1, <1>2, <1>3, <1>4, <1>5 DEF Next

\* Every variable keeps its type.
THEOREM TypeCorrect == Spec => []TypeOK
<1>1. TypeInv => TypeOK
    BY DEF TypeInv
<1> QED BY <1>1, InitTypeInv, NextTypeInv, PTL DEF Spec

-----------------------------------------------------------------------------
(* Once for every expiry.                                                  *)

\* A threshold that has been notified as often as the expiry has been said is
\* marked in the Tracker, which goes by the expiry that was said last.
OnceInv ==
    /\ OncePerExpiry
    /\ \A th \in Thresholds : latest # 0 /\ told[latest][th] = moves[latest] =>
         key = ends /\ th \in fired

\* Nothing has been notified at the start.
LEMMA InitOnce == Init => OnceInv
BY WarningsAssumption DEF Init, OnceInv, OncePerExpiry

\* Renderings keep OnceInv: what is not marked has not been notified of the
\* expiry said last.
LEMMA RenderOnce == ASSUME TypeInv, OnceInv, Render PROVE OnceInv'
<1> DEFINE due == {th \in Thresholds : Remaining <= th /\ th \notin Armed(expiresAt)}
<1>1. CASE expiresAt # 0 /\ Remaining > 0
  <2>0. /\ about \in Sessions /\ about = latest /\ expiresAt = ends
        /\ key' = expiresAt /\ fired' = Armed(expiresAt) \union due
        /\ due = {} => told' = told
        /\ due # {} => /\ Min(due) \in due
                       /\ told' = [told EXCEPT ![about][Min(due)] = @ + 1]
      BY <1>1, RenderCase
  <2>1. latest' = latest /\ latest # 0 /\ ends' = ends /\ moves' = moves
      BY <2>0, WarningsAssumption DEF Render
  <2>2. \A th \in Thresholds : told[latest][th] = moves[latest] => th \in Armed(expiresAt)
      BY <2>0, <2>1 DEF OnceInv, Armed
  <2>3. CASE due = {}
      BY <2>0, <2>1, <2>2, <2>3 DEF OnceInv, OncePerExpiry
  <2>4. CASE due # {}
    <3> DEFINE m == Min(due)
    <3>1. m \in due /\ m \in Thresholds /\ told' = [told EXCEPT ![about][m] = @ + 1]
        BY <2>0, <2>4
    <3>2. told[about][m] # moves[about]
        BY <2>0, <2>2, <3>1
    <3>3. m \in fired'
        BY <2>0, <3>1
    <3> HIDE DEF m, due
    <3>4. told[about][m] < moves[about]
      <4>1. told[about][m] \in Nat /\ moves[about] \in Nat
          BY <2>0, <3>1 DEF TypeInv, TypeOK
      <4>2. told[about][m] <= moves[about]
          BY <2>0, <3>1 DEF OnceInv, OncePerExpiry
      <4> QED BY <3>2, <4>1, <4>2
    <3>5. \A s \in Sessions, th \in Thresholds :
             told'[s][th] = IF s = about /\ th = m THEN told[s][th] + 1 ELSE told[s][th]
        BY <2>0, <3>1 DEF TypeInv, TypeOK
    <3>6. OncePerExpiry'
      <4> SUFFICES ASSUME NEW s \in Sessions, NEW th \in Thresholds
                   PROVE  told'[s][th] <= moves[s]
          BY <2>1 DEF OncePerExpiry
      <4>1. CASE s = about /\ th = m
        <5>1. told[about][m] \in Nat /\ moves[about] \in Nat
            BY <2>0, <3>1 DEF TypeInv, TypeOK
        <5> QED BY <3>4, <3>5, <4>1, <5>1
      <4>2. CASE ~(s = about /\ th = m)
          BY <3>5, <4>2 DEF OnceInv, OncePerExpiry
      <4> QED BY <4>1, <4>2
    <3>7. (\A th \in Thresholds : latest # 0 /\ told[latest][th] = moves[latest] =>
             key = ends /\ th \in fired)'
        BY <2>0, <2>1, <2>2, <3>3, <3>5
    <3> QED BY <3>6, <3>7 DEF OnceInv
  <2> QED BY <2>3, <2>4
<1>2. CASE ~(expiresAt # 0 /\ Remaining > 0)
    BY <1>2 DEF OnceInv, OncePerExpiry, Render
<1> QED BY <1>1, <1>2

\* Another expiry allows for one more notification of each threshold.
LEMMA PublishOnce == ASSUME TypeInv, OnceInv, NEW s \in Sessions, Publish(s) PROVE OnceInv'
<1>1. PICK end \in Ends[s] :
        /\ ends' = end
        /\ moves' = [moves EXCEPT ![s] = IF s = latest /\ end = ends THEN @ ELSE @ + 1]
    BY DEF Publish
<1>2. latest' = s /\ UNCHANGED <<key, fired, told>>
    BY DEF Publish
<1>3. CASE s = latest /\ end = ends
  <2>1. moves' = moves
      BY <1>1, <1>3 DEF TypeInv, TypeOK
  <2> QED BY <1>1, <1>2, <1>3, <2>1 DEF OnceInv, OncePerExpiry
<1>4. CASE ~(s = latest /\ end = ends)
  <2>1. /\ moves'[s] = moves[s] + 1 /\ \A r \in Sessions \ {s} : moves'[r] = moves[r]
        /\ \A r \in Sessions : moves[r] \in Nat /\ \A th \in Thresholds : told[r][th] \in Nat
      BY <1>1, <1>4 DEF TypeInv, TypeOK
  <2>2. \A th \in Thresholds : told[s][th] < moves'[s]
      BY <2>1 DEF OnceInv, OncePerExpiry
  <2>3. \A r \in Sessions : \A th \in Thresholds : told[r][th] <= moves'[r]
      BY <2>1 DEF OnceInv, OncePerExpiry
  <2>4. \A th \in Thresholds : told[s][th] # moves'[s]
    <3> SUFFICES ASSUME NEW th \in Thresholds PROVE told[s][th] # moves'[s]
        OBVIOUS
    <3>1. told[s][th] < moves'[s] /\ told[s][th] \in Nat /\ moves'[s] \in Nat
        BY <2>1, <2>2
    <3> QED BY <3>1
  <2> QED BY <1>2, <2>3, <2>4 DEF OnceInv, OncePerExpiry
<1> QED BY <1>3, <1>4

\* Every step keeps OnceInv.
LEMMA NextOnce == TypeInv /\ OnceInv /\ [Next]_vars => OnceInv'
<1> SUFFICES ASSUME TypeInv, OnceInv, [Next]_vars PROVE OnceInv'
    OBVIOUS
<1>1. CASE Render
    BY <1>1, RenderOnce
<1>2. CASE Pass
    BY <1>2 DEF OnceInv, OncePerExpiry, Pass, history
<1>3. CASE PublishSignedOut
    BY <1>3 DEF OnceInv, OncePerExpiry, PublishSignedOut, history
<1>4. ASSUME NEW s \in Sessions, Publish(s) PROVE OnceInv'
    BY <1>4, PublishOnce
<1>5. CASE UNCHANGED vars
    BY <1>5 DEF OnceInv, OncePerExpiry, vars, history
<1> QED BY <1>1, <1>2, <1>3, <1>4, <1>5 DEF Next

\* No threshold is notified more often for a session than the server has said
\* another expiry of it.
THEOREM OnceCorrect == Spec => []OncePerExpiry
<1>1. OnceInv => OncePerExpiry
    BY DEF OnceInv
<1> QED BY <1>1, InitTypeInv, NextTypeInv, InitOnce, NextOnce, PTL DEF Spec

-----------------------------------------------------------------------------
(* The most urgent one.                                                    *)

\* What is longer than a marked threshold is marked too.
ClosedInv == \A th \in fired : \A t \in Thresholds : th <= t => t \in fired

\* Nothing is marked at the start.
LEMMA InitClosed == Init => ClosedInv
BY DEF Init, ClosedInv

\* Every step keeps ClosedInv: whatever is longer than what is crossed now is
\* crossed too.
LEMMA NextClosed == TypeInv /\ ClosedInv /\ [Next]_vars => ClosedInv'
<1> SUFFICES ASSUME TypeInv, ClosedInv, [Next]_vars PROVE ClosedInv'
    OBVIOUS
<1>1. CASE Render /\ expiresAt # 0 /\ Remaining > 0
  <2> DEFINE due == {th \in Thresholds : Remaining <= th /\ th \notin Armed(expiresAt)}
  <2>1. fired' = Armed(expiresAt) \union due
      BY <1>1, RenderCase
  <2>2. Remaining \in Int /\ Thresholds \subseteq Nat /\ Armed(expiresAt) \subseteq Thresholds
      BY WarningsAssumption DEF TypeInv, TypeOK, Remaining, Armed
  <2>3. \A th \in Armed(expiresAt) : \A t \in Thresholds : th <= t => t \in Armed(expiresAt)
      BY DEF Armed, ClosedInv
  <2>4. ASSUME NEW th \in due, NEW t \in Thresholds, th <= t PROVE t \in fired'
    <3>1. Remaining <= t
        BY <2>2, <2>4
    <3> QED BY <2>1, <3>1
  <2> QED BY <2>1, <2>3, <2>4 DEF ClosedInv
<1>2. CASE Render /\ ~(expiresAt # 0 /\ Remaining > 0)
    BY <1>2 DEF ClosedInv, Render
<1>3. CASE Pass \/ PublishSignedOut \/ UNCHANGED vars
    BY <1>3 DEF ClosedInv, Pass, PublishSignedOut, vars, history
<1>4. ASSUME NEW s \in Sessions, Publish(s) PROVE ClosedInv'
    BY <1>4 DEF ClosedInv, Publish
<1> QED BY <1>1, <1>2, <1>3, <1>4 DEF Next

\* The most urgent of the newly crossed thresholds is the most urgent of all
\* that the session is inside of.
LEMMA DueIsUrgent ==
    ASSUME TypeInv, ClosedInv,
           NEW due, due = {th \in Thresholds : Remaining <= th /\ th \notin Armed(expiresAt)},
           due # {}
    PROVE  Min(due) \in Inside /\ Min(due) = Min(Inside)
<1>1. Min(due) \in due /\ \A th \in due : Min(due) <= th
    BY MostUrgent
<1>2. Min(due) \in Inside
    BY <1>1 DEF Inside
<1>3. Inside \subseteq Thresholds /\ Thresholds \subseteq Nat
    BY WarningsAssumption DEF Inside
<1>4. Min(Inside) \in Inside /\ \A th \in Inside : Min(Inside) <= th
    BY <1>2, <1>3, MostUrgent
<1>5. Min(Inside) \in due
  <2>1. SUFFICES ASSUME Min(Inside) \in Armed(expiresAt) PROVE FALSE
      BY <1>4 DEF Inside
  <2>2. Min(Inside) <= Min(due) /\ Min(due) \in Thresholds
      BY <1>1, <1>2, <1>4
  <2>3. Min(due) \in Armed(expiresAt)
      BY <2>1, <2>2 DEF Armed, ClosedInv
  <2> QED BY <1>1, <2>3
<1>6. Min(due) <= Min(Inside) /\ Min(Inside) <= Min(due)
    BY <1>1, <1>2, <1>4, <1>5
<1>7. Min(due) \in Nat /\ Min(Inside) \in Nat
    BY <1>2, <1>3, <1>4
<1> QED BY <1>2, <1>6, <1>7

\* What a step notifies is the most urgent threshold of the session.
LEMMA NextOrder ==
    TypeInv /\ ClosedInv /\ [Next]_vars =>
        \A s \in Sessions : \A th \in Thresholds :
            told'[s][th] > told[s][th] => s = about /\ th \in Inside /\ th = Min(Inside)
<1> SUFFICES ASSUME TypeInv, ClosedInv, [Next]_vars,
                    NEW s \in Sessions, NEW th \in Thresholds, told'[s][th] > told[s][th]
             PROVE  s = about /\ th \in Inside /\ th = Min(Inside)
    OBVIOUS
<1> DEFINE due == {t \in Thresholds : Remaining <= t /\ t \notin Armed(expiresAt)}
<1>1. Render /\ expiresAt # 0 /\ Remaining > 0
  <2>1. told[s][th] \in Nat
      BY DEF TypeInv, TypeOK
  <2>2. told' # told
      BY <2>1
  <2>3. Render
      BY <2>2 DEF Next, vars, history, Pass, PublishSignedOut, Publish
  <2> QED BY <2>2, <2>3, Zenon DEF Render
<1>2. /\ due = {} => told' = told
      /\ due # {} => Min(due) \in due /\ told' = [told EXCEPT ![about][Min(due)] = @ + 1]
    BY <1>1, RenderCase
<1>3. due # {}
    BY <1>2 DEF TypeInv, TypeOK
<1>4. Min(due) \in Inside /\ Min(due) = Min(Inside)
    BY <1>3, DueIsUrgent
<1> HIDE DEF due
<1>5. s = about /\ th = Min(due)
    BY <1>2, <1>3 DEF TypeInv, TypeOK
<1> QED BY <1>4, <1>5

\* A notification never says less than how urgent it is.
THEOREM OrderCorrect == Spec => NoLateWarning
<1>1. TypeInv /\ ClosedInv /\ [Next]_vars =>
        [\A s \in Sessions : \A th \in Thresholds :
            told'[s][th] > told[s][th] => s = about /\ th \in Inside /\ th = Min(Inside)]_vars
    BY NextOrder
<1> QED BY <1>1, InitTypeInv, NextTypeInv, InitClosed, NextClosed, PTL DEF Spec, NoLateWarning

-----------------------------------------------------------------------------
(* Nobody is left unwarned.                                                *)

\* No time is the end of two sessions: the Tracker tells them by it.
EndsApart == \A s, t \in Sessions \ NeverExpire : s # t => Ends[s] \cap Ends[t] = {}

\* What is marked is crossed; the most urgent mark was notified, for the
\* session whose expiry the Tracker goes by.  After a rendering the marks are
\* what the session is inside of.
MissInv ==
    /\ \A th \in fired : key - clock <= th
    /\ fired # {} =>
         \E s \in Sessions \ NeverExpire : key \in Ends[s] /\ told[s][Min(fired)] > 0
    /\ latest # 0 => ends \in Ends[latest]
    /\ NoWarningMissed

\* Nothing is marked, or rendered, at the start.
LEMMA InitMiss == Init => MissInv
BY DEF Init, MissInv, NoWarningMissed

\* Renderings keep MissInv: the most urgent threshold that the session is
\* inside of is notified now, or it is the most urgent mark.
LEMMA RenderMiss ==
    ASSUME EndsApart, TypeInv, ClosedInv, MissInv, Render
    PROVE  MissInv'
<1> DEFINE due == {th \in Thresholds : Remaining <= th /\ th \notin Armed(expiresAt)}
<1>1. CASE expiresAt # 0 /\ Remaining > 0
  <2>0. /\ about \in Sessions \ NeverExpire /\ about = latest /\ expiresAt = ends
        /\ key' = expiresAt /\ fired' = Armed(expiresAt) \union due
        /\ due = {} => told' = told
        /\ due # {} => told' = [told EXCEPT ![about][Min(due)] = @ + 1]
      BY <1>1, RenderCase
  <2>1. UNCHANGED <<clock, about, expiresAt, latest, ends>>
      BY DEF Render
  <2>2. Remaining \in Int /\ Thresholds \subseteq Nat /\ fired \subseteq Thresholds
      BY WarningsAssumption DEF TypeInv, TypeOK, Remaining
  <2>3. latest # 0 /\ expiresAt \in Ends[about]
      BY <2>0, WarningsAssumption DEF MissInv
  <2>4. fired' = Inside
    <3>1. \A th \in Armed(expiresAt) : th \in Thresholds /\ Remaining <= th
        BY <2>2 DEF Armed, MissInv, Remaining
    <3> QED BY <2>0, <3>1 DEF Inside
  <2>5. Inside # {} => told'[about][Min(Inside)] > 0
    <3>1. CASE due = {}
      <4>1. Inside # {} => key = expiresAt /\ fired = Inside
          BY <2>0, <2>4, <3>1 DEF Armed
      <4>2. Inside # {} => \E s \in Sessions \ NeverExpire : expiresAt \in Ends[s] /\ told[s][Min(Inside)] > 0
          BY <4>1 DEF MissInv
      <4>3. Inside # {} => told[about][Min(Inside)] > 0
          BY <2>0, <2>3, <4>2 DEF EndsApart
      <4> QED BY <2>0, <3>1, <4>3
    <3>2. CASE due # {}
      <4>1. Min(due) \in Inside /\ Min(due) = Min(Inside)
          BY <3>2, DueIsUrgent
      <4>2. Min(due) \in Thresholds
          BY <4>1 DEF Inside
      <4> HIDE DEF due
      <4>3. told'[about][Min(due)] > 0
          BY <2>0, <3>2, <4>2 DEF TypeInv, TypeOK
      <4> QED BY <4>1, <4>3
    <3> QED BY <3>1, <3>2
  <2>6. (\A th \in fired : key - clock <= th)'
      BY <2>0, <2>1, <2>4 DEF Remaining, Inside
  <2>7. (fired # {} => \E s \in Sessions \ NeverExpire : key \in Ends[s] /\ told[s][Min(fired)] > 0)'
      BY <2>0, <2>3, <2>4, <2>5
  <2>8. NoWarningMissed'
    <3>1. Remaining' = Remaining /\ Inside' = Inside
        BY <2>1 DEF Remaining, Inside
    <3> QED BY <2>1, <2>5, <3>1 DEF NoWarningMissed
  <2> QED BY <2>1, <2>6, <2>7, <2>8 DEF MissInv
<1>2. CASE ~(expiresAt # 0 /\ Remaining > 0)
    BY <1>2 DEF MissInv, NoWarningMissed, Render, Remaining
<1> QED BY <1>1, <1>2

\* Every step keeps MissInv; time only brings the expiry closer.
LEMMA NextMiss ==
    ASSUME EndsApart, TypeInv, ClosedInv, MissInv, [Next]_vars
    PROVE  MissInv'
<1>1. CASE Render
    BY <1>1, RenderMiss
<1>2. CASE Pass
  <2>1. clock' \in Int /\ clock \in Int /\ clock' >= clock /\ key \in Int /\ fired \subseteq Nat
      BY <1>2, WarningsAssumption DEF Pass, TypeInv, TypeOK
  <2> QED BY <1>2, <2>1 DEF MissInv, NoWarningMissed, Pass, history
<1>3. CASE PublishSignedOut
    BY <1>3 DEF MissInv, NoWarningMissed, PublishSignedOut, history
<1>4. ASSUME NEW s \in Sessions, Publish(s) PROVE MissInv'
  <2>1. ends' \in Ends[s] /\ latest' = s /\ rendered' = FALSE /\ UNCHANGED <<clock, key, fired, told>>
      BY <1>4 DEF Publish
  <2> QED BY <2>1 DEF MissInv, NoWarningMissed
<1>5. CASE UNCHANGED vars
    BY <1>5 DEF MissInv, NoWarningMissed, Inside, Remaining, vars, history
<1> QED BY <1>1, <1>2, <1>3, <1>4, <1>5 DEF Next

\* Every session inside a threshold has been warned of, unless the server ends
\* two of them at the same time.
THEOREM MissedCorrect == ASSUME EndsApart PROVE Spec => []NoWarningMissed
<1>1. MissInv => NoWarningMissed
    BY DEF MissInv
<1>2. TypeInv /\ ClosedInv /\ MissInv /\ [Next]_vars => MissInv'
    BY NextMiss
<1> QED BY <1>1, <1>2, InitTypeInv, NextTypeInv, InitClosed, NextClosed, InitMiss, PTL DEF Spec

=============================================================================
