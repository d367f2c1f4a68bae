---------------------------- MODULE ScreenProofs ----------------------------
(* Proofs about Screen, for any thresholds, windows, answers and clock.    *)
EXTENDS Screen, WarningsProofs, FiniteSetTheorems

-----------------------------------------------------------------------------
(* Screen is Warnings with a screen.                                       *)

\* Every step is one of Warnings, or leaves its variables alone.
LEMMA StepIsWarnings == [ScreenNext]_svars => [Next]_vars
BY DEF ScreenNext, RenderAll, Sleep, ShowNone, ShowSession, Next, svars

\* What is proved of the warnings holds of the screen that they are part of.
THEOREM ScreenWarns == ScreenSpec => Spec
<1>1. ScreenInit => Init
    BY DEF ScreenInit
<1> QED BY <1>1, StepIsWarnings, PTL DEF ScreenSpec, Spec

\* No threshold is notified twice for a session whose expiry stays, with a
\* screen or without.
THEOREM ScreenOnce == ScreenSpec => []OncePerExpiry
BY ScreenWarns, OnceCorrect, PTL

-----------------------------------------------------------------------------
(* Arithmetic.                                                             *)

\* The later of a time and none.
LEMMA NotNegative ==
    ASSUME NEW x \in Int
    PROVE  Max({x, 0}) = IF x >= 0 THEN x ELSE 0
<1> DEFINE m == IF x >= 0 THEN x ELSE 0
<1>1. m \in {x, 0} /\ \A y \in {x, 0} : m >= y
    OBVIOUS
<1>2. \A n \in {x, 0} : (\A y \in {x, 0} : n >= y) => n = m
    OBVIOUS
<1> QED BY <1>1, <1>2 DEF Max

\* A larger number of them is no less.
LEMMA ScaleUp ==
    ASSUME NEW m \in Nat, NEW n \in Nat, m <= n, NEW d \in Nat
    PROVE  m * d <= n * d
<1> DEFINE e == n - m
<1>1. e \in Nat /\ n = m + e
    OBVIOUS
<1> HIDE DEF e
<1>2. (m + e) * d = m * d + e * d /\ e * d \in Nat
    BY <1>1
<1> QED BY <1>1, <1>2

\* Quotient and remainder.
LEMMA Division ==
    ASSUME NEW n \in Nat, NEW d \in Nat, d > 0
    PROVE  /\ n \div d \in Nat /\ n % d \in Nat /\ n % d < d
           /\ n = (n \div d) * d + (n % d)
<1>1. n \div d \in Nat /\ n % d \in Nat /\ n % d < d
    OBVIOUS
<1>2. n = (n \div d) * d + (n % d)
    OBVIOUS
<1> QED BY <1>1, <1>2

\* Times a sum.
LEMMA Distribute ==
    ASSUME NEW m \in Nat, NEW n \in Nat, NEW d \in Nat
    PROVE  (m + n) * d = m * d + n * d /\ m * n \in Nat
OBVIOUS

\* There is one quotient.
LEMMA OneQuotient ==
    ASSUME NEW n \in Nat, NEW d \in Nat, d > 0, NEW q \in Nat, q * d <= n, n < q * d + d
    PROVE  q = n \div d
<1> DEFINE r == n \div d
<1>1. r \in Nat /\ r * d <= n /\ n < r * d + d
    BY Division
<1> HIDE DEF r
<1>2. CASE q < r
  <2>1. (q + 1) * d <= r * d
      BY <1>1, <1>2, ScaleUp
  <2>2. (q + 1) * d = q * d + d
      OBVIOUS
  <2> QED BY <1>1, <2>1, <2>2
<1>3. CASE r < q
  <2>1. (r + 1) * d <= q * d
      BY <1>1, <1>3, ScaleUp
  <2>2. (r + 1) * d = r * d + d
      BY <1>1
  <2> QED BY <1>1, <2>1, <2>2
<1>4. q = r
    BY <1>1, <1>2, <1>3
<1> QED BY <1>4 DEF r

\* Hours and minutes, each rounded down, are the time rounded down.
LEMMA HumanIsTime ==
    ASSUME NEW d \in Nat
    PROVE  LET shown == Human(d)[1] * PerHour + Human(d)[2] * PerMinute
           IN  shown <= d /\ d < shown + PerMinute
<1> DEFINE k == PerHour \div PerMinute
           q == d \div PerMinute
           h == q \div k
<1>1. PerHour \in Nat /\ PerHour > 0 /\ PerMinute \in Nat /\ PerMinute > 0 /\ PerHour % PerMinute = 0
    BY ScreenAssumption
<1>2. k \in Nat /\ PerHour = k * PerMinute
    BY <1>1, Division
<1>3. k > 0
    BY <1>1, <1>2
<1>4. q \in Nat /\ q * PerMinute <= d /\ d < q * PerMinute + PerMinute
    BY <1>1, Division
<1> HIDE DEF q, k
<1>5. h \in Nat /\ q % k \in Nat /\ q % k < k /\ q = h * k + (q % k)
    BY <1>2, <1>3, <1>4, Division
<1> HIDE DEF h
<1> DEFINE p == h * k
           r == q % k
<1>6. p \in Nat /\ r \in Nat /\ r < k /\ q = p + r
  <2>1. h * k \in Nat
      BY <1>2, <1>5, Distribute
  <2> QED BY <1>5, <2>1
<1>7. h * PerHour = p * PerMinute
    BY <1>1, <1>2, <1>5
<1> HIDE DEF p, r
<1>8. h * PerHour <= d /\ d < h * PerHour + PerHour
  <2>1. p * PerMinute <= q * PerMinute /\ (q + 1) * PerMinute <= (p + k) * PerMinute
      BY <1>1, <1>2, <1>4, <1>6, ScaleUp
  <2>2. (p + k) * PerMinute = p * PerMinute + PerHour
      BY <1>1, <1>2, <1>6, Distribute
  <2>3. (q + 1) * PerMinute = q * PerMinute + PerMinute
      BY <1>1, <1>4, Distribute
  <2> QED BY <1>1, <1>4, <1>5, <1>6, <1>7, <2>1, <2>2, <2>3
<1>9. h = d \div PerHour
    BY <1>1, <1>5, <1>8, OneQuotient
<1>10. Human(d)[1] = h /\ Human(d)[2] = r
    BY <1>9 DEF Human, q, k, r
<1>11. h * PerHour + r * PerMinute = q * PerMinute
    BY <1>1, <1>6, <1>7, Distribute
<1>12. Human(d)[1] * PerHour + Human(d)[2] * PerMinute = q * PerMinute
    BY <1>10, <1>11
<1> QED BY <1>1, <1>4, <1>12

-----------------------------------------------------------------------------
(* The status.                                                             *)

States == {"signed-in", "expiring", "degraded", "signed-out"}

\* A status without an expiry is not one that is about to end.
StatusInv ==
    /\ TypeInv
    /\ state \in States /\ left \in Nat
    /\ expiresAt = 0 => state # "expiring"
    /\ about \in NeverExpire => state \in {"signed-in", "degraded"}

\* An empty holder is signed out.
LEMMA InitStatus == ScreenInit => StatusInv
<1> SUFFICES ASSUME ScreenInit PROVE StatusInv
    OBVIOUS
<1>1. TypeInv /\ about \notin NeverExpire
    BY InitTypeInv, WarningsAssumption DEF ScreenInit, Init, NeverExpire
<1> QED BY <1>1 DEF ScreenInit, StatusInv, States

\* Every step keeps StatusInv: only what ends is classified by its end.
LEMMA NextStatus == StatusInv /\ [ScreenNext]_svars => StatusInv'
<1> SUFFICES ASSUME StatusInv, [ScreenNext]_svars PROVE StatusInv'
    OBVIOUS
<1>1. TypeInv'
    BY StepIsWarnings, NextTypeInv DEF StatusInv
<1>2. CASE RenderAll
    BY <1>1, <1>2 DEF StatusInv, RenderAll, Render, status
<1>3. CASE Sleep
    BY <1>1, <1>3 DEF StatusInv, Sleep, Pass, status
<1>4. CASE ShowNone
  <2>1. about' \notin NeverExpire
      BY <1>4, WarningsAssumption DEF ShowNone, PublishSignedOut, NeverExpire
  <2> QED BY <1>1, <1>4, <2>1 DEF StatusInv, States, ShowNone
<1>5. ASSUME NEW s \in Sessions, ShowSession(s) PROVE StatusInv'
  <2>1. about' \in NeverExpire => expiresAt' = 0
      BY <1>1 DEF TypeInv
  <2>2. \A r \in Int : Classify(r) \subseteq States
      BY WarningsAssumption, ScreenAssumption DEF Classify, States
  <2>3. expiresAt' - clock \in Int
      BY <1>1, <1>5 DEF TypeInv, TypeOK, StatusInv
  <2>4. IF expiresAt' = 0 THEN state' \in {"signed-in", "degraded"}
                          ELSE state' \in Classify(expiresAt' - clock)
      BY <1>5 DEF ShowSession
  <2>5. left' \in Nat
      BY <1>5, <2>3, NotNegative DEF ShowSession
  <2> QED BY <1>1, <2>1, <2>2, <2>3, <2>4, <2>5 DEF StatusInv, States
<1>6. CASE UNCHANGED svars
    BY <1>1, <1>6 DEF StatusInv, svars, vars, status
<1> QED BY <1>2, <1>3, <1>4, <1>5, <1>6 DEF ScreenNext

-----------------------------------------------------------------------------
(* Writing what has changed is writing everything.                         *)

Texts == {"label", "tooltip", "icon", "who", "policies", "expires"}
Unwritten == {Plain(""), Plain("none")}

\* What is remembered of a part of the screen tells what is on it, unless that
\* part has never been written.
DrawnInv ==
    /\ screen = [f \in Fields |-> screen[f]]
    /\ \A f \in Texts : last[f] \notin Unwritten => screen[f] = last[f]
    /\ last["policies"] = screen["policies"] /\ last["expires"] = screen["expires"]
    /\ \A list : last["slots"] = Text("names", NoTime, list) =>
                   screen["slots"] = Text("slots", NoTime, Slots(list))
    /\ last["showPolicies"] \in States =>
         screen["showPolicies"] = (last["showPolicies"] \in {"signed-in", "expiring"})
    /\ \A f \in {"showExpires", "showLogout"} :
         last[f] \in States => screen[f] = (last[f] # "signed-out")

\* The menu as it is made, and nothing remembered.
LEMMA InitDrawn == ScreenInit => DrawnInv
<1> SUFFICES ASSUME ScreenInit PROVE DrawnInv
    OBVIOUS
<1>1. screen = [f \in Fields |-> screen[f]]
    BY Zenon DEF ScreenInit
<1>2. /\ last["label"] = Plain("") /\ last["tooltip"] = Plain("") /\ last["who"] = Plain("")
      /\ last["icon"] = Plain("none") /\ last["policies"] = Plain("") /\ last["expires"] = Plain("")
      /\ last["slots"] = Text("names", NoTime, <<>>)
      /\ last["showPolicies"] = "none" /\ last["showExpires"] = "none" /\ last["showLogout"] = "none"
    BY DEF ScreenInit, Fields
<1>3. /\ screen["policies"] = Plain("") /\ screen["expires"] = Plain("")
      /\ screen["slots"] = Text("slots", NoTime, <<>>)
    BY DEF ScreenInit, Fields
<1>4. \A list : Text("names", NoTime, list) = Text("names", NoTime, <<>>) => list = <<>>
    BY DEF Text
<1>5. Slots(<<>>) = <<>>
    BY ScreenAssumption DEF Slots
<1> QED BY <1>1, <1>2, <1>3, <1>4, <1>5 DEF DrawnInv, Texts, Unwritten, States

\* The remembered keys, part by part.
LEMMA KeyValues ==
    /\ \A f \in Texts : Keys[f] = View[f]
    /\ Keys["slots"] = Text("names", NoTime, policies)
    /\ \A f \in {"showPolicies", "showExpires", "showLogout"} : Keys[f] = state
BY DEF Keys, View, Texts

\* What is to be written, part by part.
LEMMA ViewValues ==
    /\ View["label"] = Label(TimeLeft) /\ View["tooltip"] = Tooltip(TimeLeft)
    /\ View["icon"] = Plain(state) /\ View["who"] = WhoLine
    /\ View["policies"] = PoliciesLine /\ View["expires"] = ExpiresLine(TimeLeft)
    /\ View["slots"] = Text("slots", NoTime, Slots(policies))
    /\ View["showPolicies"] = (PoliciesLine # Plain(""))
    /\ View["showExpires"] = (ExpiresLine(TimeLeft) # Plain(""))
    /\ View["showLogout"] = (state # "signed-out")
    /\ View = [f \in Fields |-> View[f]]
BY DEF View, Fields

\* The time left is shown as none once it is over.
LEMMA TimeLeftType == ASSUME StatusInv PROVE TimeLeft \in Nat
<1>1. Remaining \in Int
    BY DEF StatusInv, TypeInv, TypeOK, Remaining
<1>2. Max({Remaining, 0}) \in Nat
    BY <1>1, NotNegative
<1> QED BY <1>2 DEF TimeLeft, StatusInv

\* The label is of a kind that tells whether there is a time in it.
LEMMA LabelForm ==
    ASSUME StatusInv
    PROVE  \E k, t, l :
             /\ Label(TimeLeft) = Text(k, t, l) /\ k \notin {"", "none"}
             /\ k \in {"left", "perhaps", "in"} => t = Human(TimeLeft) /\ ~NeverExpires
<1>1. state \in States /\ (NeverExpires => state # "expiring")
    BY DEF StatusInv, NeverExpires
<1>2. TimeLeft <= 0 \/ TimeLeft > 0
    BY TimeLeftType
<1> DEFINE L == Label(TimeLeft)
<1>3. \/ L \in {Plain("endless"), Plain("perhaps endless"), Plain("?"), Plain("login")}
      \/ L \in {Text("perhaps", Human(TimeLeft), <<>>), Text("left", Human(TimeLeft), <<>>)} /\ ~NeverExpires
  <2>1. CASE state = "signed-in" /\ NeverExpires
      BY <2>1 DEF Label
  <2>2. CASE state = "degraded" /\ NeverExpires
      BY <2>2 DEF Label
  <2>3. CASE state = "degraded" /\ ~NeverExpires
    <3>1. CASE TimeLeft <= 0
      <4>1. ~(TimeLeft > 0)
          BY <3>1, TimeLeftType
      <4> QED BY <2>3, <3>1, <4>1 DEF Label
    <3>2. CASE TimeLeft > 0
      <4>1. ~(TimeLeft <= 0)
          BY <3>2, TimeLeftType
      <4> QED BY <2>3, <3>2, <4>1 DEF Label
    <3> QED BY <1>2, <3>1, <3>2
  <2>4. CASE state = "expiring" \/ (state = "signed-in" /\ ~NeverExpires)
      BY <1>1, <2>4 DEF Label
  <2>5. CASE state = "signed-out"
      BY <2>5 DEF Label
  <2> QED BY <1>1, <2>1, <2>2, <2>3, <2>4, <2>5 DEF States
<1> HIDE DEF L
<1>4. CASE L \in {Plain("endless"), Plain("perhaps endless"), Plain("?"), Plain("login")}
  <2>1. PICK k \in {"endless", "perhaps endless", "?", "login"} : L = Text(k, NoTime, <<>>)
      BY <1>4 DEF Plain
  <2> QED BY <2>1 DEF L
<1>5. CASE /\ L \in {Text("perhaps", Human(TimeLeft), <<>>), Text("left", Human(TimeLeft), <<>>)}
           /\ ~NeverExpires
  <2>1. PICK k \in {"perhaps", "left"} : L = Text(k, Human(TimeLeft), <<>>)
      BY <1>5
  <2> QED BY <1>5, <2>1 DEF L
<1> QED BY <1>3, <1>4, <1>5

\* The tooltip is the label with a list.
LEMMA TooltipForm ==
    ASSUME NEW k, NEW t, NEW l, Label(TimeLeft) = Text(k, t, l)
    PROVE  \E m : Tooltip(TimeLeft) = Text(k, t, m)
<1>1. PICK m : Tooltip(TimeLeft) = [Label(TimeLeft) EXCEPT !.list = m]
    BY Zenon DEF Tooltip
<1>2. Tooltip(TimeLeft) = [Text(k, t, l) EXCEPT !.list = m]
    BY <1>1
<1>3. [Text(k, t, l) EXCEPT !.list = m] = Text(k, t, m)
    BY DEF Text
<1> QED BY <1>2, <1>3

\* No key is one that nothing has been remembered under.
LEMMA KeysAreNew ==
    ASSUME StatusInv
    PROVE  /\ \A f \in {"label", "tooltip", "icon", "who"} : Keys[f] \notin Unwritten
           /\ (PoliciesLine # Plain("")) = (state \in {"signed-in", "expiring"})
           /\ (ExpiresLine(TimeLeft) # Plain("")) = (state # "signed-out")
<1>1. state \in States
    BY DEF StatusInv
<1>3. \A k, t, l : k \notin {"", "none"} => Text(k, t, l) \notin Unwritten
    BY DEF Text, Plain, Unwritten
<1>4. PICK k, t, l : Label(TimeLeft) = Text(k, t, l) /\ k \notin {"", "none"}
    BY LabelForm
<1>5. PICK m : Tooltip(TimeLeft) = Text(k, t, m)
    BY <1>4, TooltipForm
<1>6. Label(TimeLeft) \notin Unwritten /\ Tooltip(TimeLeft) \notin Unwritten
    BY <1>3, <1>4, <1>5
<1>7. Plain(state) \notin Unwritten
    BY <1>1, <1>3 DEF Plain, States
<1>8. WhoLine \notin Unwritten
    BY <1>3, <1>7 DEF WhoLine
<1>9. \A f \in {"label", "tooltip", "icon", "who"} : Keys[f] \notin Unwritten
  <2>1. \A f \in {"label", "tooltip", "icon", "who"} : Keys[f] = View[f]
      BY KeyValues DEF Texts
  <2> QED BY <1>6, <1>7, <1>8, <2>1, ViewValues
<1>10. (PoliciesLine # Plain("")) = (state \in {"signed-in", "expiring"})
  <2>1. Text("policies", NoTime, <<Len(policies)>>) # Plain("")
      BY DEF Plain, Text
  <2>2. CASE Live
      BY <2>1, <2>2, Zenon DEF PoliciesLine, Live
  <2>3. CASE ~Live
    <3>1. PoliciesLine = Plain("")
        BY <2>3, Zenon DEF PoliciesLine
    <3>2. (PoliciesLine # Plain("")) = FALSE
        BY <3>1
    <3>3. (state \in {"signed-in", "expiring"}) = FALSE
        BY <2>3 DEF Live
    <3> QED BY <3>2, <3>3
  <2> QED BY <2>2, <2>3
<1>11. (ExpiresLine(TimeLeft) # Plain("")) = (state # "signed-out")
    BY <1>1 DEF ExpiresLine, Live, Plain, Text, States
<1> QED BY <1>9, <1>10, <1>11

\* After a rendering the screen is the view, however it was before.
LEMMA DrawIsView == ASSUME StatusInv, DrawnInv, Draw PROVE screen' = View
<1>1. screen' = [f \in Fields |-> IF Keys[f] # last[f] THEN View[f] ELSE screen[f]]
    BY DEF Draw
<1>2. \A f \in Texts : Keys[f] = last[f] => screen[f] = View[f]
    BY KeysAreNew, KeyValues, ViewValues DEF DrawnInv, Texts
<1>3. Keys["slots"] = last["slots"] => screen["slots"] = View["slots"]
    BY KeyValues, ViewValues DEF DrawnInv
<1>4. state \in States
    BY DEF StatusInv
<1>5. Keys["showPolicies"] = last["showPolicies"] => screen["showPolicies"] = View["showPolicies"]
    BY <1>4, KeysAreNew, KeyValues, ViewValues DEF DrawnInv
<1>6. \A f \in {"showExpires", "showLogout"} : Keys[f] = last[f] => screen[f] = View[f]
  <2>1. \A f \in {"showExpires", "showLogout"} : Keys[f] = state
      BY KeyValues
  <2>2. View["showExpires"] = (state # "signed-out") /\ View["showLogout"] = (state # "signed-out")
      BY KeysAreNew, ViewValues, Zenon
  <2>3. \A f \in {"showExpires", "showLogout"} :
          last[f] \in States => screen[f] = (last[f] # "signed-out")
      BY DEF DrawnInv
  <2> QED BY <1>4, <2>1, <2>2, <2>3, Zenon
<1>7. \A f \in Fields : Keys[f] = last[f] => screen[f] = View[f]
    BY <1>2, <1>3, <1>5, <1>6 DEF Fields, Texts
<1>8. screen' = [f \in Fields |-> View[f]]
    BY <1>1, <1>7
<1> QED BY <1>8, ViewValues

\* Renderings remember what they write.
LEMMA DrawDrawn == ASSUME StatusInv, DrawnInv, Draw PROVE DrawnInv'
<1>1. screen' = View /\ last' = Keys
    BY DrawIsView DEF Draw
<1>2. \A f \in Texts : View[f] = Keys[f]
    BY KeyValues
<1>3. \A list : Text("names", NoTime, policies) = Text("names", NoTime, list) => list = policies
    BY DEF Text
<1>4. (screen = [f \in Fields |-> screen[f]])'
    BY <1>1, ViewValues
<1>5. (\A list : last["slots"] = Text("names", NoTime, list) =>
                   screen["slots"] = Text("slots", NoTime, Slots(list)))'
    BY <1>1, <1>3, KeyValues, ViewValues
<1>6. /\ last'["showPolicies"] = state /\ screen'["showPolicies"] = (state \in {"signed-in", "expiring"})
      /\ \A f \in {"showExpires", "showLogout"} :
           last'[f] = state /\ screen'[f] = (state # "signed-out")
    BY <1>1, KeysAreNew, KeyValues, ViewValues
<1> QED BY <1>1, <1>2, <1>4, <1>5, <1>6 DEF DrawnInv, Texts

\* The screen and what is remembered of it change in a rendering only.
LEMMA NextDrawn == StatusInv /\ DrawnInv /\ ScreenIsCurrent /\ [ScreenNext]_svars =>
                       DrawnInv' /\ ScreenIsCurrent'
<1> SUFFICES ASSUME StatusInv, DrawnInv, ScreenIsCurrent, [ScreenNext]_svars
             PROVE  DrawnInv' /\ ScreenIsCurrent'
    OBVIOUS
<1>1. CASE RenderAll
  <2>1. UNCHANGED <<clock, about, expiresAt, latest, state, policies, left>>
      BY <1>1 DEF RenderAll, Render, status
  <2>2. View' = View
      BY <2>1 DEF View, Label, Tooltip, WhoLine, PoliciesLine, ExpiresLine, TimeLeft, Remaining,
                  NeverExpires, Live
  <2> QED BY <1>1, <2>2, DrawIsView, DrawDrawn DEF RenderAll, ScreenIsCurrent
<1>2. ASSUME UNCHANGED <<screen, last>>, rendered' = FALSE PROVE DrawnInv' /\ ScreenIsCurrent'
    BY <1>2 DEF DrawnInv, ScreenIsCurrent
<1>3. CASE Sleep
    BY <1>2, <1>3 DEF Sleep, Pass
<1>4. CASE ShowNone
    BY <1>2, <1>4 DEF ShowNone, PublishSignedOut
<1>5. ASSUME NEW s \in Sessions, ShowSession(s) PROVE DrawnInv' /\ ScreenIsCurrent'
    BY <1>2, <1>5 DEF ShowSession, Publish
<1>6. CASE UNCHANGED svars
  <2>1. View' = View
      BY <1>6 DEF View, Label, Tooltip, WhoLine, PoliciesLine, ExpiresLine, TimeLeft, Remaining,
                  NeverExpires, Live, svars, vars, status
  <2> QED BY <1>6, <2>1 DEF DrawnInv, ScreenIsCurrent, svars, vars
<1> QED BY <1>1, <1>3, <1>4, <1>5, <1>6 DEF ScreenNext

\* Writing changes only amounts to writing everything.
THEOREM ScreenCorrect == ScreenSpec => []ScreenIsCurrent
<1>1. ScreenInit => ScreenIsCurrent
    BY DEF ScreenInit, Init, ScreenIsCurrent
<1> QED BY <1>1, InitStatus, NextStatus, InitDrawn, NextDrawn, PTL DEF ScreenSpec

-----------------------------------------------------------------------------
(* What it says.                                                           *)

\* A text with a time in it has that which is left.
LEMMA ShownTimes ==
    ASSUME StatusInv, screen = View
    PROVE  \A t \in {screen.label, screen.tooltip, screen.expires} :
             t.kind \in {"left", "perhaps", "in"} => t.time = Human(TimeLeft) /\ ~NeverExpires
<1>1. PICK k, t, l :
        /\ Label(TimeLeft) = Text(k, t, l)
        /\ k \in {"left", "perhaps", "in"} => t = Human(TimeLeft) /\ ~NeverExpires
    BY LabelForm
<1>2. PICK m : Tooltip(TimeLeft) = Text(k, t, m)
    BY <1>1, TooltipForm
<1>3. \A x : Text(k, t, x).kind = k /\ Text(k, t, x).time = t
    BY DEF Text
<1>4. ExpiresLine(TimeLeft).kind \in {"left", "perhaps", "in"} =>
        ExpiresLine(TimeLeft).time = Human(TimeLeft) /\ ~NeverExpires
  <2>1. state \in States
      BY DEF StatusInv
  <2>2. ExpiresLine(TimeLeft) \in {Plain("never"), Plain("last known"), Plain("")}
        \/ (ExpiresLine(TimeLeft) = Text("in", Human(TimeLeft), <<>>) /\ ~NeverExpires)
    <3>1. CASE Live
        BY <3>1, Zenon DEF ExpiresLine, Live
    <3>2. CASE ~Live
        BY <2>1, <3>2 DEF ExpiresLine, Live, States
    <3> QED BY <3>1, <3>2
  <2>3. \A x : Plain(x).kind = x
      BY DEF Plain, Text
  <2>4. Text("in", Human(TimeLeft), <<>>).time = Human(TimeLeft)
      BY DEF Text
  <2>5. CASE ExpiresLine(TimeLeft) \in {Plain("never"), Plain("last known"), Plain("")}
    <3>1. ExpiresLine(TimeLeft).kind \in {"never", "last known", ""}
        BY <2>3, <2>5
    <3> QED BY <3>1
  <2>6. CASE ExpiresLine(TimeLeft) = Text("in", Human(TimeLeft), <<>>) /\ ~NeverExpires
      BY <2>4, <2>6
  <2> QED BY <2>2, <2>5, <2>6
<1>5. /\ screen.label = Label(TimeLeft) /\ screen.tooltip = Tooltip(TimeLeft)
      /\ screen.expires = ExpiresLine(TimeLeft)
    BY ViewValues
<1>6. /\ Label(TimeLeft).kind = k /\ Label(TimeLeft).time = t
      /\ Tooltip(TimeLeft).kind = k /\ Tooltip(TimeLeft).time = t
    BY <1>1, <1>2, <1>3
<1> QED BY <1>1, <1>4, <1>5, <1>6

\* The number shown is the time until the server ends the session, in whole
\* minutes.
THEOREM CountdownCorrect == ScreenSpec => []CountdownIsTrue
<1>1. StatusInv /\ ScreenIsCurrent => CountdownIsTrue
  <2> SUFFICES ASSUME StatusInv, ScreenIsCurrent, rendered, about # 0,
                      NEW t \in {screen.label, screen.tooltip, screen.expires},
                      t.kind \in {"left", "perhaps", "in"}
               PROVE  LET shown == t.time[1] * PerHour + t.time[2] * PerMinute
                          real == Max({ends - clock, 0})
                      IN  shown <= real /\ real < shown + PerMinute
      BY DEF CountdownIsTrue
  <2>1. t.time = Human(TimeLeft) /\ ~NeverExpires
      BY ShownTimes DEF ScreenIsCurrent
  <2>2. TimeLeft = Max({Remaining, 0}) /\ expiresAt # 0
      BY <2>1 DEF TimeLeft, NeverExpires
  <2>3. Max({Remaining, 0}) = Max({ends - clock, 0})
    <3>1. expiresAt \in Int /\ ends \in Nat /\ clock \in Nat
        BY DEF StatusInv, TypeInv, TypeOK
    <3>2. CASE expiresAt = ends
        BY <3>2 DEF Remaining
    <3>3. CASE expiresAt <= clock /\ ends <= clock
      <4>1. Remaining \in Int /\ Remaining <= 0 /\ ends - clock \in Int /\ ends - clock <= 0
          BY <3>1, <3>3 DEF Remaining
      <4>2. Max({Remaining, 0}) = 0 /\ Max({ends - clock, 0}) = 0
          BY <4>1, NotNegative
      <4> QED BY <4>2
    <3> QED BY <2>2, <3>2, <3>3 DEF StatusInv, TypeInv
  <2>4. TimeLeft \in Nat
      BY TimeLeftType
  <2> QED BY <2>1, <2>2, <2>3, <2>4, HumanIsTime
<1>2. ScreenInit => ScreenIsCurrent
    BY DEF ScreenInit, Init, ScreenIsCurrent
<1> QED BY <1>1, <1>2, InitStatus, NextStatus, InitDrawn, NextDrawn, PTL DEF ScreenSpec

\* A session without an end is shown as such, whatever ttl the server gave.
THEOREM EndlessCorrect == ScreenSpec => []EndlessIsNeverOver
<1>1. StatusInv /\ ScreenIsCurrent => EndlessIsNeverOver
  <2> SUFFICES ASSUME StatusInv, ScreenIsCurrent, rendered, about \in NeverExpire
               PROVE  /\ screen.label.kind \in {"endless", "perhaps endless"}
                      /\ screen.icon # Plain("expiring")
      BY DEF EndlessIsNeverOver
  <2>1. state \in {"signed-in", "degraded"}
      BY DEF StatusInv
  <2>2. NeverExpires
      BY WarningsAssumption DEF StatusInv, TypeInv, NeverExpires, NeverExpire
  <2>3. screen.label = Label(TimeLeft) /\ screen.icon = Plain(state)
      BY ViewValues DEF ScreenIsCurrent
  <2>4. Label(TimeLeft) \in {Plain("endless"), Plain("perhaps endless")}
      BY <2>1, <2>2 DEF Label
  <2>5. \A k : Plain(k).kind = k
      BY DEF Plain, Text
  <2>6. screen.icon.kind = state /\ Plain("expiring").kind = "expiring"
      BY <2>3, <2>5
  <2>7. screen.label.kind \in {"endless", "perhaps endless"}
      BY <2>3, <2>4, <2>5
  <2> QED BY <2>1, <2>6, <2>7
<1>2. ScreenInit => ScreenIsCurrent
    BY DEF ScreenInit, Init, ScreenIsCurrent
<1> QED BY <1>1, <1>2, InitStatus, NextStatus, InitDrawn, NextDrawn, PTL DEF ScreenSpec

-----------------------------------------------------------------------------
(* The list of policies.                                                   *)

\* Induction: a set of numbers with 0 and every successor is Nat.
LEMMA SetInduction ==
    ASSUME NEW T \in SUBSET Nat, 0 \in T, \A k \in T : k + 1 \in T
    PROVE  T = Nat
<1> SUFFICES ASSUME Nat \ T # {} PROVE FALSE
    OBVIOUS
<1> DEFINE Less == {p \in Nat \X Nat : p[1] < p[2]}
<1>1. IsWellFoundedOn(Less, Nat)
    BY NatLessThanWellFounded, Zenon DEF OpToRel
<1>2. \A m, n \in Nat : m < n => <<m, n>> \in Less
    OBVIOUS
<1> HIDE DEF Less
<1>3. PICK x \in Nat \ T : \A y \in Nat \ T : <<y, x>> \notin Less
    BY <1>1, WFMin
<1>4. x # 0 /\ x - 1 \in Nat /\ x - 1 < x
    OBVIOUS
<1>5. x - 1 \in T
    BY <1>2, <1>3, <1>4
<1>6. (x - 1) + 1 \in T
    BY <1>5
<1> QED BY <1>4, <1>6

\* One turn of the loop of LookupSelf.
Pick(list, p) == IF p = "default" \/ Contains(list, p) THEN list ELSE Append(list, p)

\* The loop over some of the places of a sequence, in terms of one place less.
Turns(it, seq, n) ==
    [s \in SUBSET (1..n) |-> IF s = {} THEN <<>> ELSE Pick(it[s \ {Max(s)}], seq[Max(s)])]

\* The largest of the numbers up to n is n.
LEMMA MaxIsLast == ASSUME NEW n \in Nat, NEW s \in SUBSET (1..n), n \in s PROVE Max(s) = n
<1>1. n \in s /\ \A y \in s : n >= y
    OBVIOUS
<1>2. \A m \in s : (\A y \in s : m >= y) => m = n
    BY <1>1
<1> QED BY <1>1, <1>2 DEF Max

\* The recursion of the fold has a solution.
LEMMA TurnsExist == ASSUME NEW seq, NEW n \in Nat PROVE \E it : it = Turns(it, seq, n)
<1> DEFINE T == {m \in Nat : \E it : it = Turns(it, seq, m)}
<1>1. 0 \in T
  <2> DEFINE it == [s \in SUBSET (1..0) |-> <<>>]
  <2>1. SUBSET (1..0) = {{}}
      OBVIOUS
  <2>2. it = Turns(it, seq, 0)
      BY <2>1 DEF Turns
  <2> QED BY <2>2
<1>2. ASSUME NEW m \in T PROVE m + 1 \in T
  <2>1. PICK f : f = Turns(f, seq, m)
      OBVIOUS
  <2> DEFINE g == [s \in SUBSET (1..(m+1)) |->
                      IF m + 1 \in s THEN Pick(f[s \ {m + 1}], seq[m + 1]) ELSE f[s]]
             h == Turns(g, seq, m + 1)
  <2>2. ASSUME NEW s \in SUBSET (1..(m+1)) PROVE g[s] = h[s]
    <3>1. CASE m + 1 \in s
      <4>1. Max(s) = m + 1 /\ s # {}
          BY <3>1, MaxIsLast
      <4>2. s \ {m + 1} \in SUBSET (1..(m+1)) /\ m + 1 \notin s \ {m + 1}
          OBVIOUS
      <4>3. g[s \ {m + 1}] = f[s \ {m + 1}]
          BY <4>2
      <4>4. h[s] = Pick(g[s \ {m + 1}], seq[m + 1])
          BY <4>1 DEF Turns
      <4> QED BY <3>1, <4>3, <4>4
    <3>2. CASE m + 1 \notin s
      <4> DEFINE x == Max(s)
      <4> HIDE DEF x
      <4>1. s \in SUBSET (1..m) /\ s \ {x} \in SUBSET (1..(m+1)) /\ m + 1 \notin s \ {x}
        <5>1. \A i \in s : i \in 1..m
            BY <3>2
        <5> QED BY <3>2, <5>1
      <4>2. g[s] = f[s] /\ g[s \ {x}] = f[s \ {x}]
          BY <3>2, <4>1
      <4>3. f[s] = IF s = {} THEN <<>> ELSE Pick(f[s \ {x}], seq[x])
          BY <2>1, <4>1 DEF Turns, x
      <4>4. h[s] = IF s = {} THEN <<>> ELSE Pick(g[s \ {x}], seq[x])
          BY DEF Turns, x
      <4> QED BY <4>2, <4>3, <4>4
    <3> QED BY <3>1, <3>2
  <2>3. g = [s \in SUBSET (1..(m+1)) |-> g[s]] /\ h = [s \in SUBSET (1..(m+1)) |-> h[s]]
      BY DEF Turns
  <2> HIDE DEF g, h
  <2>4. g = h
      BY <2>2, <2>3
  <2> QED BY <2>4 DEF h
<1>3. T = Nat
  <2> HIDE DEF T
  <2> QED BY <1>1, <1>2, SetInduction DEF T
<1> QED BY <1>3

\* made is what the loop has made after each of n turns.
Loop(made, seq, n) ==
    made[0] = <<>> /\ \A k \in 0..(n-1) : made[k+1] = Pick(made[k], seq[k+1])

\* LookupSelf goes through the names one by one, from none.
LEMMA MergeTurns ==
    ASSUME NEW an, NEW seq, NEW n,
           seq = an.policies \o an.identity_policies, n \in Nat, DOMAIN seq = 1..n
    PROVE  \E made : Loop(made, seq, n) /\ made[n] = Merge(an)
<1> DEFINE it == CHOOSE it : it = Turns(it, seq, n)
<1>1. it = Turns(it, seq, n)
    BY TurnsExist
<1>2. Merge(an) = it[1..n]
    BY DEF Merge, FoldLeft, MapThenFoldSet, Pick, Turns
<1> HIDE DEF it
<1>3. \A s \in SUBSET (1..n) : it[s] = IF s = {} THEN <<>> ELSE Pick(it[s \ {Max(s)}], seq[Max(s)])
    BY <1>1, Zenon DEF Turns
<1> DEFINE made == [k \in 0..n |-> it[1..k]]
<1>4. made[0] = <<>>
  <2>1. 1..0 = {} /\ 1..0 \in SUBSET (1..n)
      OBVIOUS
  <2>2. it[1..0] = <<>>
      BY <1>3, <2>1
  <2> QED BY <2>2
<1>5. ASSUME NEW k \in 0..(n-1) PROVE made[k+1] = Pick(made[k], seq[k+1])
  <2>1. 1..(k+1) \in SUBSET (1..n) /\ 1..(k+1) # {} /\ (1..(k+1)) \ {k+1} = 1..k
      OBVIOUS
  <2>2. Max(1..(k+1)) = k + 1
      BY MaxIsLast
  <2>3. it[1..(k+1)] = Pick(it[(1..(k+1)) \ {k+1}], seq[k+1])
      BY <1>3, <2>1, <2>2
  <2>4. it[1..(k+1)] = Pick(it[1..k], seq[k+1])
      BY <2>1, <2>3
  <2>5. k \in 0..n /\ k + 1 \in 0..n
      OBVIOUS
  <2>6. made[k] = it[1..k] /\ made[k+1] = it[1..(k+1)]
      BY <2>5
  <2> HIDE DEF made
  <2> QED BY <2>4, <2>6
<1>6. made[n] = it[1..n]
    OBVIOUS
<1> HIDE DEF made
<1>7. Loop(made, seq, n)
    BY <1>4, <1>5 DEF Loop
<1> QED BY <1>2, <1>6, <1>7

Names == Policies \union {"default"}

\* One turn adds a name to the list, unless it is there or is "default".
LEMMA PickAdds ==
    ASSUME NEW G \in SUBSET Policies, NEW list \in Seq(Policies), NEW p \in Names,
           ToSet(list) = G, IsInjective(list)
    PROVE  /\ Pick(list, p) \in Seq(Policies) /\ IsInjective(Pick(list, p))
           /\ ToSet(Pick(list, p)) = (G \union {p}) \ {"default"}
<1>1. "default" \notin Policies
    BY ScreenAssumption
<1>2. CASE p = "default"
    BY <1>1, <1>2 DEF Pick
<1>3. CASE p # "default" /\ Contains(list, p)
  <2>1. p \in G
      BY <1>3 DEF Contains, ToSet
  <2> QED BY <1>1, <1>3, <2>1 DEF Pick
<1>4. CASE p # "default" /\ ~Contains(list, p)
  <2> DEFINE new == Append(list, p)
  <2>1. p \in Policies /\ Pick(list, p) = new
      BY <1>4 DEF Pick, Names
  <2>2. /\ new \in Seq(Policies) /\ Len(new) = Len(list) + 1 /\ Len(list) \in Nat
        /\ new[Len(list) + 1] = p /\ \A i \in 1..Len(list) : new[i] = list[i]
        /\ DOMAIN list = 1..Len(list) /\ DOMAIN new = 1..(Len(list) + 1)
      BY <2>1
  <2> HIDE DEF new
  <2>3. \A i \in 1..Len(list) : list[i] # p
      BY <1>4 DEF Contains
  <2>4. IsInjective(new)
    <3>1. \A i, j \in DOMAIN list : list[i] = list[j] => i = j
        BY DEF IsInjective
    <3>2. \A i, j \in DOMAIN new : new[i] = new[j] => i = j
        BY <2>2, <2>3, <3>1
    <3> QED BY <3>2 DEF IsInjective
  <2>5. ToSet(new) = G \union {p}
    <3>1. ToSet(new) \subseteq G \union {p}
        BY <2>2 DEF ToSet
    <3>2. \A x \in G : \E i \in 1..Len(list) : x = list[i]
        BY <2>2 DEF ToSet
    <3>3. G \subseteq ToSet(new)
      <4> SUFFICES ASSUME NEW x \in G PROVE \E i \in DOMAIN new : new[i] = x
          BY DEF ToSet
      <4>1. PICK i \in 1..Len(list) : x = list[i]
          BY <3>2
      <4> QED BY <2>2, <4>1
    <3>4. p \in ToSet(new)
        BY <2>2 DEF ToSet
    <3> QED BY <3>1, <3>3, <3>4
  <2> QED BY <1>1, <1>4, <2>1, <2>2, <2>4, <2>5
<1> QED BY <1>2, <1>3, <1>4

\* LookupSelf lists the policies of an answer, each once, wherever they are in
\* it and however often.
THEOREM MergeIsTheSet ==
    ASSUME NEW an \in Answers
    PROVE  /\ Merge(an) \in Seq(Policies) /\ IsInjective(Merge(an))
           /\ ToSet(Merge(an)) = ToSet(an.policies \o an.identity_policies) \ {"default"}
<1> DEFINE seq == an.policies \o an.identity_policies
           n == Len(seq)
<1>1. an.policies \in Seq(Names) /\ an.identity_policies \in Seq(Names) /\ "default" \notin Policies
    BY ScreenAssumption DEF Names
<1>2. seq \in Seq(Names)
    BY <1>1
<1>3. seq = an.policies \o an.identity_policies
    OBVIOUS
<1> HIDE DEF seq
<1>4. n \in Nat /\ DOMAIN seq = 1..n /\ \A i \in 1..n : seq[i] \in Names
    BY <1>2
<1> HIDE DEF n
<1>5. PICK made : Loop(made, seq, n) /\ made[n] = Merge(an)
    BY <1>3, <1>4, MergeTurns
<1> DEFINE Seen(k) == {seq[i] : i \in 1..k} \ {"default"}
           Good(k) == /\ made[k] \in Seq(Policies) /\ IsInjective(made[k])
                      /\ ToSet(made[k]) = Seen(k)
           T == {k \in Nat : k <= n => Good(k)}
<1>6. Good(0)
  <2>1. Seen(0) = {} /\ <<>> \in Seq(Policies) /\ ToSet(<<>>) = {} /\ IsInjective(<<>>)
      BY DEF ToSet, IsInjective
  <2> QED BY <1>5, <2>1 DEF Loop
<1>7. ASSUME NEW k \in Nat, k + 1 <= n, Good(k) PROVE Good(k + 1)
  <2>1. k \in 0..(n-1) /\ k + 1 \in 1..n
      BY <1>4, <1>7
  <2>2. seq[k+1] \in Names /\ made[k+1] = Pick(made[k], seq[k+1])
      BY <1>4, <1>5, <2>1 DEF Loop
  <2>3. Seen(k) \in SUBSET Policies
    <3>1. \A i \in 1..k : seq[i] \in Names
        BY <1>4, <2>1
    <3> QED BY <3>1 DEF Names
  <2>4. Seen(k+1) = (Seen(k) \union {seq[k+1]}) \ {"default"}
    <3>1. 1..(k+1) = (1..k) \union {k+1}
        OBVIOUS
    <3> QED BY <3>1
  <2> HIDE DEF Seen
  <2>5. made[k] \in Seq(Policies) /\ IsInjective(made[k]) /\ ToSet(made[k]) = Seen(k)
      BY <1>7
  <2>6. /\ Pick(made[k], seq[k+1]) \in Seq(Policies) /\ IsInjective(Pick(made[k], seq[k+1]))
        /\ ToSet(Pick(made[k], seq[k+1])) = (Seen(k) \union {seq[k+1]}) \ {"default"}
      BY <2>2, <2>3, <2>5, PickAdds
  <2> QED BY <2>2, <2>4, <2>6
<1> HIDE DEF Good
<1>8. T = Nat
  <2>1. 0 \in T
      BY <1>6
  <2>2. ASSUME NEW k \in T PROVE k + 1 \in T
      BY <1>4, <1>7
  <2> HIDE DEF T
  <2>3. T \in SUBSET Nat
      BY DEF T
  <2> QED BY <2>1, <2>2, <2>3, SetInduction
<1>9. Good(n)
    BY <1>4, <1>8
<1>10. Seen(n) = ToSet(seq) \ {"default"}
    BY <1>4 DEF ToSet
<1> QED BY <1>3, <1>5, <1>9, <1>10 DEF Good

-----------------------------------------------------------------------------
(* The rows of the submenu.                                                *)

\* A list in which nothing is twice is as long as it has elements.
LEMMA ListSize ==
    ASSUME NEW list \in Seq(Policies), IsInjective(list)
    PROVE  Cardinality(ToSet(list)) = Len(list)
<1> DEFINE n == Len(list)
           G == ToSet(list)
<1>1. n \in Nat /\ DOMAIN list = 1..n /\ list \in [1..n -> Policies]
    OBVIOUS
<1>2. list \in [1..n -> G]
    BY <1>1 DEF ToSet
<1>3. \A i, j \in 1..n : list[i] = list[j] => i = j
    BY <1>1 DEF IsInjective
<1>4. \A g \in G : \E i \in 1..n : list[i] = g
    BY <1>1 DEF ToSet
<1> HIDE DEF n, G
<1>5. list \in Bijection(1..n, G)
    BY <1>2, <1>3, <1>4 DEF Bijection, Injection, Surjection, IsInjective
<1>6. IsFiniteSet(1..n) /\ Cardinality(1..n) = n
    BY <1>1, FS_Interval
<1>7. ExistsBijection(1..n, G)
    BY <1>5 DEF ExistsBijection
<1>8. Cardinality(G) = n
    BY <1>6, <1>7, FS_Bijection
<1> QED BY <1>8 DEF n, G

\* policySlots, in as many rows as there are, leaves none out untold.
LEMMA SlotsAccount ==
    ASSUME NEW list \in Seq(Policies), IsInjective(list)
    PROVE  LET rows == Slots(list)
               named == {i \in DOMAIN rows : rows[i] \in ToSet(list)}
               rest == IF named = DOMAIN rows THEN 0 ELSE rows[Len(rows)]
           IN  /\ Len(rows) <= PolicySlots
               /\ \A i, j \in named : rows[i] = rows[j] => i = j
               /\ DOMAIN rows \ named \subseteq {Len(rows)}
               /\ Cardinality(named) + rest = Cardinality(ToSet(list))
               /\ rest # 1
<1> DEFINE rows == Slots(list)
           named == {i \in DOMAIN rows : rows[i] \in ToSet(list)}
           rest == IF named = DOMAIN rows THEN 0 ELSE rows[Len(rows)]
           n == Len(list)
<1>1. n \in Nat /\ DOMAIN list = 1..n
    OBVIOUS
<1>2. \A i \in 1..n : list[i] \in Policies /\ list[i] \in ToSet(list)
    BY <1>1 DEF ToSet
<1>3. \A i, j \in 1..n : list[i] = list[j] => i = j
    BY <1>1 DEF IsInjective
<1>4. Cardinality(ToSet(list)) = n
    BY ListSize
<1>5. PolicySlots \in Nat /\ PolicySlots > 0
    BY ScreenAssumption
<1>6. \A m \in Nat : Cardinality(1..m) = m
    BY FS_Interval
<1>7. CASE n <= PolicySlots
  <2>1. rows = list
      BY <1>7 DEF Slots
  <2> HIDE DEF rows
  <2>2. named = 1..n /\ DOMAIN rows = 1..n
      BY <1>1, <1>2, <2>1
  <2>3. rest = 0
      BY <2>2
  <2> HIDE DEF named, rest
  <2>4. Cardinality(named) = n
      BY <1>1, <1>6, <2>2
  <2>5. Len(rows) <= PolicySlots
      BY <1>7, <2>1
  <2>6. \A i, j \in named : rows[i] = rows[j] => i = j
      BY <1>3, <2>1, <2>2
  <2>7. Cardinality(named) + rest = Cardinality(ToSet(list))
      BY <1>1, <1>4, <2>3, <2>4
  <2> QED BY <2>2, <2>3, <2>5, <2>6, <2>7 DEF rows, named, rest
<1>8. CASE n > PolicySlots
  <2> DEFINE p == PolicySlots - 1
             first == SubSeq(list, 1, p)
  <2>1. p \in Nat /\ p < n /\ PolicySlots = p + 1 /\ n - p \in Nat /\ n - p >= 2
      BY <1>1, <1>5, <1>8
  <2>2. rows = Append(first, n - p)
      BY <1>1, <1>5, <1>8 DEF Slots
  <2> HIDE DEF rows, p
  <2>3. first \in Seq(Policies) /\ Len(first) = p /\ \A i \in 1..p : first[i] = list[i]
      BY <1>1, <1>2, <2>1
  <2> HIDE DEF first
  <2>4. /\ Len(rows) = p + 1 /\ DOMAIN rows = 1..(p+1)
        /\ rows[p+1] = n - p /\ \A i \in 1..p : rows[i] = list[i]
      BY <2>1, <2>2, <2>3
  <2>5. n - p \notin ToSet(list)
    <3>1. ToSet(list) \subseteq Policies
        BY <1>1, <1>2 DEF ToSet
    <3> QED BY <2>1, <3>1, ScreenAssumption
  <2>6. named = 1..p
      BY <1>2, <2>1, <2>4, <2>5
  <2>7. DOMAIN rows = named \union {p + 1} /\ p + 1 \notin named
      BY <2>1, <2>4, <2>6
  <2>8. rest = n - p
      BY <2>4, <2>7
  <2> HIDE DEF named, rest, n
  <2>9. Cardinality(named) = p
      BY <1>6, <2>1, <2>6
  <2>10. \A i, j \in named : rows[i] = rows[j] => i = j
      BY <1>1, <1>3, <2>1, <2>4, <2>6
  <2>11. Cardinality(named) + rest = Cardinality(ToSet(list))
      BY <1>1, <1>4, <2>1, <2>8, <2>9
  <2> QED BY <2>1, <2>4, <2>7, <2>8, <2>10, <2>11 DEF rows, named, rest
<1> QED BY <1>1, <1>5, <1>7, <1>8

\* The names in the status are those of the session, each once.
ListInv ==
    policies \in Seq(Policies) /\ IsInjective(policies) /\ ToSet(policies) = granted

\* No names at first.
LEMMA InitList == ScreenInit => ListInv
<1>1. <<>> \in Seq(Policies) /\ IsInjective(<<>>) /\ ToSet(<<>>) = {}
    BY DEF IsInjective, ToSet
<1> QED BY <1>1 DEF ScreenInit, ListInv

\* Every status comes with the names of its answer.
LEMMA NextList == ListInv /\ [ScreenNext]_svars => ListInv'
<1> SUFFICES ASSUME ListInv, [ScreenNext]_svars PROVE ListInv'
    OBVIOUS
<1>1. CASE UNCHANGED <<policies, granted>>
    BY <1>1 DEF ListInv
<1>2. CASE ShowNone
  <2>1. <<>> \in Seq(Policies) /\ IsInjective(<<>>) /\ ToSet(<<>>) = {}
      BY DEF IsInjective, ToSet
  <2> QED BY <1>2, <2>1 DEF ShowNone, ListInv
<1>3. ASSUME NEW s \in Sessions, ShowSession(s) PROVE ListInv'
  <2>1. PICK an \in Answers :
          /\ policies' = Merge(an)
          /\ granted' = ToSet(an.policies \o an.identity_policies) \ {"default"}
      BY <1>3 DEF ShowSession
  <2> QED BY <2>1, MergeIsTheSet DEF ListInv
<1>4. CASE RenderAll \/ Sleep \/ UNCHANGED svars
    BY <1>1, <1>4 DEF RenderAll, Sleep, svars, status
<1> QED BY <1>2, <1>3, <1>4 DEF ScreenNext

\* Every policy of the session is in the submenu, by name or in the number of
\* those that did not fit, and none is there twice.
THEOREM PoliciesCorrect == ScreenSpec => []PoliciesAccountedFor
<1>1. ListInv /\ ScreenIsCurrent => PoliciesAccountedFor
  <2> SUFFICES ASSUME ListInv, screen = View PROVE PoliciesAccountedFor
      BY DEF PoliciesAccountedFor, ScreenIsCurrent
  <2>1. screen.slots.list = Slots(policies)
    <3>1. Text("slots", NoTime, Slots(policies)).list = Slots(policies)
        BY DEF Text
    <3> QED BY <3>1, ViewValues
  <2>2. LET rows == Slots(policies)
            named == {i \in DOMAIN rows : rows[i] \in ToSet(policies)}
            rest == IF named = DOMAIN rows THEN 0 ELSE rows[Len(rows)]
        IN  /\ \A i, j \in named : rows[i] = rows[j] => i = j
            /\ DOMAIN rows \ named \subseteq {Len(rows)}
            /\ Cardinality(named) + rest = Cardinality(ToSet(policies))
            /\ rest # 1
      BY SlotsAccount DEF ListInv
  <2>3. ToSet(policies) = granted
      BY DEF ListInv
  <2> HIDE DEF ListInv
  <2> QED BY <2>1, <2>2, <2>3 DEF PoliciesAccountedFor
<1>2. ScreenInit => ScreenIsCurrent
    BY DEF ScreenInit, Init, ScreenIsCurrent
<1> QED BY <1>1, <1>2, InitStatus, NextStatus, InitDrawn, NextDrawn, InitList, NextList, PTL
       DEF ScreenSpec

\* The menu never has more rows than were made for it.
RowsInv ==
    /\ last = [g \in Fields |-> last[g]]
    /\ Len(screen["slots"].list) <= PolicySlots

\* The submenu is made empty.
LEMMA InitRows == ScreenInit => RowsInv
<1> SUFFICES ASSUME ScreenInit PROVE RowsInv
    OBVIOUS
<1>1. last = [g \in Fields |-> last[g]]
    BY Zenon DEF ScreenInit
<1>2. screen["slots"] = Text("slots", NoTime, <<>>)
    BY DEF ScreenInit, Fields
<1>3. Text("slots", NoTime, <<>>).list = <<>>
    BY DEF Text
<1> QED BY <1>1, <1>2, <1>3, ScreenAssumption DEF RowsInv

\* Every rendering fits the rows there are.
LEMMA NextRows == StatusInv /\ DrawnInv /\ ListInv /\ RowsInv /\ [ScreenNext]_svars => RowsInv'
<1> SUFFICES ASSUME StatusInv, DrawnInv, ListInv, RowsInv, [ScreenNext]_svars PROVE RowsInv'
    OBVIOUS
<1>1. CASE RenderAll
  <2>1. screen' = View /\ last' = Keys
      BY <1>1, DrawIsView DEF RenderAll, Draw
  <2>2. Keys = [g \in Fields |-> Keys[g]]
      BY ViewValues, Zenon DEF Keys
  <2>3. View["slots"] = Text("slots", NoTime, Slots(policies))
      BY ViewValues
  <2>4. Text("slots", NoTime, Slots(policies)).list = Slots(policies)
      BY DEF Text
  <2>5. Len(Slots(policies)) <= PolicySlots
      BY SlotsAccount DEF ListInv
  <2> QED BY <2>1, <2>2, <2>3, <2>4, <2>5 DEF RowsInv
<1>2. CASE UNCHANGED <<screen, last>>
    BY <1>2 DEF RowsInv
<1> QED BY <1>1, <1>2 DEF ScreenNext, Sleep, ShowNone, ShowSession, svars

\* The status and the screen have their types.
THEOREM ScreenTypeCorrect == ScreenSpec => []ScreenTypeOK
<1>1. StatusInv /\ DrawnInv /\ ListInv /\ RowsInv => ScreenTypeOK
  <2> SUFFICES ASSUME StatusInv, DrawnInv, ListInv, RowsInv PROVE ScreenTypeOK
      OBVIOUS
  <2>1. policies \in Seq(granted)
    <3>1. \A i \in 1..Len(policies) : policies[i] \in ToSet(policies)
        BY DEF ListInv, ToSet
    <3> QED BY <3>1 DEF ListInv
  <2>2. DOMAIN screen = Fields /\ DOMAIN last = Fields
      BY DEF DrawnInv, RowsInv
  <2> QED BY <2>1, <2>2 DEF ScreenTypeOK, StatusInv, TypeInv, States, RowsInv
<1>2. ScreenInit => ScreenIsCurrent
    BY DEF ScreenInit, Init, ScreenIsCurrent
<1> QED BY <1>1, <1>2, InitStatus, NextStatus, InitDrawn, NextDrawn, InitList, NextList,
           InitRows, NextRows, PTL DEF ScreenSpec

=============================================================================
