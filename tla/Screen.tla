------------------------------- MODULE Screen -------------------------------
(***************************************************************************)
(* What the user sees: render (internal/tray/tray.go), which writes to the *)
(* icon and the menu only what has changed since it last wrote it, the     *)
(* texts it writes (internal/tray/format.go), the status they come from    *)
(* (internal/bao/client.go, poller.go, state.go), and Warnings, whose      *)
(* notifications are the end of the same function.                         *)
(*                                                                         *)
(* A text is a record of what it says: [kind, time, list], with NoTime and *)
(* <<>> where it has no time or list in it.                                *)
(***************************************************************************)
EXTENDS Warnings, SequencesExt

CONSTANTS
    Warn,        \* BAOBAR_WARN, the poller's warning window
    Policies,    \* the names of policies, other than "default"
    Answers,     \* what lookup-self may say of policies: [policies, identity_policies]
    PolicySlots, \* size of the submenu
    PerMinute, PerHour

ASSUME ScreenAssumption ==
    /\ "default" \notin Policies /\ Policies \cap Nat = {}
    /\ \A a \in Answers : /\ a.policies \in Seq(Policies \union {"default"})
                         /\ a.identity_policies \in Seq(Policies \union {"default"})
    /\ Warn \in Nat /\ PolicySlots \in Nat \ {0}
    /\ PerMinute \in Nat \ {0} /\ PerHour \in Nat \ {0} /\ PerHour % PerMinute = 0

VARIABLES
    state,    \* the rest of the status: State,
    policies, \* Policies,
    left,     \* Remaining, as it was when the status was made
    screen,   \* title, tooltip, icon, rows and submenu
    last,     \* what render compares with: lastLabel, lastTooltip, ...
    granted   \* history: the policies that the answer was about

status == <<state, policies, left, granted>>
svars == <<vars, status, screen, last>>

NoTime == <<0, 0>>
Text(kind, time, list) == [kind |-> kind, time |-> time, list |-> list]
Plain(kind) == Text(kind, NoTime, <<>>)

-----------------------------------------------------------------------------
(* The status.                                                             *)

\* LookupSelf: the token's policies, then those of its identity, each once,
\* and "default" never.
Merge(a) ==
    FoldLeft(LAMBDA list, p : IF p = "default" \/ Contains(list, p) THEN list ELSE Append(list, p),
             <<>>, a.policies \o a.identity_policies)

\* Classify, with the server reached or not.
Classify(remaining) ==
    CASE remaining <= 0 -> {"signed-out"}
      [] remaining > 0 /\ remaining <= Warn -> {"expiring", "degraded"}
      [] OTHER -> {"signed-in", "degraded"}

\* statusFrom.
ShowSession(s) ==
    /\ Publish(s)
    /\ \E a \in Answers :
         /\ policies' = Merge(a)
         /\ granted' = ToSet(a.policies \o a.identity_policies) \ {"default"}
    /\ IF expiresAt' = 0
       THEN state' \in {"signed-in", "degraded"} /\ left' = 0
       ELSE state' \in Classify(expiresAt' - clock) /\ left' = Max({expiresAt' - clock, 0})
    /\ UNCHANGED <<screen, last>>

\* No session: signed out, or not known because the server cannot be reached.
ShowNone ==
    /\ PublishSignedOut
    /\ state' \in {"signed-out", "degraded"}
    /\ policies' = <<>> /\ left' = 0 /\ granted' = {}
    /\ UNCHANGED <<screen, last>>

NeverExpires == about # 0 /\ expiresAt = 0

-----------------------------------------------------------------------------
(* format.go.                                                              *)

\* Hours and minutes, both rounded down.
Human(d) == <<d \div PerHour, (d \div PerMinute) % (PerHour \div PerMinute)>>

Label(d) ==
    CASE state = "signed-in" /\ NeverExpires -> Plain("endless")
      [] state = "degraded" /\ NeverExpires -> Plain("perhaps endless")
      [] state = "degraded" /\ ~NeverExpires /\ d <= 0 -> Plain("?")
      [] state = "degraded" /\ ~NeverExpires /\ d > 0 -> Text("perhaps", Human(d), <<>>)
      [] state = "expiring" \/ (state = "signed-in" /\ ~NeverExpires) -> Text("left", Human(d), <<>>)
      [] state = "signed-out" -> Plain("login")

Tooltip(d) == [Label(d) EXCEPT !.list = IF state \in {"signed-in", "expiring"} THEN policies ELSE <<>>]

\* MenuLines.  The name is that of the session.
Live == state \in {"signed-in", "expiring"}
WhoLine == IF Live THEN Text("signed in as", NoTime, <<about>>) ELSE Plain(state)
PoliciesLine == IF Live THEN Text("policies", NoTime, <<Len(policies)>>) ELSE Plain("")
ExpiresLine(d) ==
    CASE Live /\ NeverExpires -> Plain("never")
      [] Live /\ ~NeverExpires -> Text("in", Human(d), <<>>)
      [] state = "degraded" -> Plain("last known")
      [] state = "signed-out" -> Plain("")

\* Slip: what does not fit is left out.
SlotsTruncated(list) == SubSeq(list, 1, Min({Len(list), PolicySlots}))

\* Slip: the last slot is not given up for the rest.
SlotsOverflow(list) ==
    IF Len(list) <= PolicySlots THEN list
    ELSE Append(SubSeq(list, 1, PolicySlots), Len(list) - PolicySlots)

\* policySlots: the last slot tells how many names it stands for.
Slots(list) ==
    IF Len(list) <= PolicySlots THEN list
    ELSE Append(SubSeq(list, 1, PolicySlots - 1), Len(list) - (PolicySlots - 1))

-----------------------------------------------------------------------------
(* render.                                                                 *)

\* Slip: the Remaining that the status came with.
TimeLeftStale == left

\* Counted down from the expiry, for the poll goroutine may be waiting.
TimeLeft == IF ~NeverExpires /\ expiresAt # 0 THEN Max({Remaining, 0}) ELSE left

Fields == {"label", "tooltip", "icon", "who", "policies", "expires", "slots",
           "showPolicies", "showExpires", "showLogout"}

\* Everything as it would be written on an empty screen.
View ==
    [label |-> Label(TimeLeft), tooltip |-> Tooltip(TimeLeft), icon |-> Plain(state),
     who |-> WhoLine, policies |-> PoliciesLine, expires |-> ExpiresLine(TimeLeft),
     slots |-> Text("slots", NoTime, Slots(policies)),
     showPolicies |-> PoliciesLine # Plain(""), showExpires |-> ExpiresLine(TimeLeft) # Plain(""),
     showLogout |-> state # "signed-out"]

\* Slip: the submenu is filled when its label changes.
KeysByLabel ==
    [View EXCEPT !.slots = PoliciesLine, !.showPolicies = state, !.showExpires = state,
                 !.showLogout = state]

\* What each part of the screen is kept up by: its own text, save for the
\* submenu, which goes by the names, and what is shown or hidden, by the state.
Keys ==
    [View EXCEPT !.slots = Text("names", NoTime, policies), !.showPolicies = state,
                 !.showExpires = state, !.showLogout = state]

Draw ==
    /\ screen' = [f \in Fields |-> IF Keys[f] # last[f] THEN View[f] ELSE screen[f]]
    /\ last' = Keys

RenderAll == Render /\ Draw /\ UNCHANGED status

Sleep == Pass /\ UNCHANGED <<status, screen, last>>

\* The menu as onReadyNormal makes it, an empty holder, and last... as uiLoop
\* declares them.
ScreenInit ==
    /\ Init
    /\ state = "signed-out" /\ policies = <<>> /\ left = 0 /\ granted = {}
    /\ screen = [f \in Fields |->
                    CASE f \in {"label", "tooltip", "icon"} -> Plain("start")
                      [] f = "who" -> Plain("signed-out")
                      [] f \in {"policies", "expires"} -> Plain("")
                      [] f = "slots" -> Text("slots", NoTime, <<>>)
                      [] OTHER -> TRUE]
    /\ last = [f \in Fields |->
                    CASE f = "slots" -> Text("names", NoTime, <<>>)
                      [] f \in {"showPolicies", "showExpires", "showLogout"} -> "none"
                      [] f = "icon" -> Plain("none")
                      [] OTHER -> Plain("")]

ScreenNext == RenderAll \/ Sleep \/ ShowNone \/ \E s \in Sessions : ShowSession(s)

ScreenSpec == ScreenInit /\ [][ScreenNext]_svars

-----------------------------------------------------------------------------
\* The submenu has no more rows than were made for it.
ScreenTypeOK ==
    /\ TypeOK
    /\ state \in {"signed-in", "expiring", "degraded", "signed-out"}
    /\ policies \in Seq(granted) /\ left \in Nat
    /\ DOMAIN screen = Fields /\ DOMAIN last = Fields
    /\ Len(screen.slots.list) <= PolicySlots

\* Writing changes only amounts to writing everything: whatever statuses came
\* in between, the screen is what the last one rendered would have made of an
\* empty one (tray.go:278, 297).
ScreenIsCurrent == rendered => screen = View

\* The number on the icon, and in the menu, is the time until the server ends
\* the session, as it last said, in a time or in a ttl, rounded down to a
\* minute, however long the poll goroutine has been waiting (tray.go:257).
CountdownIsTrue ==
    rendered /\ about # 0 =>
        \A t \in {screen.label, screen.tooltip, screen.expires} :
            t.kind \in {"left", "perhaps", "in"} =>
                LET shown == t.time[1] * PerHour + t.time[2] * PerMinute
                    real == Max({ends - clock, 0})
                IN  shown <= real /\ real < shown + PerMinute

\* A session without an end in sight is shown as such, and never as over or
\* about to end, however large the ttl that says so (client.go:96).
EndlessIsNeverOver ==
    rendered /\ about \in NeverExpire =>
        screen.label.kind \in {"endless", "perhaps endless"} /\ screen.icon # Plain("expiring")

\* Every policy of the session is in the submenu, once, by its name or in the
\* number in the last row, which stands for more than one, wherever the server
\* has put it in its answer (format.go:124, "truncating without telling the
\* user").
PoliciesAccountedFor ==
    rendered /\ Live =>
        LET rows == screen.slots.list
            named == {i \in DOMAIN rows : rows[i] \in granted}
            rest == IF named = DOMAIN rows THEN 0 ELSE rows[Len(rows)]
        IN  /\ \A i, j \in named : rows[i] = rows[j] => i = j
            /\ DOMAIN rows \ named \subseteq {Len(rows)}
            /\ Cardinality(named) + rest = Cardinality(granted)
            /\ rest # 1

=============================================================================
