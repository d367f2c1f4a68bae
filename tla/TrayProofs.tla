----------------------------- MODULE TrayProofs -----------------------------
(* Theorems about Tray, for any number of goroutines.                      *)
EXTENDS Tray, TLAPS

\* The slot's holder is the one goroutine in a flow; as long as the items are
\* disabled somebody is on the way to loginDone.  A goroutine refused with
\* ErrBusy may be the one that disabled them, but then the holder of the slot
\* has its signal still to send.
Inv == TypeOK /\ NoStuckMenu /\ OneFlow

\* A login goroutine's move leaves the other goroutines where they are.
LEMMA MoveType ==
    ASSUME TypeOK, NEW g \in Logins, NEW a,
           NEW b \in {"none", "start", "flow", "save", "force", "signal", "kick"},
           Move(g, a, b)
    PROVE  /\ login'[g] = b /\ login[g] = a
           /\ \A h \in Logins \ {g} : login'[h] = login[h]
           /\ login' \in [Logins -> {"none", "start", "flow", "save", "force",
                                     "signal", "kick"}]
BY DEF Move, TypeOK

\* The tray starts with the items enabled and no goroutine.
LEMMA InitInv == Init => Inv
<1> SUFFICES ASSUME Init PROVE Inv
    OBVIOUS
<1>1. enabled \in BOOLEAN /\ forceNext \in BOOLEAN /\ failed \in BOOLEAN
    BY Zenon DEF Init
<1>2. NoStuckMenu
    BY Zenon DEF Init, NoStuckMenu
<1>3. OneFlow
    BY GoroutineAssumption DEF Init, OneFlow
<1> QED BY <1>1, <1>2, <1>3, GoroutineAssumption DEF Init, Inv, TypeOK, Items, NoVersion

\* Steps that touch neither the login goroutines nor the menu.
LEMMA AsideStep ==
    ASSUME Inv, UNCHANGED <<enabled, loginDone, slot, login>>, TypeOK'
    PROVE  Inv'
BY DEF Inv, NoStuckMenu, OneFlow

\* The poll goroutine keeps the types.
LEMMA PollType == ASSUME TypeOK, Poll PROVE TypeOK'
<1> USE DEF TypeOK, menu
<1>1. CASE PollReads
    BY <1>1, GoroutineAssumption DEF PollReads, NoVersion
<1>2. CASE PollDecides
    <2>1. forceNext' \in BOOLEAN
        BY <1>2, Zenon DEF PollDecides
    <2> QED BY <1>2, <2>1 DEF PollDecides
<1>3. CASE PollAnswers
    <2>1. failed' \in BOOLEAN
        BY <1>3, Zenon DEF PollAnswers
    <2> QED BY <1>3, <2>1 DEF PollAnswers
<1>6. CASE PollFails
    <2>1. seen \in 0..MaxVersion
        BY <1>6 DEF PollFails
    <2>2. holder' \in (0..MaxVersion) \union {NoVersion}
        BY <1>6, <2>1, GoroutineAssumption DEF PollFails, NoVersion
    <2>3. failed' \in BOOLEAN
        BY <1>6, Zenon DEF PollFails
    <2> QED BY <1>6, <2>2, <2>3 DEF PollFails
<1>4. CASE PollTick
    BY <1>4 DEF PollTick
<1>5. CASE PollRefreshed
    BY <1>5 DEF PollRefreshed
<1> QED BY <1>1, <1>2, <1>3, <1>4, <1>5, <1>6 DEF Poll, Status

\* Every step keeps somebody on the way to loginDone and the slot exact.
LEMMA NextInv == Inv /\ [Next]_vars => Inv'
<1> SUFFICES ASSUME Inv, [Next]_vars PROVE Inv'
    OBVIOUS
<1>0. TypeOK
    BY DEF Inv
<1>1. CASE UNCHANGED vars
    BY <1>1 DEF vars, menu, poller, Inv, TypeOK, NoStuckMenu, OneFlow
<1>2. ASSUME NEW m \in Items, Click(m) \/ DropClick(m) PROVE Inv'
    BY <1>2, AsideStep, <1>0 DEF Click, DropClick, TypeOK, poller
<1>3. ASSUME NEW m \in Items, NEW g \in Logins, LoginClicked(m, g) PROVE Inv'
    <2>1. Move(g, "none", "start") /\ UNCHANGED <<loginDone, slot, refresh, logout, version, poller>>
        BY <1>3 DEF LoginClicked, Move
    <2>2. queued' \subseteq Items /\ enabled' \in BOOLEAN
        BY <1>3, <1>0, Zenon DEF LoginClicked, TypeOK
    <2> QED BY <2>1, <2>2, <1>0, MoveType
            DEF Inv, TypeOK, NoStuckMenu, OneFlow, poller
<1>4. CASE LoginDone
    BY <1>4, <1>0 DEF LoginDone, Inv, TypeOK, NoStuckMenu, OneFlow, poller
<1>5. CASE RefreshClicked \/ Render
    BY <1>5, AsideStep, <1>0 DEF RefreshClicked, Kick, Render, TypeOK, menu, poller
<1>6. ASSUME NEW g \in Logouts, Logout(g) \/ LogoutKicks(g) PROVE Inv'
  <2>1. failed' \in BOOLEAN
      BY <1>6, <1>0, Zenon DEF Logout, LogoutKicks, TypeOK, poller
  <2>2. TypeOK'
      BY <1>6, <1>0, <2>1, GoroutineAssumption
         DEF Logout, LogoutKicks, Kick, TypeOK, menu, poller
  <2> QED BY <1>6, <2>2, AsideStep DEF Logout, LogoutKicks, menu
<1>7. ASSUME NEW g \in Logins, LoginStep(g) PROVE Inv'
    <2>1. CASE Acquire(g)
        BY <2>1, <1>0, MoveType, GoroutineAssumption
           DEF Acquire, Inv, TypeOK, NoStuckMenu, OneFlow, poller
    <2>2. CASE Busy(g)
        <3>1. slot \in Logins /\ login[slot] = "flow" /\ slot # g
            BY <2>2, <1>0, MoveType DEF Busy, Inv, TypeOK, OneFlow
        <3> QED BY <2>2, <3>1, <1>0, MoveType
                DEF Busy, Inv, TypeOK, NoStuckMenu, OneFlow, menu, poller
    <2>3. CASE FlowFails(g) \/ FlowSucceeds(g)
        BY <2>3, <1>0, MoveType, GoroutineAssumption
           DEF FlowFails, FlowSucceeds, Inv, TypeOK, NoStuckMenu, OneFlow, poller
    <2>4. CASE SaveToken(g) \/ SaveFails(g)
        <3>1. failed' \in BOOLEAN
            BY <2>4, <1>0, Zenon DEF SaveToken, SaveFails, TypeOK, poller
        <3>2. CASE SaveToken(g)
            BY <3>1, <3>2, <1>0, MoveType, GoroutineAssumption
               DEF SaveToken, Inv, TypeOK, NoStuckMenu, OneFlow, menu
        <3>3. CASE SaveFails(g)
            BY <3>3, <1>0, MoveType, GoroutineAssumption
               DEF SaveFails, Inv, TypeOK, NoStuckMenu, OneFlow, menu, poller
        <3> QED BY <2>4, <3>2, <3>3
    <2>5. CASE ForcePoll(g)
        <3>1. forceNext' \in BOOLEAN
            BY <2>5, Zenon DEF ForcePoll
        <3> QED BY <2>5, <3>1, <1>0, MoveType
                DEF ForcePoll, Inv, TypeOK, NoStuckMenu, OneFlow, menu
    <2>6. CASE Signal(g)
        BY <2>6, <1>0, MoveType DEF Signal, Inv, TypeOK, NoStuckMenu, OneFlow, poller
    <2>7. CASE LoginKicks(g)
        BY <2>7, <1>0, MoveType
           DEF LoginKicks, Kick, Inv, TypeOK, NoStuckMenu, OneFlow, menu, poller
    <2> QED BY <1>7, <2>1, <2>2, <2>3, <2>4, <2>5, <2>6, <2>7 DEF LoginStep
<1>8. CASE Poll
    <2>1. UNCHANGED <<enabled, loginDone, slot, login>>
        BY <1>8 DEF Poll, Status, PollReads, PollDecides, PollAnswers, PollFails,
                    PollTick, PollRefreshed, menu
    <2> QED BY <1>8, <2>1, <1>0, PollType, AsideStep
<1> QED BY <1>1, <1>2, <1>3, <1>4, <1>5, <1>6, <1>7, <1>8 DEF Next

\* Inv is an invariant of the specification.
LEMMA Inductive == Spec => []Inv
BY InitInv, NextInv, PTL DEF Spec

\* The login items are never left disabled for good.
THEOREM MenuCorrect == Spec => []NoStuckMenu
<1>1. Inv => NoStuckMenu
    BY DEF Inv
<1> QED BY <1>1, Inductive, PTL

\* At most one login flow runs, and it holds the slot.
THEOREM FlowCorrect == Spec => []OneFlow
<1>1. Inv => OneFlow
    BY DEF Inv
<1> QED BY <1>1, Inductive, PTL

\* Every variable keeps its type: the channels never hold more than they have
\* room for.
THEOREM TypeCorrect == Spec => []TypeOK
<1>1. Inv => TypeOK
    BY DEF Inv
<1> QED BY <1>1, Inductive, PTL

-----------------------------------------------------------------------------
(* No change is lost.                                                      *)

\* A Status call that read the file before a change is followed by a kick, so
\* that it does no harm if it uses up forceNext.
WayInv ==
    /\ poll \in {"decide", "ask", "none"} /\ seen # version => KickToCome
    /\ ChangeOnItsWay

\* There is no change at the start.
LEMMA InitWay == Init => WayInv
<1>1. Init => holder = version /\ poll = "read"
    BY DEF Init
<1> QED BY <1>1 DEF WayInv, ChangeOnItsWay

\* A step in which no kick is lost and the poll goroutine stands still.
LEMMA AsideWay ==
    ASSUME WayInv, UNCHANGED <<version, holder, failed, poll, seen>>,
           forceNext => forceNext', KickToCome => KickToCome'
    PROVE  WayInv'
<1>1. (poll \in {"decide", "ask", "none"} /\ seen # version => KickToCome)'
    BY DEF WayInv
<1>2. CASE holder = version \/ failed
  <2>1. holder' = version' \/ failed'
      BY <1>2
  <2> QED BY <1>1, <2>1 DEF WayInv, ChangeOnItsWay
<1>3. CASE holder # version /\ ~failed
  <2>1. CASE KickToCome
      BY <1>1, <2>1, Zenon DEF WayInv, ChangeOnItsWay
  <2>2. CASE forceNext /\ (poll = "decide" => seen = version)
    <3>1. forceNext' /\ (poll' = "decide" => seen' = version')
        BY <2>2
    <3> QED BY <1>1, <3>1, Zenon DEF WayInv, ChangeOnItsWay
  <2>3. CASE poll \in {"ask", "none"} /\ seen = version
    <3>1. poll' \in {"ask", "none"} /\ seen' = version'
        BY <2>3
    <3> QED BY <1>1, <3>1, Zenon DEF WayInv, ChangeOnItsWay
  <2> QED BY <1>3, <2>1, <2>2, <2>3, Zenon DEF WayInv, ChangeOnItsWay
<1> QED BY <1>2, <1>3

\* A login goroutine does not end without its kick, and one that changes the
\* file has it still to come.
LEMMA LoginWay == ASSUME TypeOK, WayInv, NEW g \in Logins, LoginStep(g) PROVE WayInv'
<1>a. ASSUME NEW a, NEW b \in {"none", "start", "flow", "save", "force", "signal", "kick"},
             Move(g, a, b), UNCHANGED <<refresh, logout>>,
             a \in {"force", "signal", "kick"} => b \in {"force", "signal", "kick"}
      PROVE  KickToCome => KickToCome'
    BY <1>a, MoveType DEF KickToCome
<1>b. ASSUME NEW a, NEW b \in {"force", "signal", "kick"}, Move(g, a, b) PROVE KickToCome'
    BY <1>b, MoveType DEF KickToCome
<1>1. CASE Acquire(g) \/ FlowSucceeds(g)
  <2>1. KickToCome => KickToCome'
      BY <1>1, <1>a DEF Acquire, FlowSucceeds
  <2> QED BY <1>1, <2>1, AsideWay DEF Acquire, FlowSucceeds, poller
<1>2. CASE Busy(g) \/ FlowFails(g) \/ SaveToken(g) \/ SaveFails(g) \/ ForcePoll(g) \/ Signal(g)
  <2>1. KickToCome'
      BY <1>2, <1>b DEF Busy, FlowFails, SaveToken, SaveFails, ForcePoll, Signal
  <2>2. (KickToCome => WayInv)'
      BY DEF WayInv, ChangeOnItsWay, KickToCome
  <2> QED BY <2>1, <2>2
<1>3. CASE LoginKicks(g)
  <2>1. KickToCome'
      BY <1>3 DEF LoginKicks, Kick, KickToCome
  <2>2. (KickToCome => WayInv)'
      BY DEF WayInv, ChangeOnItsWay, KickToCome
  <2> QED BY <2>1, <2>2
<1> QED BY <1>1, <1>2, <1>3 DEF LoginStep

\* Nor does a logout goroutine.
LEMMA LogoutWay ==
    ASSUME TypeOK, NEW g \in Logouts, Logout(g) \/ LogoutKicks(g) PROVE WayInv'
<1>1. KickToCome'
    BY DEF Logout, LogoutKicks, Kick, KickToCome, TypeOK
<1>2. (KickToCome => WayInv)'
    BY DEF WayInv, ChangeOnItsWay, KickToCome
<1> QED BY <1>1, <1>2

\* The poll goroutine uses up forceNext only if it is about to ask, with the
\* file as it is or before a kick, and a kick only for forceNext.
LEMMA PollWay == ASSUME TypeOK, WayInv, Poll PROVE WayInv'
<1>0. ~PollRefreshed => (KickToCome => KickToCome')
    BY DEF Poll, Status, PollReads, PollDecides, PollAnswers, PollFails, PollTick, KickToCome
<1>1. CASE PollReads
  <2>1. /\ poll' \in {"decide", "none"} /\ seen' = version' /\ poll = "read"
        /\ UNCHANGED <<version, holder, failed, forceNext>>
      BY <1>1 DEF PollReads
  <2>2. KickToCome => KickToCome'
      BY <1>0, <2>1 DEF PollRefreshed
  <2>3. holder # version /\ ~failed => KickToCome \/ forceNext
      BY <2>1, Zenon DEF WayInv, ChangeOnItsWay
  <2> QED BY <2>1, <2>2, <2>3, Zenon DEF WayInv, ChangeOnItsWay
<1>2. CASE PollDecides
  <2>1. poll = "decide" /\ UNCHANGED <<version, holder, failed>>
      BY <1>2 DEF PollDecides
  <2>2. KickToCome => KickToCome'
      BY <1>0, <2>1 DEF PollRefreshed
  <2>3. seen # version => KickToCome'
      BY <2>1, <2>2 DEF WayInv
  <2>4. CASE poll' = "ask" /\ seen' = seen
      BY <2>1, <2>3, <2>4, Zenon DEF WayInv, ChangeOnItsWay
  <2>5. CASE ~forceNext /\ poll' = "wait"
    <3>1. holder # version /\ ~failed => KickToCome
        BY <2>1, <2>5, Zenon DEF WayInv, ChangeOnItsWay
    <3> QED BY <2>1, <2>2, <2>5, <3>1, Zenon DEF WayInv, ChangeOnItsWay
  <2> QED BY <1>2, <2>4, <2>5 DEF PollDecides
<1>3. CASE PollAnswers
  <2>1. /\ poll \in {"ask", "none"} /\ poll' = "wait" /\ version' = version
        /\ holder' = seen
      BY <1>3 DEF PollAnswers
  <2>2. KickToCome => KickToCome'
      BY <1>0, <2>1 DEF PollRefreshed
  <2>3. holder' # version => KickToCome'
      BY <2>1, <2>2 DEF WayInv
  <2> QED BY <2>1, <2>3, Zenon DEF WayInv, ChangeOnItsWay
<1>4. CASE PollFails
  <2>1. /\ poll = "ask" /\ poll' = "wait" /\ version' = version
        /\ failed' = (seen = version)
      BY <1>4, Zenon DEF PollFails
  <2>2. KickToCome => KickToCome'
      BY <1>0, <2>1 DEF PollRefreshed
  <2>3. ~failed' => KickToCome'
      BY <2>1, <2>2, Zenon DEF WayInv
  <2> QED BY <2>1, <2>3, Zenon DEF WayInv, ChangeOnItsWay
<1>5. CASE PollTick
  <2>1. poll = "wait" /\ poll' = "read" /\ UNCHANGED <<version, holder, failed, forceNext>>
        /\ UNCHANGED <<refresh, login, logout>>
      BY <1>5 DEF PollTick
  <2>2. KickToCome => KickToCome'
      BY <2>1 DEF KickToCome
  <2>3. holder # version /\ ~failed => KickToCome \/ forceNext
      BY <2>1, Zenon DEF WayInv, ChangeOnItsWay
  <2> QED BY <2>1, <2>2, <2>3, Zenon DEF WayInv, ChangeOnItsWay
<1>6. CASE PollRefreshed
  <2>1. poll' = "read" /\ forceNext'
      BY <1>6, Zenon DEF PollRefreshed
  <2> QED BY <2>1, Zenon DEF WayInv, ChangeOnItsWay
<1> QED BY <1>1, <1>2, <1>3, <1>4, <1>5, <1>6 DEF Poll, Status

\* Every step keeps WayInv.
LEMMA NextWay == Inv /\ WayInv /\ [Next]_vars => WayInv'
<1> SUFFICES ASSUME Inv, WayInv, [Next]_vars PROVE WayInv'
    OBVIOUS
<1>0. TypeOK
    BY DEF Inv
<1>1. CASE UNCHANGED vars
    BY <1>1, AsideWay DEF vars, poller, KickToCome
<1>2. ASSUME NEW m \in Items, Click(m) \/ DropClick(m) PROVE WayInv'
    BY <1>2, AsideWay DEF Click, DropClick, poller, KickToCome
<1>3. ASSUME NEW m \in Items, NEW g \in Logins, LoginClicked(m, g) PROVE WayInv'
  <2>1. Move(g, "none", "start") /\ UNCHANGED <<refresh, logout>>
      BY <1>3 DEF LoginClicked, Move
  <2>2. KickToCome => KickToCome'
      BY <1>0, <2>1, MoveType DEF KickToCome
  <2> QED BY <1>3, <2>2, AsideWay DEF LoginClicked, poller
<1>4. CASE LoginDone
    BY <1>4, AsideWay DEF LoginDone, poller, KickToCome
<1>5. CASE RefreshClicked
    BY <1>5, AsideWay DEF RefreshClicked, Kick, poller, KickToCome
<1>6. CASE Render
    BY <1>6, AsideWay DEF Render, KickToCome
<1> QED BY <1>0, <1>1, <1>2, <1>3, <1>4, <1>5, <1>6, LoginWay, LogoutWay, PollWay DEF Next

\* What the status does not say yet of the token file it will, unless the call
\* that asks about it fails: no change is lost to a dropped kick, to a forced
\* refresh used up early, or to a login and a logout that run at once, for any
\* number of them.
THEOREM ChangeCorrect == Spec => []ChangeOnItsWay
<1>1. WayInv => ChangeOnItsWay
    BY DEF WayInv
<1> QED BY <1>1, InitInv, NextInv, InitWay, NextWay, PTL DEF Spec

=============================================================================
