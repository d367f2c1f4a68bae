-------------------------- MODULE AutostartProofs --------------------------
(* Theorems about Autostart, for any number of programs of each sort.      *)
EXTENDS Autostart, TLAPS

-----------------------------------------------------------------------------
(* Types.                                                                  *)

\* A process knows what it was started by, the link leads somewhere, and only
\* a file is written in two steps.
TypeInv ==
    /\ TypeOK
    /\ ui # "off" => started \in Paths /\ self \in Paths
    /\ link \in Versions \union (Bundles \ Temporary)
    /\ ui = "write" => mech # "registry"

\* Where a path leads is a program.
LEMMA WhereType ==
    ASSUME TypeInv, NEW p \in Paths
    PROVE  Where(p) \in Programs /\ Resolve(p) \in Paths
BY DEF TypeInv, TypeOK, Paths, Where, Resolve

\* The types hold at the start.
LEMMA InitTypeInv == Init => TypeInv
<1> SUFFICES ASSUME Init PROVE TypeInv
    OBVIOUS
<1>1. NoEntry \in Entries
    BY DEF NoEntry, Entries, Forms
<1>2. link \in Programs /\ alive \subseteq Programs
    BY AutostartAssumption DEF Init
<1> QED BY <1>1, <1>2 DEF Init, TypeInv, TypeOK, NoEntry

\* An entry that Enable has written.
LEMMA WrittenType ==
    ASSUME TypeInv, NEW exe \in Paths, Written(exe), ui # "off", ui' = "reread", named' = NoPath
    PROVE  TypeInv'
<1>1. exe # NoPath
    BY AutostartAssumption DEF Paths
<1>2. Whole(exe) \in Entries
    BY DEF Whole, Entries, Forms
<1>3. vouched' \in BOOLEAN /\ moved' \in BOOLEAN
    BY Zenon DEF Written
<1>4. /\ entry' = Whole(exe) /\ Whole(exe).form = "whole" /\ Whole(exe).exe = exe
      /\ UNCHANGED <<mech, alive, link, started, self, box, want, err, alerted>>
    BY DEF Written, Whole, disk, process
<1> QED BY <1>1, <1>2, <1>3, <1>4 DEF TypeInv, TypeOK

\* A step of the UI goroutine.
LEMMA UIType == ASSUME TypeInv, UI PROVE TypeInv'
<1> USE DEF Go, disk, process, toggle, history
<1>1. CASE Click
    BY <1>1 DEF Click, TypeInv, TypeOK
<1>2. CASE EnableRefused
    BY <1>2 DEF EnableRefused, TypeInv, TypeOK
<1>3. CASE Truncate
  <2>1. named' \in Paths /\ named' # NoPath
    BY <1>3, WhereType, AutostartAssumption DEF Truncate, TypeInv, Paths
  <2>2. entry' \in Entries /\ entry'.form = "empty" /\ entry'.exe = NoPath
    BY <1>3 DEF Truncate, Entries, Forms
  <2> QED BY <1>3, <2>1, <2>2 DEF Truncate, TypeInv, TypeOK
<1>4. CASE Write
  <2>1. named \in Paths
    BY <1>4 DEF Write, TypeInv, TypeOK
  <2> QED BY <1>4, <2>1, WrittenType DEF Write
<1>5. CASE WriteFails
  <2>1. named \in Paths /\ named # NoPath
    BY <1>5 DEF WriteFails, TypeInv, TypeOK
  <2>2. [form |-> "cut", exe |-> named] \in Entries
    BY <2>1 DEF Entries, Forms
  <2> QED BY <1>5, <2>1, <2>2 DEF WriteFails, TypeInv, TypeOK
<1>6. CASE SetValue
  <2>1. Resolve(self) \in Paths /\ named' = NoPath
    BY <1>6, WhereType DEF SetValue, TypeInv, TypeOK
  <2> QED BY <1>6, <2>1, WrittenType DEF SetValue
<1>7. CASE Disable
    BY <1>7 DEF Disable, NoEntry, Entries, Forms, TypeInv, TypeOK
<1>8. CASE DisableFails
    BY <1>8 DEF DisableFails, TypeInv, TypeOK
<1>9. CASE Reread
  <2>1. box' \in BOOLEAN
    BY <1>9, Zenon DEF Reread, Enabled
  <2>2. alerted' \in BOOLEAN
    BY <1>9 DEF Reread, TypeInv, TypeOK
  <2> QED BY <1>9, <2>1, <2>2 DEF Reread, TypeInv, TypeOK
<1> QED BY <1>1, <1>2, <1>3, <1>4, <1>5, <1>6, <1>7, <1>8, <1>9 DEF UI

\* A step of the rest of the world.
LEMMA WorldType == ASSUME TypeInv, World PROVE TypeInv'
<1> USE DEF Go, disk, process, toggle, history
<1>1. ASSUME NEW p \in Paths, Start(p) PROVE TypeInv'
  <2>1. self' \in Paths /\ started' \in Paths
    BY <1>1, WhereType DEF Start, Paths
  <2>2. box' \in BOOLEAN
    BY <1>1, Zenon DEF Start, Enabled
  <2> QED BY <1>1, <2>1, <2>2 DEF Start, TypeInv, TypeOK
<1>2. ASSUME NEW p \in Versions \union (Bundles \ Temporary), Upgrade(p) PROVE TypeInv'
    BY <1>2, AutostartAssumption DEF Upgrade, TypeInv, TypeOK
<1>3. CASE End
    BY <1>3 DEF End, TypeInv, TypeOK
<1>4. CASE CleanTemporary
    BY <1>4, AutostartAssumption DEF CleanTemporary, TypeInv, TypeOK
<1>5. CASE MoveProgram
    BY <1>5 DEF MoveProgram, TypeInv, TypeOK
<1>6. CASE RemoveEntry
    BY <1>6 DEF RemoveEntry, NoEntry, Entries, Forms, TypeInv, TypeOK
<1> QED BY <1>1, <1>2, <1>3, <1>4, <1>5, <1>6 DEF World

\* Every step keeps the types.
LEMMA NextTypeInv == TypeInv /\ [Next]_vars => TypeInv'
<1>1. TypeInv /\ UNCHANGED vars => TypeInv'
    BY DEF vars, disk, process, toggle, history, TypeInv, TypeOK
<1> QED BY <1>1, UIType, WorldType DEF Next

\* Every variable keeps its type, and a registry value is whole or absent, for
\* all sets of programs.
THEOREM TypeCorrect == Spec => []TypeOK
<1>1. TypeInv => TypeOK
    BY DEF TypeInv
<1> QED BY <1>1, InitTypeInv, NextTypeInv, PTL DEF Spec

-----------------------------------------------------------------------------
(* What has been enabled goes on to work.                                  *)

\* The path in such an entry, or about to be written to one, is neither
\* temporary nor a version's: the process was started by it, or by a link to
\* a bundle that was followed.
EntryInv ==
    /\ ui # "off" /\ Lasts(started) => self = started
    /\ ui = "write" => ~vouched /\ StablePath(named) /\ (Lasts(started) => named \notin Versions)
    /\ vouched /\ ~moved =>
         entry.form = "whole" /\ Exists(entry.exe) /\ entry.exe \notin Versions \union Temporary

\* EntryInv holds at the start.
LEMMA InitEntry == Init => EntryInv
BY DEF Init, EntryInv

\* What Enable makes of a path that lasts does last.
LEMMA ResolveLasts ==
    ASSUME TypeInv, EntryInv, ui # "off", Lasts(started)
    PROVE  Resolve(self) \notin Versions
BY AutostartAssumption DEF EntryInv, Lasts, Resolve

\* The application's own steps keep EntryInv.
LEMMA UIEntry == ASSUME TypeInv, EntryInv, UI PROVE EntryInv'
<1> USE DEF Go, disk, process, toggle, history
<1>1. CASE Click \/ EnableRefused \/ DisableFails \/ Reread
    BY <1>1 DEF Click, EnableRefused, DisableFails, Reread, EntryInv, Lasts, Exists, Where
<1>2. CASE Truncate
  <2>1. Lasts(started) => named' \notin Versions
    BY <1>2, ResolveLasts DEF Truncate
  <2>2. StablePath(named')
    BY <1>2 DEF Truncate
  <2> QED BY <1>2, <2>1, <2>2 DEF Truncate, EntryInv, Lasts, StablePath
<1>3. CASE Write
    BY <1>3 DEF Write, Written, Whole, EntryInv, Lasts, Exists, Where, StablePath
<1>4. CASE WriteFails
  <2>1. UNCHANGED <<alive, link, mech, started, self, vouched, moved>> /\ ui' = "reread" /\ ui = "write"
    BY <1>4 DEF WriteFails
  <2>2. entry' = entry \/ entry'.form = "cut"
    BY <1>4 DEF WriteFails
  <2>3. ~vouched
    BY <2>1 DEF EntryInv
  <2> QED BY <2>1, <2>2, <2>3 DEF EntryInv, Lasts
<1>5. CASE SetValue
  <2>1. StablePath(Resolve(self)) /\ (Lasts(started) => Resolve(self) \notin Versions)
    BY <1>5, ResolveLasts DEF SetValue
  <2> QED BY <1>5, <2>1 DEF SetValue, Written, Whole, EntryInv, Lasts, Exists, Where, StablePath
<1>6. CASE Disable
    BY <1>6 DEF Disable, EntryInv, Lasts
<1> QED BY <1>1, <1>2, <1>3, <1>4, <1>5, <1>6 DEF UI

\* What happens outside the application keeps EntryInv.
LEMMA WorldEntry == ASSUME TypeInv, EntryInv, World PROVE EntryInv'
<1> USE DEF Go, disk, process, toggle, history
<1>1. ASSUME NEW p \in Paths, Start(p) PROVE EntryInv'
    BY <1>1 DEF Start, EntryInv, Lasts, Exists, Where
<1>2. ASSUME NEW p \in Versions \union (Bundles \ Temporary), Upgrade(p) PROVE EntryInv'
  <2>1. ASSUME NEW q, q \notin Versions, Exists(q) PROVE Exists(q)'
    BY <1>2, <2>1 DEF Upgrade, Exists, Where
  <2>2. UNCHANGED <<mech, entry, ui, started, self, named, vouched, moved>>
    BY <1>2 DEF Upgrade
  <2> QED BY <2>1, <2>2 DEF EntryInv, Lasts, StablePath
<1>3. CASE End
    BY <1>3 DEF End, EntryInv, Exists, Where
<1>4. CASE CleanTemporary
  <2>1. ASSUME NEW q, q \notin Temporary, Exists(q) PROVE Exists(q)'
    BY <1>4, <2>1, AutostartAssumption DEF CleanTemporary, Exists, Where, TypeInv
  <2>2. UNCHANGED <<mech, entry, ui, started, self, named, vouched, moved>>
    BY <1>4 DEF CleanTemporary
  <2> QED BY <2>1, <2>2 DEF EntryInv, Lasts, StablePath
<1>5. CASE MoveProgram
    BY <1>5 DEF MoveProgram, EntryInv, Lasts, StablePath
<1>6. CASE RemoveEntry
    BY <1>6 DEF RemoveEntry, EntryInv, Lasts
<1> QED BY <1>1, <1>2, <1>3, <1>4, <1>5, <1>6 DEF World

\* Every step keeps EntryInv.
LEMMA NextEntry == TypeInv /\ EntryInv /\ [Next]_vars => EntryInv'
<1>1. EntryInv /\ UNCHANGED vars => EntryInv'
    BY DEF vars, disk, process, toggle, history, EntryInv, Lasts, Exists, Where, StablePath
<1> QED BY <1>1, UIEntry, WorldEntry DEF Next

\* What Enable has reported as done goes on to work through upgrades and the
\* emptying of temporary directories, for any number of them and of restarts,
\* until the user moves a program.
THEOREM EntryCorrect == Spec => []EntrySurvives
<1>1. EntryInv => EntrySurvives
    BY DEF EntryInv, EntrySurvives, WouldStart
<1> QED BY <1>1, InitTypeInv, NextTypeInv, InitEntry, NextEntry, PTL DEF Spec

-----------------------------------------------------------------------------
(* The checkbox.                                                           *)

\* A box that is found set belongs to an entry that would start something.
LEMMA BoxStep ==
    ASSUME TypeInv, Next, box' , ui' = "idle", ui # "idle"
    PROVE  WouldStart(entry') \/ (mech = "plist" /\ entry'.form = "cut")
<1>1. ui \in {"reread", "off"} /\ UNCHANGED <<mech, entry, alive, link>> /\ Enabled(entry)
  <2>1. CASE UI
    BY <2>1 DEF UI, Click, EnableRefused, Truncate, Write, WriteFails, SetValue, Disable,
        DisableFails, Reread, Go, disk
  <2>2. CASE World
    BY <2>2 DEF World, Start, End, Upgrade, CleanTemporary, MoveProgram, RemoveEntry, Go, disk
  <2> QED BY <2>1, <2>2 DEF Next
<1>2. entry.form \in {"cut", "whole"} /\ Exists(entry.exe)
    BY <1>1 DEF Enabled, Target
<1>3. mech # "registry" \/ entry.form = "whole"
    BY <1>2 DEF TypeInv, TypeOK
<1> QED BY <1>1, <1>2, <1>3 DEF WouldStart, TypeInv, TypeOK, Mechanisms, Exists, Where

\* A checkbox found set tells the truth, for any programs and any history.
THEOREM BoxCorrect == Spec => SetBoxWouldStart
<1>1. TypeInv /\ [Next]_vars => [box' /\ ui' = "idle" /\ ui # "idle" =>
        WouldStart(entry') \/ (mech = "plist" /\ entry'.form = "cut")]_vars
    BY BoxStep
<1> QED BY <1>1, InitTypeInv, NextTypeInv, PTL DEF Spec, SetBoxWouldStart

\* A toggle without an error has written a whole entry, or removed it; the
\* entry may have been removed by somebody else since.
ToggleInv ==
    /\ ui = "write" => want
    /\ ui = "reread" /\ ~err =>
         IF want THEN entry.form \in {"absent", "whole"} ELSE entry = NoEntry

\* No click is unanswered at the start.
LEMMA InitToggle == Init => ToggleInv
BY DEF Init, ToggleInv

\* Every step keeps ToggleInv.
LEMMA NextToggle == TypeInv /\ ToggleInv /\ [Next]_vars => ToggleInv'
<1> SUFFICES ASSUME TypeInv, ToggleInv, [Next]_vars PROVE ToggleInv'
    OBVIOUS
<1> USE DEF Go, disk, process, toggle, history, ToggleInv
<1>1. CASE UI
  <2>1. CASE Click \/ EnableRefused \/ DisableFails \/ Reread \/ Truncate \/ WriteFails
    BY <2>1 DEF Click, EnableRefused, DisableFails, Reread, Truncate, WriteFails
  <2>2. CASE Write
    BY <2>2 DEF Write, Written, Whole
  <2>3. CASE SetValue
    BY <2>3 DEF SetValue, Written, Whole
  <2>4. CASE Disable
    BY <2>4 DEF Disable
  <2> QED BY <1>1, <2>1, <2>2, <2>3, <2>4 DEF UI
<1>2. CASE World
  <2>1. CASE \E p \in Paths : Start(p)
    BY <2>1 DEF Start
  <2>2. CASE End
    BY <2>2 DEF End
  <2>3. CASE RemoveEntry
    BY <2>3 DEF RemoveEntry, NoEntry
  <2>4. CASE MoveProgram \/ CleanTemporary \/ \E p \in Versions \union (Bundles \ Temporary) : Upgrade(p)
    BY <2>4 DEF MoveProgram, CleanTemporary, Upgrade
  <2> QED BY <1>2, <2>1, <2>2, <2>3, <2>4 DEF World
<1>3. CASE UNCHANGED vars
    BY <1>3 DEF vars
<1> QED BY <1>1, <1>2, <1>3 DEF Next

\* The end of a toggle: what the box shows is what was wanted, or there was an
\* error, or the program is gone.
LEMMA ToggleStep ==
    ASSUME TypeInv, ToggleInv, Next, ui = "reread", ui' = "idle"
    PROVE  \/ box' = want \/ alerted'
           \/ want /\ entry.form \in {"absent", "whole"} /\ ~Exists(entry.exe)
<1>1. Reread
  <2>1. CASE UI
    BY <2>1 DEF UI, Click, EnableRefused, Truncate, Write, WriteFails, SetValue, Disable,
        DisableFails, Go
  <2>2. CASE World
    BY <2>2 DEF World, Start, End, Upgrade, CleanTemporary, MoveProgram, RemoveEntry, Go
  <2> QED BY <2>1, <2>2 DEF Next
<1>2. CASE err
    BY <1>1, <1>2 DEF Reread
<1>3. CASE ~err /\ want
  <2>1. entry.form \in {"absent", "whole"}
    BY <1>1, <1>3 DEF ToggleInv, Reread, Go
  <2>2. CASE Exists(entry.exe)
    <3>1. entry.form = "whole"
      BY <2>1, <2>2, AutostartAssumption DEF TypeInv, TypeOK, Exists, Where, Entries
    <3>2. Enabled(entry)
      BY <2>2, <3>1 DEF Enabled, Target
    <3> QED BY <1>1, <1>3, <3>2, Zenon DEF Reread
  <2> QED BY <1>3, <2>1, <2>2
<1>4. CASE ~err /\ ~want
  <2>1. entry.form = "absent"
    BY <1>1, <1>4 DEF ToggleInv, Reread, Go, NoEntry
  <2>2. ~Enabled(entry)
    BY <2>1 DEF Enabled, Target
  <2>3. want \in BOOLEAN
    BY DEF TypeInv, TypeOK
  <2>4. want = FALSE /\ Enabled(entry) = FALSE
    BY <1>4, <2>2, <2>3, Zenon DEF Enabled
  <2> QED BY <1>1, <2>4, Zenon DEF Reread
<1> QED BY <1>2, <1>3, <1>4

\* No toggle fails silently, but for the exception that ToggleAnswered names,
\* for any programs and any history.
THEOREM ToggleCorrect == Spec => ToggleAnswered
<1>1. TypeInv /\ ToggleInv /\ [Next]_vars => [ui = "reread" /\ ui' = "idle" =>
        \/ box' = want \/ alerted'
        \/ want /\ entry.form \in {"absent", "whole"} /\ ~Exists(entry.exe)]_vars
    BY ToggleStep
<1> QED BY <1>1, InitTypeInv, NextTypeInv, InitToggle, NextToggle, PTL DEF Spec, ToggleAnswered
=============================================================================
