----------------------------- MODULE Autostart -----------------------------
(***************************************************************************)
(* "Start at login": Enabled, Enable and Disable (internal/autostart) on   *)
(* the three kinds of entries, the checkbox of the tray that shows and     *)
(* toggles them (internal/tray/tray.go, cmd/baobar/main.go), and what      *)
(* happens to the programs on the disk meanwhile: upgrades, temporary      *)
(* directories that are emptied, programs moved by the user.               *)
(*                                                                         *)
(* A path is a program, a file that can be started, or Link, a symbolic    *)
(* link to one, as package managers put on the PATH.  An entry is what the *)
(* desktop reads at the next login: [form, exe].                           *)
(***************************************************************************)
EXTENDS FiniteSets

CONSTANTS
    Programs,  \* paths of files
    Link,      \* the path of the link
    Bundles,   \* programs inside a macOS .app bundle
    Temporary, \* programs where volatilePrefixes or TempDir apply
    Versions,  \* programs in directories named for a version, replaced by upgrades
    NoPath     \* no program

ASSUME AutostartAssumption ==
    /\ Link \notin Programs /\ NoPath \notin Programs \union {Link}
    /\ Bundles \subseteq Programs /\ Temporary \subseteq Programs
    /\ Versions \subseteq Programs \ (Bundles \union Temporary)

Paths == Programs \union {Link}

\* LaunchAgent, XDG entry, value of the Run key.
Mechanisms == {"plist", "desktop", "registry"}

\* WriteFile truncates and then writes: an entry may be empty, or cut off
\* behind the name of the program.
Forms == {"absent", "empty", "cut", "whole"}
Entries == [form : Forms, exe : Paths \union {NoPath}]

VARIABLES
    mech,     \* the platform's mechanism
    entry,    \* the entry
    alive,    \* programs that exist
    link,     \* the program Link points to
    ui,       \* where the UI goroutine stands, "off" when there is no process
    started,  \* the path the process was started by
    self,     \* os.Executable
    box,      \* the checkbox
    want,     \* what the toggle in progress is to do
    named,    \* the program Enable is about to write
    err,      \* whether it has failed
    alerted,  \* whether the latest toggle ended with an alert
    vouched,  \* history: Enable wrote the entry for a program that lasts
    moved     \* history: the user has moved programs since

disk == <<alive, link>>
process == <<started, self>>
toggle == <<want, named, err, alerted>>
history == <<vouched, moved>>
vars == <<mech, entry, disk, ui, process, box, toggle, history>>

NoEntry == [form |-> "absent", exe |-> NoPath]

Init ==
    /\ mech \in Mechanisms
    /\ entry = NoEntry
    /\ link \in Versions \union (Bundles \ Temporary)
    /\ alive = (Programs \ Versions) \union {link}
    /\ ui = "off"
    /\ started = NoPath /\ self = NoPath
    /\ box = FALSE
    /\ want = FALSE /\ named = NoPath /\ err = FALSE /\ alerted = FALSE
    /\ vouched = FALSE /\ moved = FALSE

-----------------------------------------------------------------------------
(* The package autostart.                                                  *)

\* EvalSymlinks, and os.Stat.
Where(p) == IF p = Link THEN link ELSE p
Exists(p) == Where(p) \in alive

\* Slip: every link is followed.
ResolveAlways(exe) == IF Exists(exe) THEN Where(exe) ELSE exe

\* resolveIntoBundle; the registry takes the path as it is.
Resolve(exe) ==
    IF mech # "registry" /\ Exists(exe) /\ Where(exe) \in Bundles THEN Where(exe) ELSE exe

\* checkStablePath looks at the string only.
StablePath(exe) == exe \notin Temporary

\* Slip: the entry is there.
EnabledEntry(e) == e.form # "absent"

\* plistTarget, desktopTarget and registryTarget read the program back, from
\* an entry that goes that far; what follows they do not look at.
Target(e) == IF e.form \in {"cut", "whole"} THEN {e.exe} ELSE {}

\* Enabled: the program is there.
Enabled(e) == \E exe \in Target(e) : Exists(exe)

\* The desktop at the next login.  launchd refuses what is not well-formed; an
\* XDG entry needs no more than the lines up to Exec.
WouldStart(e) ==
    /\ e.form = "whole" \/ (e.form = "cut" /\ mech = "desktop")
    /\ Exists(e.exe)

\* renderPlist, renderDesktop, the quoted value.
Whole(exe) == [form |-> "whole", exe |-> exe]

\* Paths that stay what they are through an upgrade.  A process started by
\* the link knows itself by it, save on Linux, where /proc/self/exe does not.
Lasts(p) == p \notin Versions /\ (mech = "desktop" => p # Link)

-----------------------------------------------------------------------------
(* A click on the checkbox, on the UI goroutine.                           *)

Go(from, to) == ui = from /\ ui' = to

Click ==
    /\ Go("idle", "toggle")
    /\ want' = ~box /\ err' = FALSE /\ alerted' = FALSE
    /\ UNCHANGED <<mech, entry, disk, process, box, named, history>>

\* The executable does not last, or its directory or entry cannot be opened.
EnableRefused ==
    /\ want /\ Go("toggle", "reread")
    /\ err' = TRUE
    /\ UNCHANGED <<mech, entry, disk, process, box, want, named, alerted, history>>

Written(exe) ==
    /\ entry' = Whole(exe)
    /\ vouched' = (Lasts(started) /\ Exists(exe)) /\ moved' = FALSE
    /\ UNCHANGED <<mech, disk, process, box, want, err, alerted>>

\* The program is worked out and checked, and os.WriteFile opens the file and
\* truncates it.
Truncate ==
    /\ want /\ Go("toggle", "write")
    /\ mech # "registry" /\ StablePath(Resolve(self))
    /\ named' = Resolve(self)
    /\ entry' = [form |-> "empty", exe |-> NoPath]
    /\ vouched' = FALSE
    /\ UNCHANGED <<mech, disk, process, box, want, err, alerted, moved>>

Write ==
    /\ Go("write", "reread")
    /\ Written(named) /\ named' = NoPath

\* A full disk: part of the entry, or nothing.
WriteFails ==
    /\ Go("write", "reread")
    /\ err' = TRUE
    /\ entry' \in {entry, [form |-> "cut", exe |-> named]}
    /\ named' = NoPath
    /\ UNCHANGED <<mech, disk, process, box, want, alerted, history>>

\* SetStringValue replaces the value in one step.
SetValue ==
    /\ want /\ Go("toggle", "reread")
    /\ mech = "registry" /\ StablePath(Resolve(self))
    /\ Written(Resolve(self)) /\ UNCHANGED named

\* Slip: the entry is emptied, not removed.
DisableEmpties ==
    /\ ~want /\ Go("toggle", "reread")
    /\ entry' = [form |-> "empty", exe |-> NoPath]
    /\ vouched' = FALSE
    /\ UNCHANGED <<mech, disk, process, box, toggle, moved>>

Disable ==
    /\ ~want /\ Go("toggle", "reread")
    /\ entry' = NoEntry
    /\ vouched' = FALSE
    /\ UNCHANGED <<mech, disk, process, box, toggle, moved>>

\* Slip: an error of Remove is taken for ErrNotExist.
DisableFailsSilently ==
    /\ ~want /\ Go("toggle", "reread")
    /\ UNCHANGED <<mech, entry, disk, process, box, toggle, history>>

\* Remove or DeleteValue fails; of an entry that is not there it does not.
DisableFails ==
    /\ ~want /\ Go("toggle", "reread")
    /\ entry # NoEntry
    /\ err' = TRUE
    /\ UNCHANGED <<mech, entry, disk, process, box, want, named, alerted, history>>

\* startAtLoginOutcome: the box shows the disk, an error is alerted.
Reread ==
    /\ Go("reread", "idle")
    /\ box' = Enabled(entry)
    /\ alerted' = err
    /\ UNCHANGED <<mech, entry, disk, process, want, named, err, history>>

UI ==
    \/ Click \/ EnableRefused \/ Truncate \/ Write \/ WriteFails \/ SetValue
    \/ Disable \/ DisableFails \/ Reread

-----------------------------------------------------------------------------
(* The process, the packages and the user.                                 *)

\* At login or by hand, by any path to a program that is there.
Start(p) ==
    /\ Exists(p)
    /\ Go("off", "idle")
    /\ started' = p
    /\ self' = IF mech = "desktop" THEN Where(p) ELSE p
    /\ box' = Enabled(entry)
    /\ UNCHANGED <<mech, entry, disk, toggle, history>>

\* Quit, killed, logged out.
End ==
    /\ ui # "off"
    /\ ui' = "off"
    /\ started' = NoPath /\ self' = NoPath /\ named' = NoPath
    /\ UNCHANGED <<mech, entry, disk, box, want, err, alerted, history>>

\* A new version is put beside the old one, which goes; or from now on the
\* package has a bundle.
Upgrade(p) ==
    /\ link \in Versions /\ p # link
    /\ link' = p
    /\ alive' = (alive \ {link}) \union {p}
    /\ UNCHANGED <<mech, entry, ui, process, box, toggle, history>>

\* The system empties its temporary directories; a download fills them.
CleanTemporary ==
    /\ alive' \in {alive \ Temporary, alive \union Temporary}
    /\ UNCHANGED <<mech, entry, link, ui, process, box, toggle, history>>

\* The user deletes or moves a program, or brings one back.
MoveProgram ==
    /\ \E p \in Programs \ Versions : alive' = (alive \ {p}) \union ({p} \ alive)
    /\ moved' = TRUE
    /\ UNCHANGED <<mech, entry, link, ui, process, box, toggle, vouched>>

\* The user or another tool removes the entry.
RemoveEntry ==
    /\ entry # NoEntry /\ ui # "write"
    /\ entry' = NoEntry
    /\ vouched' = FALSE
    /\ UNCHANGED <<mech, disk, ui, process, box, toggle, moved>>

World ==
    \/ \E p \in Paths : Start(p)
    \/ \E p \in Versions \union (Bundles \ Temporary) : Upgrade(p)
    \/ End \/ CleanTemporary \/ MoveProgram \/ RemoveEntry

Next == UI \/ World

Spec == Init /\ [][Next]_vars

-----------------------------------------------------------------------------
\* An entry has a program exactly if it goes that far, and the registry has
\* whole ones only.
TypeOK ==
    /\ mech \in Mechanisms
    /\ entry \in Entries
    /\ entry.exe # NoPath <=> entry.form \in {"cut", "whole"}
    /\ mech = "registry" => entry.form \in {"absent", "whole"}
    /\ alive \subseteq Programs /\ link \in Programs
    /\ ui \in {"off", "idle", "toggle", "write", "reread"}
    /\ started \in Paths \union {NoPath} /\ self \in Paths \union {NoPath}
    /\ named \in Paths \union {NoPath} /\ (named # NoPath <=> ui = "write")
    /\ box \in BOOLEAN /\ want \in BOOLEAN /\ err \in BOOLEAN /\ alerted \in BOOLEAN
    /\ vouched \in BOOLEAN /\ moved \in BOOLEAN

\* A box that is found set, when the tray starts or after a toggle that may
\* have failed half-way, is set for an entry that will start something: not
\* for one that is empty, or names what is gone (autostart.go:4, "a checkbox
\* showing 'on' for something that never happened").  The exception is a
\* LaunchAgent cut off behind its program.
SetBoxWouldStart ==
    [][box' /\ ui' = "idle" /\ ui # "idle" =>
        WouldStart(entry') \/ (mech = "plist" /\ entry'.form = "cut")]_vars

\* What Enable has reported as done goes on to work: through upgrades that
\* replace the versioned program behind the link and through temporary
\* directories being emptied, in whatever order with restarts from other
\* places, unless the user moves the program (autostart.go:77 to 89, 107).
EntrySurvives == vouched /\ ~moved => WouldStart(entry)

\* A toggle that has not done what the click asked for says so, unless the
\* running program itself is not where it was started from any more: then
\* Enable succeeds and the box stays empty without a word (tray.go:40).
ToggleAnswered ==
    [][ui = "reread" /\ ui' = "idle" =>
        \/ box' = want \/ alerted'
        \/ want /\ entry.form \in {"absent", "whole"} /\ ~Exists(entry.exe)]_vars

=============================================================================
