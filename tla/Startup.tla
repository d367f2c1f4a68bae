------------------------------ MODULE Startup ------------------------------
(***************************************************************************)
(* From the start of the process to its tray: main (cmd/baobar/main.go),   *)
(* Load and SaveAddr (internal/config/config.go) and the setup form        *)
(* (internal/authflow/setup.go), with the configuration file they share    *)
(* with the user, with other launches and with the next ones.  Nothing     *)
(* keeps two launches from running at once, and net/http runs the handler  *)
(* of each submission of the form on a goroutine of its own.               *)
(*                                                                         *)
(* The settings other than the address are one value: Load reads them      *)
(* after the address, and refuses a bad one, whichever it is.              *)
(***************************************************************************)
EXTENDS Naturals

CONSTANTS
    Launches,     \* processes, each started once
    Posts,        \* submissions of the form, each made once
    NoPost,       \* none of them
    Good,         \* addresses that ValidateAddr accepts
    Bad,          \* addresses that it refuses
    NoAddr,       \* the empty address
    Settings,     \* the other settings a user may have written
    Refused,      \* a setting of those that Load refuses
    Defaults,     \* no other setting at all
    Environments, \* what getenv may answer: [addr, rest]
    Absent,       \* there is no file
    Unreadable,   \* os.Stat finds it and toml.DecodeFile fails: not TOML, no access
    Torn,         \* a file with part of its content
    Written,      \* what a user may make of the file, Absent and Unreadable included
    MaxEdits,     \* bound on the number of edits by hand
    EditsRace,    \* whether an edit may fall into a running SaveAddr
    StatMayFail   \* whether os.Stat may fail on a file that is there

Addresses == Good \union Bad \union {NoAddr}
Rests == Settings \union {Refused, Defaults}

\* A fileConfig.  A file that does not exist decodes as the empty one.
FileConfigs == [addr : Addresses, rest : Rests]
Empty == [addr |-> NoAddr, rest |-> Defaults]

Undecodable == {Unreadable, Torn}
Files == FileConfigs \union Undecodable \union {Absent}

ASSUME StartupAssumption ==
    /\ Launches # {} /\ NoPost \notin Posts
    /\ NoAddr \notin Good \union Bad /\ Good \intersect Bad = {}
    /\ Defaults \notin Settings \union {Refused} /\ Refused \notin Settings
    /\ (Undecodable \union {Absent}) \intersect FileConfigs = {}
    /\ Environments \subseteq FileConfigs
    /\ Written \subseteq FileConfigs \union {Absent, Unreadable}
    /\ MaxEdits \in Nat /\ {EditsRace, StatMayFail} \subseteq BOOLEAN

VARIABLES
    file,     \* config.toml
    temps,    \* temporary files beside it, named by the post that made them
    launch,   \* where the main goroutine of each process stands
    env,      \* env[l]: its environment
    loaded,   \* loaded[l]: what its latest Load returned
    result,   \* result[l]: the submission its form has finished with
    post,     \* where the handler of each submission stands
    of,       \* of[s]: the launch that served the form
    typed,    \* typed[s]: the address in it
    read,     \* read[s]: the fileConfig its SaveAddr goes on with
    edits,    \* edits by hand so far
    byHand,   \* history: the file as the latest edit by hand left it
    since,    \* history: the posts submitted after that
    settled   \* history: launches whose Setup has returned no error

disk == <<file, temps>>
mains == <<launch, env, loaded, result>>
handlers == <<post, of, typed, read>>
history == <<byHand, since, settled>>
vars == <<disk, mains, handlers, edits, history>>

\* config.Load returns these errors, by their cause.
Errors == {"unreadable", "no address", "bad address", "bad setting"}

Init ==
    /\ file \in Written
    /\ temps = {}
    /\ launch = [l \in Launches |-> "off"]
    /\ env = [l \in Launches |-> Empty]
    /\ loaded = [l \in Launches |-> NoAddr]
    /\ result = [l \in Launches |-> NoPost]
    /\ post = [s \in Posts |-> "none"]
    /\ of = [s \in Posts |-> CHOOSE l \in Launches : TRUE]
    /\ typed = [s \in Posts |-> NoAddr]
    /\ read = [s \in Posts |-> Empty]
    /\ edits = 0
    /\ byHand = file
    /\ since = {} /\ settled = {}

-----------------------------------------------------------------------------
(* Load, SaveAddr's reading of the file.                                   *)

FirstNonEmpty(a, b, empty) == IF a # empty THEN a ELSE b

\* A file that is not there is no error, one that cannot be decoded is.
Decode(f) == IF f = Absent THEN Empty ELSE f

\* Load: the address first, then everything else.
Load(f, e) ==
    LET addr == FirstNonEmpty(Decode(f).addr, e.addr, NoAddr)
        rest == FirstNonEmpty(Decode(f).rest, e.rest, Defaults)
    IN  CASE f \in Undecodable -> "unreadable"
          [] f \notin Undecodable /\ addr = NoAddr -> "no address"
          [] f \notin Undecodable /\ addr \in Bad -> "bad address"
          [] f \notin Undecodable /\ addr \in Good ->
                IF rest = Refused THEN "bad setting" ELSE addr

-----------------------------------------------------------------------------
(* main.                                                                   *)

Go(l, from, to) == launch[l] = from /\ launch' = [launch EXCEPT ![l] = to]

\* First Load.  Only ErrNoAddr leads to the form; any other error goes to the
\* tray as text, as does a usable address.
FirstLoad(l) ==
    /\ \E e \in Environments : env' = [env EXCEPT ![l] = e]
    /\ loaded' = [loaded EXCEPT ![l] = Load(file, env'[l])]
    /\ Go(l, "off", IF loaded'[l] = "no address" THEN "setup" ELSE "tray")
    /\ UNCHANGED <<disk, result, handlers, edits, history>>

\* newSession listens and OpenURL starts the browser.
OpenForm(l) ==
    /\ Go(l, "setup", "asking")
    /\ UNCHANGED <<disk, env, loaded, result, handlers, edits, history>>

\* One of them fails: the error of the first Load goes to the tray.
OpenFormFails(l) ==
    /\ Go(l, "setup", "tray")
    /\ UNCHANGED <<disk, env, loaded, result, handlers, edits, history>>

\* Slip: there is no timer.
TimesOutNever(l) == FALSE /\ UNCHANGED vars

\* serve: the timeout, or the context of main.
TimesOut(l) ==
    /\ Go(l, "asking", "tray")
    /\ UNCHANGED <<disk, env, loaded, result, handlers, edits, history>>

\* serve: the form has been finished.
FormDone(l) ==
    /\ Go(l, "asking", "reload")
    /\ result[l] # NoPost
    /\ settled' = settled \union {l}
    /\ UNCHANGED <<disk, env, loaded, result, handlers, edits, byHand, since>>

\* Second Load; whatever it returns, the tray is next.
SecondLoad(l) ==
    /\ Go(l, "reload", "tray")
    /\ loaded' = [loaded EXCEPT ![l] = Load(file, env[l])]
    /\ UNCHANGED <<disk, env, result, handlers, edits, history>>

Main(l) ==
    \/ FirstLoad(l) \/ OpenForm(l) \/ OpenFormFails(l)
    \/ TimesOut(l) \/ FormDone(l) \/ SecondLoad(l)

Running(l) == launch[l] \notin {"off", "gone"}

-----------------------------------------------------------------------------
(* The handler of a submission.  Shutdown waits two seconds for it, then   *)
(* it goes on beside main.                                                 *)

Step(s, from, to) ==
    /\ Running(of[s])
    /\ post[s] = from
    /\ post' = [post EXCEPT ![s] = to]

\* Slip: what is typed is taken as it is.
SubmitUnvalidated(s) ==
    /\ post[s] = "none" /\ post' = [post EXCEPT ![s] = "decode"]
    /\ \E l \in Launches : launch[l] = "asking" /\ of' = [of EXCEPT ![s] = l]
    /\ \E a \in Addresses : typed' = [typed EXCEPT ![s] = a]
    /\ since' = since \union {s}
    /\ UNCHANGED <<disk, mains, read, edits, byHand, settled>>

\* The form comes back with an address, and SaveAddr validates it before
\* anything else; a refused one displays the form again.
Submit(s) ==
    /\ post[s] = "none"
    /\ \E l \in Launches : launch[l] = "asking" /\ of' = [of EXCEPT ![s] = l]
    /\ \E a \in Addresses :
         /\ typed' = [typed EXCEPT ![s] = a]
         /\ post' = [post EXCEPT ![s] = IF a \in Good THEN "decode" ELSE "failed"]
    /\ since' = since \union {s}
    /\ UNCHANGED <<disk, mains, read, edits, byHand, settled>>

\* What os.Stat finds: a file that it fails on, for whatever reason, is none.
Found == {file} \union (IF StatMayFail THEN {Absent} ELSE {})

\* The existing file is decoded and its address replaced.
DecodeExisting(s) ==
    /\ Step(s, "decode", "create")
    /\ \E f \in Found \ Undecodable :
         read' = [read EXCEPT ![s] = [Decode(f) EXCEPT !.addr = typed[s]]]
    /\ UNCHANGED <<disk, mains, of, typed, edits, history>>

\* It cannot be decoded, and is left alone.
DecodeFails(s) ==
    /\ file \in Undecodable
    /\ Step(s, "decode", "failed")
    /\ UNCHANGED <<disk, mains, of, typed, read, edits, history>>

\* Slip: encodes into config.toml itself.
CreateInPlace(s) ==
    /\ Step(s, "create", "rename")
    /\ file' = Torn
    /\ UNCHANGED <<temps, mains, of, typed, read, edits, history>>

\* MkdirAll and CreateTemp; Encode, Close and Chmod follow on the same file.
CreateTemp(s) ==
    /\ Step(s, "create", "rename")
    /\ temps' = temps \union {s}
    /\ UNCHANGED <<file, mains, of, typed, read, edits, history>>

\* MkdirAll or CreateTemp fails.
CreateFails(s) ==
    /\ Step(s, "create", "failed")
    /\ UNCHANGED <<disk, mains, of, typed, read, edits, history>>

\* Slip: a copy, whose source stays.
RenameByCopy(s) ==
    /\ Step(s, "rename", "page")
    /\ file' = read[s]
    /\ UNCHANGED <<temps, mains, of, typed, read, edits, history>>

\* The deferred Remove finds nothing at the old name.
Rename(s) ==
    /\ Step(s, "rename", "page")
    /\ file' = read[s]
    /\ temps' = temps \ {s}
    /\ UNCHANGED <<mains, of, typed, read, edits, history>>

\* Slip: the page follows whatever Save returns.
RenameFailsUnnoticed(s) ==
    /\ Step(s, "rename", "page")
    /\ temps' = temps \ {s}
    /\ UNCHANGED <<file, mains, of, typed, read, edits, history>>

\* Encode, Close, Chmod or Rename fails: the temporary file is removed, unless
\* that fails as well, which nobody hears of, and the form is displayed again
\* with the error.
RenameFails(s) ==
    /\ Step(s, "rename", "failed")
    /\ temps' \in {temps, temps \ {s}}
    /\ UNCHANGED <<file, mains, of, typed, read, edits, history>>

\* "Baobar is set up", "Baobar is starting."
ShowPage(s) ==
    /\ Step(s, "page", "finish")
    /\ UNCHANGED <<disk, mains, of, typed, read, edits, history>>

\* finish: the first outcome is kept.
Finish(s) ==
    /\ Step(s, "finish", "done")
    /\ result' = [result EXCEPT ![of[s]] = FirstNonEmpty(@, s, NoPost)]
    /\ UNCHANGED <<disk, launch, env, loaded, of, typed, read, edits, history>>

Handler(s) ==
    \/ Submit(s) \/ DecodeExisting(s) \/ DecodeFails(s)
    \/ CreateTemp(s) \/ CreateFails(s) \/ Rename(s) \/ RenameFails(s)
    \/ ShowPage(s) \/ Finish(s)

-----------------------------------------------------------------------------
(* The rest of the world.                                                  *)

\* The process ends, at any point: quit, killed, or the machine goes down.
End(l) ==
    /\ Running(l)
    /\ launch' = [launch EXCEPT ![l] = "gone"]
    /\ UNCHANGED <<disk, env, loaded, result, handlers, edits, history>>

Saving == {s \in Posts : Running(of[s]) /\ post[s] \in {"create", "rename"}}

\* The user writes, replaces, removes or breaks the file.
EditFile ==
    /\ edits < MaxEdits
    /\ EditsRace \/ Saving = {}
    /\ edits' = edits + 1
    /\ file' \in Written
    /\ file' # file
    /\ byHand' = file'
    /\ since' = {}
    /\ UNCHANGED <<temps, mains, handlers, settled>>

Next ==
    \/ \E l \in Launches : Main(l) \/ End(l)
    \/ \E s \in Posts : Handler(s)
    \/ EditFile

Spec == Init /\ [][Next]_vars

\* main goes on by itself once it has been started: no file operation blocks
\* for ever, and serve has a timer and a context.
FairSpec == Spec /\ \A l \in Launches : WF_vars(launch[l] # "off" /\ Main(l))

-----------------------------------------------------------------------------
\* A temporary file is that of a SaveAddr between CreateTemp and Rename, or of
\* one that has failed; none is left by a SaveAddr that returns no error.
TypeOK ==
    /\ file \in Files /\ byHand \in Files
    /\ temps \subseteq {s \in Posts : post[s] \in {"rename", "failed"}}
    /\ launch \in [Launches -> {"off", "setup", "asking", "reload", "tray", "gone"}]
    /\ env \in [Launches -> FileConfigs]
    /\ loaded \in [Launches -> Addresses \union Errors]
    /\ result \in [Launches -> Posts \union {NoPost}]
    /\ post \in [Posts -> {"none", "decode", "create", "rename", "page", "finish", "done", "failed"}]
    /\ of \in [Posts -> Launches] /\ typed \in [Posts -> Addresses]
    /\ read \in [Posts -> FileConfigs]
    /\ edits \in 0..MaxEdits /\ since \subseteq Posts /\ settled \subseteq Launches

RestOf(f) == IF f \in Undecodable THEN f ELSE Decode(f).rest

\* Whatever happens to saves, of two launches at once, failing and interrupted
\* ones included, the settings in the file are those the user put there, and a
\* file SaveAddr could not read is not replaced (config.go:246, "settings
\* someone put there by hand survive", "an interrupted save cannot leave a
\* half-written config").
SettingsSurvive == RestOf(file) = RestOf(byHand)

\* Once the page has said that Baobar is set up, no later launch asks again or
\* refuses the address, whatever its environment and whatever crashed or was
\* submitted since, until the user edits the file (config.go:242, "the next
\* launch starts into a config it cannot use").
NeverAskedTwice ==
    (\E s \in since : post[s] \in {"finish", "done"}) =>
        \A e \in Environments : Load(file, e) \in Good \union {"bad setting"}

\* A Setup that returned no error has settled the address for the Load that
\* follows it (main.go:42): after it only another setting can be refused.
SetupSettlesTheAddress ==
    \A l \in settled : launch[l] = "tray" /\ result[l] \in since =>
        loaded[l] \in Good \union {"bad setting"}

\* A launch gets to its tray, be it with the text of an error, whatever the
\* browser and the user do (main.go:38, "can only improve on that path, never
\* replace it").
EveryLaunchArrives ==
    \A l \in Launches : launch[l] = "setup" ~> launch[l] \in {"tray", "gone"}

=============================================================================
