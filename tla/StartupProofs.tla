--------------------------- MODULE StartupProofs ---------------------------
(* Theorems about Startup, for any number of launches and submissions.     *)
EXTENDS Startup, TLAPS

\* What can be decoded is a fileConfig.
LEMMA DecodeType ==
    ASSUME file \in Files, file \notin Undecodable
    PROVE  Decode(file) \in FileConfigs
BY DEF Files, Decode, Empty, FileConfigs, Addresses, Rests

\* So is what SaveAddr goes on with.
LEMMA DecodeFound ==
    ASSUME file \in Files, NEW f \in Found \ Undecodable
    PROVE  Decode(f) \in FileConfigs
BY DEF Found, Files, Decode, Empty, FileConfigs, Addresses, Rests

\* Load returns an address or an error.
LEMMA LoadType ==
    ASSUME file \in Files, NEW e \in FileConfigs
    PROVE  Load(file, e) \in Addresses \union Errors
<1>1. CASE file \in Undecodable
    BY <1>1 DEF Load, Errors
<1>2. CASE file \notin Undecodable
  <2>1. Decode(file).addr \in Addresses /\ e.addr \in Addresses
    BY <1>2, DecodeType DEF FileConfigs
  <2>2. FirstNonEmpty(Decode(file).addr, e.addr, NoAddr) \in Addresses
    BY <2>1 DEF FirstNonEmpty
  <2> QED BY <1>2, <2>2 DEF Load, Errors, Addresses
<1> QED BY <1>1, <1>2

\* With a usable address in the file, Load refuses another setting at most.
LEMMA LoadSettled ==
    ASSUME file \notin Undecodable, Decode(file).addr \in Good, NEW e
    PROVE  Load(file, e) \in Good \union {"bad setting"}
<1>1. FirstNonEmpty(Decode(file).addr, e.addr, NoAddr) = Decode(file).addr
    BY StartupAssumption DEF FirstNonEmpty
<1>2. Decode(file).addr # NoAddr /\ Decode(file).addr \notin Bad
    BY StartupAssumption
<1> QED BY <1>1, <1>2 DEF Load

-----------------------------------------------------------------------------
(* Types.                                                                  *)

\* A submission that has been made belongs to a launch that has been started.
TypeInv ==
    /\ TypeOK
    /\ \A s \in Posts : post[s] # "none" => launch[of[s]] # "off"

\* The types hold at the start.
LEMMA InitTypeInv == Init => TypeInv
<1> SUFFICES ASSUME Init PROVE TypeInv
    OBVIOUS
<1>1. file \in Files
    BY StartupAssumption DEF Init, Files, Undecodable
<1>2. Empty \in FileConfigs
    BY DEF Empty, FileConfigs, Addresses, Rests
<1>3. of \in [Posts -> Launches]
    BY StartupAssumption DEF Init
<1>4. edits \in 0..MaxEdits
    BY StartupAssumption DEF Init
<1> QED BY <1>1, <1>2, <1>3, <1>4 DEF Init, TypeInv, TypeOK, Addresses

\* A step of main.
LEMMA MainType ==
    ASSUME TypeInv, NEW l \in Launches, Main(l)
    PROVE  TypeInv'
<1> USE DEF TypeInv, TypeOK, Go, disk, handlers, history
<1>1. CASE FirstLoad(l)
  <2>1. env' \in [Launches -> FileConfigs]
    BY <1>1, StartupAssumption DEF FirstLoad
  <2>2. loaded' \in [Launches -> Addresses \union Errors]
    BY <1>1, <2>1, LoadType DEF FirstLoad
  <2> QED BY <1>1, <2>1, <2>2 DEF FirstLoad
<1>2. CASE OpenForm(l)
    BY <1>2 DEF OpenForm
<1>3. CASE OpenFormFails(l)
    BY <1>3 DEF OpenFormFails
<1>4. CASE TimesOut(l)
    BY <1>4 DEF TimesOut
<1>5. CASE FormDone(l)
    BY <1>5 DEF FormDone
<1>6. CASE SecondLoad(l)
  <2>1. loaded' \in [Launches -> Addresses \union Errors]
    BY <1>6, LoadType DEF SecondLoad
  <2> QED BY <1>6, <2>1 DEF SecondLoad
<1> QED BY <1>1, <1>2, <1>3, <1>4, <1>5, <1>6 DEF Main

\* A step of a handler.
LEMMA HandlerType ==
    ASSUME TypeInv, NEW s \in Posts, Handler(s)
    PROVE  TypeInv'
<1> USE DEF TypeInv, TypeOK, Step, Running, disk, mains, history
<1>1. CASE Submit(s)
  <2>1. /\ of' \in [Posts -> Launches]
        /\ \A r \in Posts : post'[r] # "none" => launch'[of'[r]] # "off"
    BY <1>1 DEF Submit
  <2>2. typed' \in [Posts -> Addresses] /\ since' \subseteq Posts
    BY <1>1 DEF Submit
  <2> QED BY <1>1, <2>1, <2>2 DEF Submit
<1>2. CASE DecodeExisting(s)
  <2>1. \A f \in Found \ Undecodable : [Decode(f) EXCEPT !.addr = typed[s]] \in FileConfigs
    BY DecodeFound DEF FileConfigs
  <2>2. read' \in [Posts -> FileConfigs]
    BY <1>2, <2>1 DEF DecodeExisting
  <2> QED BY <1>2, <2>2 DEF DecodeExisting
<1>3. CASE DecodeFails(s)
    BY <1>3 DEF DecodeFails
<1>4. CASE CreateTemp(s)
    BY <1>4 DEF CreateTemp
<1>5. CASE CreateFails(s)
    BY <1>5 DEF CreateFails
<1>6. CASE Rename(s)
    BY <1>6 DEF Rename, Files
<1>7. CASE RenameFails(s)
    BY <1>7 DEF RenameFails
<1>8. CASE ShowPage(s)
    BY <1>8 DEF ShowPage
<1>9. CASE Finish(s)
  <2>1. result' \in [Launches -> Posts \union {NoPost}]
    BY <1>9 DEF Finish, FirstNonEmpty
  <2> QED BY <1>9, <2>1 DEF Finish
<1> QED BY <1>1, <1>2, <1>3, <1>4, <1>5, <1>6, <1>7, <1>8, <1>9 DEF Handler

\* The user.
LEMMA EditType == ASSUME TypeInv, EditFile PROVE TypeInv'
<1>1. file' \in Files
    BY StartupAssumption DEF EditFile, Files, Undecodable
<1>2. edits' \in 0..MaxEdits
    BY StartupAssumption DEF EditFile, TypeInv, TypeOK
<1> QED BY <1>1, <1>2 DEF EditFile, TypeInv, TypeOK, mains, handlers

\* Every step keeps the types.
LEMMA NextTypeInv == TypeInv /\ [Next]_vars => TypeInv'
<1> SUFFICES ASSUME TypeInv, [Next]_vars PROVE TypeInv'
    OBVIOUS
<1>1. CASE UNCHANGED vars
    BY <1>1 DEF vars, disk, mains, handlers, history, TypeInv, TypeOK
<1>2. ASSUME NEW l \in Launches, End(l) PROVE TypeInv'
    BY <1>2 DEF End, TypeInv, TypeOK, disk, handlers, history
<1> QED BY <1>1, <1>2, MainType, HandlerType, EditType DEF Next

\* Every variable keeps its type, and a temporary file beside config.toml is one
\* of a SaveAddr between CreateTemp and Rename or of one that has failed, for any
\* number of launches, submissions and edits.
THEOREM TypeCorrect == Spec => []TypeOK
<1>1. TypeInv => TypeOK
    BY DEF TypeInv
<1> QED BY <1>1, InitTypeInv, NextTypeInv, PTL DEF Spec

-----------------------------------------------------------------------------
(* Settings survive.                                                       *)

\* A SaveAddr under way carries the settings that are in the file.
KeepInv ==
    /\ RestOf(file) = RestOf(byHand)
    /\ \A s \in Saving : read[s].rest = RestOf(byHand)

\* At the start the file is the user's and no write is under way.
LEMMA InitKeep == Init => KeepInv
BY DEF Init, KeepInv, Saving

\* Steps that write neither the file nor what is to be written to it.
LEMMA AsideKeep ==
    ASSUME KeepInv, UNCHANGED <<file, byHand, read>>, Saving' \subseteq Saving
    PROVE  KeepInv'
BY DEF KeepInv, RestOf, Decode

\* The settings of a fileConfig are its rest.
LEMMA RestOfConfig ==
    ASSUME NEW f \in FileConfigs PROVE RestOf(f) = f.rest
BY StartupAssumption DEF RestOf, Decode

\* Every step of a handler keeps them.
LEMMA HandlerKeep ==
    ASSUME ~StatMayFail, TypeInv, KeepInv, NEW s \in Posts, Handler(s)
    PROVE  KeepInv'
<1> USE DEF Step, Running, disk, mains, history
<1>a. post \in [Posts -> {"none", "decode", "create", "rename", "page", "finish", "done", "failed"}]
    BY DEF TypeInv, TypeOK
<1>1. CASE Submit(s)
  <2>1. Saving' \subseteq Saving
    BY <1>1, <1>a DEF Submit, Saving
  <2> QED BY <1>1, <2>1, AsideKeep DEF Submit
<1>2. CASE DecodeExisting(s)
  <2>1. read' = [read EXCEPT ![s] = [Decode(file) EXCEPT !.addr = typed[s]]] /\ file \notin Undecodable
    BY <1>2 DEF DecodeExisting, Found
  <2>2. Decode(file) \in FileConfigs /\ s \in DOMAIN read
    BY <2>1, DecodeType DEF TypeInv, TypeOK
  <2>3. read'[s].rest = Decode(file).rest
    BY <2>1, <2>2 DEF FileConfigs
  <2>4. RestOf(file) = Decode(file).rest
    BY <2>1 DEF RestOf
  <2>5. Saving' \subseteq Saving \union {s} /\ \A r \in Posts \ {s} : read'[r] = read[r]
    BY <1>2, <1>a, <2>1 DEF DecodeExisting, Saving, TypeInv, TypeOK
  <2>6. RestOf(file)' = RestOf(file) /\ RestOf(byHand)' = RestOf(byHand)
    BY <1>2 DEF DecodeExisting, RestOf, Decode
  <2>7. Saving \subseteq Posts
    BY DEF Saving
  <2> QED BY <2>3, <2>4, <2>5, <2>6, <2>7 DEF KeepInv
<1>3. CASE DecodeFails(s)
  <2>1. Saving' \subseteq Saving
    BY <1>3, <1>a DEF DecodeFails, Saving
  <2> QED BY <1>3, <2>1, AsideKeep DEF DecodeFails
<1>4. CASE CreateTemp(s)
  <2>1. Saving' \subseteq Saving
    BY <1>4, <1>a DEF CreateTemp, Saving
  <2> QED BY <1>4, <2>1, AsideKeep DEF CreateTemp
<1>5. CASE CreateFails(s)
  <2>1. Saving' \subseteq Saving
    BY <1>5, <1>a DEF CreateFails, Saving
  <2> QED BY <1>5, <2>1, AsideKeep DEF CreateFails
<1>6. CASE Rename(s)
  <2>1. s \in Saving /\ Saving' \subseteq Saving
    BY <1>6, <1>a DEF Rename, Saving
  <2>2. RestOf(file)' = read[s].rest
    BY <1>6, RestOfConfig DEF Rename, RestOf, Decode, TypeInv, TypeOK
  <2>3. RestOf(byHand)' = RestOf(byHand) /\ read' = read
    BY <1>6 DEF Rename, RestOf, Decode
  <2> QED BY <2>1, <2>2, <2>3 DEF KeepInv
<1>7. CASE RenameFails(s)
  <2>1. Saving' \subseteq Saving
    BY <1>7, <1>a DEF RenameFails, Saving
  <2> QED BY <1>7, <2>1, AsideKeep DEF RenameFails
<1>8. CASE ShowPage(s)
  <2>1. Saving' \subseteq Saving
    BY <1>8, <1>a DEF ShowPage, Saving
  <2> QED BY <1>8, <2>1, AsideKeep DEF ShowPage
<1>9. CASE Finish(s)
  <2>1. Saving' \subseteq Saving
    BY <1>9, <1>a DEF Finish, Saving
  <2> QED BY <1>9, <2>1, AsideKeep DEF Finish
<1> QED BY <1>1, <1>2, <1>3, <1>4, <1>5, <1>6, <1>7, <1>8, <1>9 DEF Handler

\* So does everything else; the user does not edit while there is a SaveAddr.
LEMMA NextKeep ==
    ASSUME ~EditsRace, ~StatMayFail, TypeInv, KeepInv, [Next]_vars
    PROVE  KeepInv'
<1>1. CASE UNCHANGED vars
  <2>1. Saving' = Saving
    BY <1>1 DEF vars, mains, handlers, Saving, Running
  <2> QED BY <1>1, <2>1, AsideKeep DEF vars, disk, handlers, history
<1>2. ASSUME NEW l \in Launches, Main(l) PROVE KeepInv'
  <2>1. /\ UNCHANGED <<disk, handlers, byHand>>
        /\ \E a, b : Go(l, a, b) /\ (a = "off" \/ Running(l))
    BY <1>2 DEF Main, FirstLoad, OpenForm, OpenFormFails, TimesOut, FormDone, SecondLoad, history,
        Go, Running
  <2>2. Saving' \subseteq Saving
    BY <2>1 DEF Saving, Running, Go, handlers, TypeInv, TypeOK
  <2> QED BY <2>1, <2>2, AsideKeep DEF disk, handlers
<1>3. ASSUME NEW l \in Launches, End(l) PROVE KeepInv'
  <2>1. Saving' \subseteq Saving
    BY <1>3 DEF End, Saving, Running, handlers, TypeInv, TypeOK
  <2> QED BY <1>3, <2>1, AsideKeep DEF End, disk, handlers, history
<1>4. CASE EditFile
  <2>1. Saving = {} /\ Saving' = {}
    BY <1>4 DEF EditFile, Saving, Running, mains, handlers
  <2> QED BY <1>4, <2>1 DEF EditFile, KeepInv, RestOf, Decode
<1> QED BY <1>1, <1>2, <1>3, <1>4, HandlerKeep DEF Next

\* The settings in the file are those the user put there, for any number of
\* launches, submissions, failures and interruptions, as long as nobody edits
\* the file under a running SaveAddr and os.Stat finds a file that is there.
THEOREM SettingsCorrect ==
    ASSUME ~EditsRace, ~StatMayFail PROVE Spec => []SettingsSurvive
<1>1. TypeInv /\ KeepInv /\ [Next]_vars => KeepInv'
    BY NextKeep
<1>2. KeepInv => SettingsSurvive
    BY DEF KeepInv, SettingsSurvive
<1> QED BY <1>1, <1>2, InitTypeInv, NextTypeInv, InitKeep, PTL DEF Spec

-----------------------------------------------------------------------------
(* Nobody is asked twice.                                                  *)

\* What gets as far as SaveAddr's reading is a usable address, and from its
\* rename on there is one in the file.
AskInv ==
    /\ \A s \in Posts :
         /\ post[s] \notin {"none", "failed"} => typed[s] \in Good
         /\ post[s] \in {"create", "rename"} => read[s].addr \in Good
    /\ (\E s \in since : post[s] \in {"page", "finish", "done"}) =>
         file \notin Undecodable /\ Decode(file).addr \in Good

\* At the start no page has been opened.
LEMMA InitAsk == Init => AskInv
BY DEF Init, AskInv

\* Steps that keep the file and move no submission towards its page.
LEMMA AsideAsk ==
    ASSUME AskInv, UNCHANGED <<file, handlers, since>> PROVE AskInv'
BY DEF AskInv, handlers, Decode

\* Every step of a handler keeps it.
LEMMA HandlerAsk ==
    ASSUME TypeInv, AskInv, NEW s \in Posts, Handler(s)
    PROVE  AskInv'
<1> USE DEF Step, disk, mains, history
<1>a. /\ post \in [Posts -> {"none", "decode", "create", "rename", "page", "finish", "done", "failed"}]
      /\ typed \in [Posts -> Addresses] /\ read \in [Posts -> FileConfigs] /\ since \subseteq Posts
    BY DEF TypeInv, TypeOK
<1>b. ASSUME UNCHANGED <<file, read>>, NEW to, post' = [post EXCEPT ![s] = to],
             \A r \in Posts \ {s} : typed'[r] = typed[r],
             to \notin {"none", "failed"} => typed'[s] \in Good,
             to \in {"create", "rename"} => post[s] = "create",
             to \in {"page", "finish", "done"} => post[s] \in {"page", "finish"} /\ since' = since,
             since' \subseteq since \union {s}
      PROVE  AskInv'
    BY <1>a, <1>b DEF AskInv, Decode
<1>1. CASE Submit(s)
  <2>1. PICK a \in Addresses :
             /\ typed' = [typed EXCEPT ![s] = a]
             /\ post' = [post EXCEPT ![s] = IF a \in Good THEN "decode" ELSE "failed"]
    BY <1>1 DEF Submit
  <2>2. /\ typed'[s] = a /\ \A r \in Posts \ {s} : typed'[r] = typed[r]
        /\ UNCHANGED <<file, read>> /\ since' = since \union {s}
    BY <1>1, <1>a, <2>1 DEF Submit
  <2>3. CASE a \in Good
    BY <1>b, <2>1, <2>2, <2>3
  <2>4. CASE a \notin Good
    BY <1>b, <2>1, <2>2, <2>4
  <2> QED BY <2>3, <2>4
<1>2. CASE DecodeExisting(s)
  <2>1. \A f \in Found \ Undecodable : [Decode(f) EXCEPT !.addr = typed[s]].addr = typed[s]
    BY DecodeFound DEF FileConfigs, TypeInv, TypeOK
  <2>2. read'[s].addr = typed[s] /\ \A r \in Posts \ {s} : read'[r] = read[r]
    BY <1>2, <1>a, <2>1 DEF DecodeExisting
  <2>3. typed[s] \in Good
    BY <1>2 DEF DecodeExisting, AskInv
  <2> QED BY <1>2, <1>a, <2>2, <2>3 DEF DecodeExisting, AskInv, Decode
<1>3. CASE DecodeFails(s)
    BY <1>3, <1>b DEF DecodeFails
<1>4. CASE CreateTemp(s)
    BY <1>4, <1>b DEF CreateTemp, AskInv
<1>5. CASE CreateFails(s)
    BY <1>5, <1>b DEF CreateFails
<1>6. CASE Rename(s)
  <2>1. read[s] \in FileConfigs /\ read[s].addr \in Good
    BY <1>6, <1>a DEF Rename, AskInv
  <2>2. file' \notin Undecodable /\ Decode(file').addr \in Good
    BY <1>6, <2>1, StartupAssumption DEF Rename, Decode
  <2> QED BY <1>6, <1>a, <2>2 DEF Rename, AskInv
<1>7. CASE RenameFails(s)
    BY <1>7, <1>b DEF RenameFails
<1>8. CASE ShowPage(s)
    BY <1>8, <1>b DEF ShowPage, AskInv
<1>9. CASE Finish(s)
    BY <1>9, <1>b DEF Finish, AskInv
<1> QED BY <1>1, <1>2, <1>3, <1>4, <1>5, <1>6, <1>7, <1>8, <1>9 DEF Handler

\* Every step keeps AskInv: only Open adds a page, and only when no address is known.
LEMMA NextAsk ==
    ASSUME TypeInv, AskInv, [Next]_vars
    PROVE  AskInv'
<1>1. CASE UNCHANGED vars
    BY <1>1, AsideAsk DEF vars, disk, history
<1>2. ASSUME NEW l \in Launches, Main(l) \/ End(l) PROVE AskInv'
    BY <1>2, AsideAsk DEF Main, FirstLoad, OpenForm, OpenFormFails, TimesOut, FormDone, SecondLoad,
        End, disk, history
<1>3. CASE EditFile
    BY <1>3 DEF EditFile, AskInv, handlers
<1> QED BY <1>1, <1>2, <1>3, HandlerAsk DEF Next

\* After the page no later launch asks again or refuses the address, for any
\* number of launches and submissions and in every environment.
THEOREM AskedOnceCorrect == Spec => []NeverAskedTwice
<1>1. TypeInv /\ AskInv /\ [Next]_vars => AskInv'
    BY NextAsk
<1>2. AskInv => NeverAskedTwice
    BY LoadSettled DEF AskInv, NeverAskedTwice
<1> QED BY <1>1, <1>2, InitTypeInv, NextTypeInv, InitAsk, PTL DEF Spec

-----------------------------------------------------------------------------
(* Setup settles the address.                                              *)

\* A form is finished by a submission that has shown its page, and a Setup
\* that returned has been.
SetupInv ==
    /\ \A l \in Launches : result[l] # NoPost => post[result[l]] = "done"
    /\ \A l \in settled : launch[l] \in {"reload", "tray", "gone"} /\ result[l] # NoPost
    /\ SetupSettlesTheAddress

\* At the start no page has claimed success.
LEMMA InitSetup == Init => SetupInv
BY DEF Init, SetupInv, SetupSettlesTheAddress

\* Steps of main; the second Load finds the address of the form's submission,
\* or of a later one.
LEMMA MainSetup ==
    ASSUME TypeInv, AskInv, SetupInv, NEW l \in Launches, Main(l) \/ End(l)
    PROVE  SetupInv'
<1>a. /\ launch \in [Launches -> {"off", "setup", "asking", "reload", "tray", "gone"}]
      /\ loaded \in [Launches -> Addresses \union Errors] /\ settled \subseteq Launches
    BY DEF TypeInv, TypeOK
<1>b. UNCHANGED <<result, handlers, since>>
    BY DEF Main, FirstLoad, OpenForm, OpenFormFails, TimesOut, FormDone, SecondLoad, End, history
<1>c. ASSUME settled' = settled, NEW to, launch' = [launch EXCEPT ![l] = to],
             l \in settled => to = "gone",
             \A k \in Launches \ {l} : loaded'[k] = loaded[k]
      PROVE  SetupInv'
    BY <1>a, <1>b, <1>c DEF SetupInv, SetupSettlesTheAddress, handlers
<1>1. CASE FirstLoad(l)
    BY <1>1, <1>a, <1>c DEF FirstLoad, Go, history, SetupInv
<1>2. CASE OpenForm(l)
    BY <1>2, <1>c DEF OpenForm, Go, history, SetupInv
<1>3. CASE OpenFormFails(l)
    BY <1>3, <1>c DEF OpenFormFails, Go, history, SetupInv
<1>4. CASE TimesOut(l)
    BY <1>4, <1>c DEF TimesOut, Go, history, SetupInv
<1>5. CASE FormDone(l)
    BY <1>5, <1>a, <1>b DEF FormDone, Go, SetupInv, SetupSettlesTheAddress, handlers
<1>6. CASE SecondLoad(l)
  <2>1. ASSUME result[l] \in since, result[l] # NoPost
        PROVE  loaded'[l] \in Good \union {"bad setting"}
    <3>1. file \notin Undecodable /\ Decode(file).addr \in Good
      BY <2>1 DEF SetupInv, AskInv
    <3> QED BY <1>6, <1>a, <3>1, LoadSettled DEF SecondLoad
  <2> QED BY <1>6, <1>a, <1>b, <2>1 DEF SecondLoad, Go, SetupInv, SetupSettlesTheAddress, handlers, history
<1>7. CASE End(l)
    BY <1>7, <1>c DEF End, history, handlers
<1> QED BY <1>1, <1>2, <1>3, <1>4, <1>5, <1>6, <1>7 DEF Main

\* Steps of handlers: one that has finished a form does not go on.
LEMMA HandlerSetup ==
    ASSUME TypeInv, SetupInv, NEW s \in Posts, Handler(s)
    PROVE  SetupInv'
<1>a. /\ post \in [Posts -> {"none", "decode", "create", "rename", "page", "finish", "done", "failed"}]
      /\ result \in [Launches -> Posts \union {NoPost}] /\ settled \subseteq Launches
      /\ of \in [Posts -> Launches]
    BY DEF TypeInv, TypeOK
<1>b. ASSUME UNCHANGED <<launch, loaded, result, settled>>, NEW to,
             post' = [post EXCEPT ![s] = to], post[s] # "done", since' \in {since, since \union {s}}
      PROVE  SetupInv'
    BY <1>a, <1>b DEF SetupInv, SetupSettlesTheAddress
<1>1. CASE Submit(s)
    BY <1>1, <1>b DEF Submit, mains
<1>2. CASE Finish(s)
  <2>1. /\ \A l \in Launches : result[l] # NoPost => result'[l] = result[l]
        /\ \A l \in Launches : result'[l] \in {result[l], s}
        /\ post'[s] = "done" /\ \A r \in Posts \ {s} : post'[r] = post[r]
        /\ UNCHANGED <<launch, loaded, settled, since>>
    BY <1>2, <1>a DEF Finish, Step, FirstNonEmpty, history
  <2>2. \A l \in Launches : result'[l] # NoPost => post'[result'[l]] = "done"
    BY <1>a, <2>1 DEF SetupInv
  <2>3. \A l \in settled : result[l] # NoPost /\ result'[l] = result[l]
    BY <1>a, <2>1 DEF SetupInv
  <2> QED BY <2>1, <2>2, <2>3 DEF SetupInv, SetupSettlesTheAddress
<1>3. CASE ~Submit(s) /\ ~Finish(s)
    BY <1>3, <1>b DEF Handler, DecodeExisting, DecodeFails, CreateTemp, CreateFails, Rename,
        RenameFails, ShowPage, Step, mains, history
<1> QED BY <1>1, <1>2, <1>3

\* Every step keeps SetupInv.
LEMMA NextSetup ==
    ASSUME TypeInv, AskInv, SetupInv, [Next]_vars
    PROVE  SetupInv'
<1>1. CASE UNCHANGED vars
    BY <1>1 DEF vars, mains, handlers, history, SetupInv, SetupSettlesTheAddress
<1>2. CASE EditFile
    BY <1>2 DEF EditFile, mains, handlers, SetupInv, SetupSettlesTheAddress
<1> QED BY <1>1, <1>2, MainSetup, HandlerSetup DEF Next

\* A Setup that returned no error leaves nothing but another setting for the
\* second Load to refuse, for any number of launches and submissions.
THEOREM SetupCorrect == Spec => []SetupSettlesTheAddress
<1>1. TypeInv /\ AskInv /\ [Next]_vars => AskInv'
    BY NextAsk
<1>2. TypeInv /\ AskInv /\ SetupInv /\ [Next]_vars => SetupInv'
    BY NextSetup
<1>3. SetupInv => SetupSettlesTheAddress
    BY DEF SetupInv
<1> QED BY <1>1, <1>2, <1>3, InitTypeInv, NextTypeInv, InitAsk, InitSetup, PTL DEF Spec
=============================================================================
