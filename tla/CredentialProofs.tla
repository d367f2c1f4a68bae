-------------------------- MODULE CredentialProofs --------------------------
(* Theorems about Credential, for any number of tokens and goroutines.     *)
EXTENDS Credential, TLAPS

-----------------------------------------------------------------------------
(* Types.                                                                  *)

\* A login that is saving has a token in hand, and a file to write it to.
TypeInv ==
    /\ TypeOK
    /\ \A g \in Logins :
         /\ login[g] \in {"create", "write", "rename"} => hand[g] \in Tokens
         /\ login[g] \in {"write", "rename"} => temp[g] # NoToken

\* The types hold at the start.
LEMMA InitTypeInv == Init => TypeInv
<1> SUFFICES ASSUME Init PROVE TypeInv
    OBVIOUS
<1> QED BY DEF Init, TypeInv, TypeOK, Content

\* A step of a login keeps the types.
LEMMA LoginType == ASSUME TypeInv, NEW g \in Logins, LoginStep(g) PROVE TypeInv'
<1> USE CredentialAssumption DEF TypeInv, TypeOK, Content, Go, disk, server, logouts
<1>1. CASE StartFlow(g)
    BY <1>1 DEF StartFlow
<1>2. CASE FlowFails(g)
    BY <1>2 DEF FlowFails
<1>3. CASE FlowSucceeds(g)
    BY <1>3 DEF FlowSucceeds
<1>4. CASE CreateTemp(g)
    BY <1>4 DEF CreateTemp
<1>5. CASE CreateFails(g)
    BY <1>5 DEF CreateFails
<1>6. CASE WriteTemp(g)
    BY <1>6 DEF WriteTemp
<1>7. CASE Rename(g)
    BY <1>7 DEF Rename
<1>8. CASE WriteOrRenameFails(g)
    BY <1>8 DEF WriteOrRenameFails
<1>9. CASE ForcePoll(g)
    BY <1>9 DEF ForcePoll
<1> QED BY <1>1, <1>2, <1>3, <1>4, <1>5, <1>6, <1>7, <1>8, <1>9 DEF LoginStep

\* A step of a logout keeps the types.
LEMMA LogoutType == ASSUME TypeInv, NEW o \in Logouts, LogoutStep(o) PROVE TypeInv'
<1> USE DEF TypeInv, TypeOK, Content, Pass, disk, server, logins
<1>1. CASE LogoutReads(o)
    BY <1>1 DEF LogoutReads
<1>2. CASE Revoke(o)
    BY <1>2 DEF Revoke
<1>3. CASE Remove(o)
  <2>1. ended' \in [Logouts -> {"running", "silent", "alerted"}]
    BY <1>3 DEF Remove
  <2> QED BY <1>3, <2>1 DEF Remove
<1> QED BY <1>1, <1>2, <1>3 DEF LogoutStep

\* Every step keeps the types.
LEMMA NextTypeInv == TypeInv /\ [Next]_vars => TypeInv'
<1> SUFFICES ASSUME TypeInv, [Next]_vars PROVE TypeInv'
    OBVIOUS
<1> USE DEF TypeInv, TypeOK, Content, disk, server, logins, logouts
<1>1. CASE UNCHANGED vars
    BY <1>1 DEF vars
<1>2. CASE TerminalLogin
    BY <1>2 DEF TerminalLogin
<1>3. CASE Chmod
    BY <1>3 DEF Chmod
<1>4. CASE Crash
    BY <1>4 DEF Crash
<1>5. ASSUME NEW t \in Tokens, Lapse(t) PROVE TypeInv'
    BY <1>5 DEF Lapse
<1> QED BY <1>1, <1>2, <1>3, <1>4, <1>5, LoginType, LogoutType DEF Next

\* Every variable keeps its type, and the server honours only what it has
\* issued, for any number of goroutines and tokens.
THEOREM TypeCorrect == Spec => []TypeOK
<1>1. TypeInv => TypeOK
    BY DEF TypeInv
<1> QED BY <1>1, InitTypeInv, NextTypeInv, PTL DEF Spec

-----------------------------------------------------------------------------
(* The token file.                                                         *)

\* What is renamed over the token file is whole.
FileInv ==
    /\ TokenFileWhole
    /\ \A g \in Logins : login[g] = "rename" => temp[g] \in Tokens

\* At the start the file is absent or whole.
LEMMA InitFile == Init => FileInv
BY CredentialAssumption DEF Init, FileInv, TokenFileWhole

\* A step of a login keeps FileInv.
LEMMA LoginFile ==
    ASSUME TypeInv, FileInv, NEW g \in Logins, LoginStep(g) PROVE FileInv'
<1> USE CredentialAssumption
    DEF FileInv, TokenFileWhole, TypeInv, TypeOK, Go, disk
<1>1. CASE StartFlow(g)
    BY <1>1 DEF StartFlow
<1>2. CASE FlowFails(g)
    BY <1>2 DEF FlowFails
<1>3. CASE FlowSucceeds(g)
    BY <1>3 DEF FlowSucceeds
<1>4. CASE CreateTemp(g)
    BY <1>4 DEF CreateTemp
<1>5. CASE CreateFails(g)
    BY <1>5 DEF CreateFails
<1>6. CASE WriteTemp(g)
    BY <1>6 DEF WriteTemp
<1>7. CASE Rename(g)
    BY <1>7 DEF Rename
<1>8. CASE WriteOrRenameFails(g)
    BY <1>8 DEF WriteOrRenameFails
<1>9. CASE ForcePoll(g)
    BY <1>9 DEF ForcePoll
<1> QED BY <1>1, <1>2, <1>3, <1>4, <1>5, <1>6, <1>7, <1>8, <1>9 DEF LoginStep

\* Every step keeps FileInv.
LEMMA NextFile ==
    ASSUME TypeInv, FileInv, [Next]_vars PROVE FileInv'
<1> USE CredentialAssumption DEF FileInv, TokenFileWhole, disk, logins
<1>1. CASE UNCHANGED vars
    BY <1>1 DEF vars
<1>2. ASSUME NEW o \in Logouts, LogoutStep(o) PROVE FileInv'
    BY <1>2 DEF LogoutStep, LogoutReads, Revoke, Remove
<1>3. CASE TerminalLogin
    BY <1>3 DEF TerminalLogin
<1>4. CASE Chmod \/ Crash \/ \E t \in Tokens : Lapse(t)
    BY <1>4 DEF Chmod, Crash, Lapse
<1> QED BY <1>1, <1>2, <1>3, <1>4, LoginFile DEF Next

\* Whoever reads the token file finds a whole token or none, at any moment of
\* any number of logins, failures and crashes.
THEOREM FileCorrect == Spec => []TokenFileWhole
<1>1. FileInv => TokenFileWhole
    BY DEF FileInv
<1>2. TypeInv /\ FileInv /\ [Next]_vars => FileInv'
    BY NextFile
<1> QED BY <1>1, <1>2, InitTypeInv, NextTypeInv, InitFile, PTL DEF Spec

-----------------------------------------------------------------------------
(* Silence means revoked.                                                  *)

\* Every token about has been issued, so that none becomes valid again, and a
\* revocation without an error has taken its token away.
RevokeInv ==
    /\ file \in Tokens => file \in issued
    /\ \A g \in Logins : /\ hand[g] \in Tokens => hand[g] \in issued
                         /\ temp[g] \in Tokens => temp[g] \in issued
    /\ \A o \in Logouts :
         /\ held[o] \in Tokens => held[o] \in issued
         /\ logout[o] = "remove" /\ ~revokeErr[o] /\ held[o] \in Tokens => held[o] \notin valid
    /\ SilentMeansRevoked

\* No logout has ended at the start.
LEMMA InitRevoke == Init => RevokeInv
BY CredentialAssumption DEF Init, RevokeInv, SilentMeansRevoked

\* A step of a login keeps RevokeInv.
LEMMA LoginRevoke ==
    ASSUME TypeInv, RevokeInv, NEW g \in Logins, LoginStep(g) PROVE RevokeInv'
<1> USE CredentialAssumption
    DEF RevokeInv, SilentMeansRevoked, TypeInv, TypeOK, Go, disk, server, logouts
<1>1. CASE StartFlow(g)
    BY <1>1 DEF StartFlow
<1>2. CASE FlowFails(g)
    BY <1>2 DEF FlowFails
<1>3. CASE FlowSucceeds(g)
    BY <1>3 DEF FlowSucceeds
<1>4. CASE CreateTemp(g)
    BY <1>4 DEF CreateTemp
<1>5. CASE CreateFails(g)
    BY <1>5 DEF CreateFails
<1>6. CASE WriteTemp(g)
    BY <1>6 DEF WriteTemp
<1>7. CASE Rename(g)
    BY <1>7 DEF Rename
<1>8. CASE WriteOrRenameFails(g)
    BY <1>8 DEF WriteOrRenameFails
<1>9. CASE ForcePoll(g)
    BY <1>9 DEF ForcePoll
<1> QED BY <1>1, <1>2, <1>3, <1>4, <1>5, <1>6, <1>7, <1>8, <1>9 DEF LoginStep

\* A step of a logout keeps RevokeInv.
LEMMA LogoutRevoke ==
    ASSUME TypeInv, RevokeInv, NEW o \in Logouts, LogoutStep(o) PROVE RevokeInv'
<1> USE CredentialAssumption
    DEF RevokeInv, SilentMeansRevoked, TypeInv, TypeOK, Pass, disk, server, logins
<1>1. CASE LogoutReads(o)
    BY <1>1 DEF LogoutReads
<1>2. CASE Revoke(o)
    BY <1>2 DEF Revoke
<1>3. CASE Remove(o)
    BY <1>3 DEF Remove
<1> QED BY <1>1, <1>2, <1>3 DEF LogoutStep

\* Every step keeps RevokeInv.
LEMMA NextRevoke ==
    ASSUME TypeInv, RevokeInv, [Next]_vars PROVE RevokeInv'
<1> USE CredentialAssumption
    DEF RevokeInv, SilentMeansRevoked, TypeInv, TypeOK, disk, server, logins, logouts
<1>1. CASE UNCHANGED vars
    BY <1>1 DEF vars
<1>2. CASE TerminalLogin
    BY <1>2 DEF TerminalLogin
<1>3. CASE Chmod
    BY <1>3 DEF Chmod
<1>4. CASE Crash
    BY <1>4 DEF Crash
<1>5. ASSUME NEW t \in Tokens, Lapse(t) PROVE RevokeInv'
    BY <1>5 DEF Lapse
<1> QED BY <1>1, <1>2, <1>3, <1>4, <1>5, LoginRevoke, LogoutRevoke DEF Next

\* A logout that reports nothing has had the token it read revoked, for any
\* number of logins, logouts and terminals at once.
THEOREM SilenceCorrect == Spec => []SilentMeansRevoked
<1>1. RevokeInv => SilentMeansRevoked
    BY DEF RevokeInv
<1>2. TypeInv /\ RevokeInv /\ [Next]_vars => RevokeInv'
    BY NextRevoke
<1> QED BY <1>1, <1>2, InitTypeInv, NextTypeInv, InitRevoke, PTL DEF Spec

-----------------------------------------------------------------------------
(* Tokens in hand.                                                         *)

\* A token in hand is that of one login, which has yet to save it, and what is
\* about to be renamed over the token file is that token.
HandInv ==
    /\ \A g \in Logins : hand[g] # NoToken => login[g] \in {"create", "write", "rename"}
    /\ \A g, h \in Logins : hand[g] = hand[h] /\ hand[g] # NoToken => g = h
    /\ \A g \in Logins : login[g] = "rename" => temp[g] = hand[g]

\* No login has a token at the start.
LEMMA InitHand == Init => HandInv
BY DEF Init, HandInv

\* A step of a login keeps HandInv.
LEMMA LoginHand ==
    ASSUME TypeInv, RevokeInv, HandInv, NEW g \in Logins, LoginStep(g) PROVE HandInv'
<1> USE CredentialAssumption DEF HandInv, TypeInv, TypeOK, Go, disk
<1>1. CASE StartFlow(g)
    BY <1>1 DEF StartFlow
<1>2. CASE FlowFails(g)
    BY <1>2 DEF FlowFails
<1>3. CASE FlowSucceeds(g)
  <2>1. PICK t \in Tokens \ issued : hand' = [hand EXCEPT ![g] = t]
    BY <1>3 DEF FlowSucceeds
  <2>2. \A h \in Logins : hand[h] # t
    BY <2>1 DEF RevokeInv
  <2> QED BY <1>3, <2>1, <2>2 DEF FlowSucceeds
<1>4. CASE CreateTemp(g)
    BY <1>4 DEF CreateTemp
<1>5. CASE CreateFails(g)
    BY <1>5 DEF CreateFails
<1>6. CASE WriteTemp(g)
    BY <1>6 DEF WriteTemp
<1>7. CASE Rename(g)
    BY <1>7 DEF Rename
<1>8. CASE WriteOrRenameFails(g)
    BY <1>8 DEF WriteOrRenameFails
<1>9. CASE ForcePoll(g)
    BY <1>9 DEF ForcePoll
<1> QED BY <1>1, <1>2, <1>3, <1>4, <1>5, <1>6, <1>7, <1>8, <1>9 DEF LoginStep

\* Every step keeps HandInv.
LEMMA NextHand ==
    ASSUME TypeInv, RevokeInv, HandInv, [Next]_vars PROVE HandInv'
<1> USE DEF HandInv, disk, logins
<1>1. CASE UNCHANGED vars
    BY <1>1 DEF vars
<1>2. ASSUME NEW o \in Logouts, LogoutStep(o) PROVE HandInv'
    BY <1>2 DEF LogoutStep, LogoutReads, Revoke, Remove
<1>3. CASE TerminalLogin \/ Chmod \/ Crash \/ \E t \in Tokens : Lapse(t)
    BY <1>3 DEF TerminalLogin, Chmod, Crash, Lapse
<1> QED BY <1>1, <1>2, <1>3, LoginHand DEF Next

-----------------------------------------------------------------------------
(* Temporary files.                                                        *)

\* A token in a temporary file is in the hand of the login that is about to
\* rename it, or, if the file is left for good, in nobody's; what is in a hand is
\* not in the token file yet.
CopyInv ==
    /\ \A g \in Logins : temp[g] \in Tokens => login[g] = "rename" /\ temp[g] = hand[g]
    /\ \A t \in litter \cap Tokens : /\ t \in issued /\ t # file
                                    /\ \A g \in Logins : hand[g] # t
    /\ file \in Tokens => \A g \in Logins : hand[g] # file

\* There is no token anywhere at the start.
LEMMA InitCopy == Init => CopyInv
BY CredentialAssumption DEF Init, CopyInv

\* A step of a login keeps CopyInv.
LEMMA LoginCopy ==
    ASSUME TypeInv, RevokeInv, HandInv, CopyInv, NEW g \in Logins, LoginStep(g) PROVE CopyInv'
<1> USE CredentialAssumption DEF CopyInv, TypeInv, TypeOK, Go, disk, server
<1>1. CASE StartFlow(g)
    BY <1>1 DEF StartFlow
<1>2. CASE FlowFails(g)
    BY <1>2 DEF FlowFails
<1>3. CASE FlowSucceeds(g)
  <2>1. PICK t \in Tokens \ issued :
            issued' = issued \union {t} /\ hand' = [hand EXCEPT ![g] = t]
    BY <1>3 DEF FlowSucceeds
  <2>2. t # file /\ t \notin litter /\ UNCHANGED <<file, temp, litter>>
    BY <1>3, <2>1 DEF FlowSucceeds, RevokeInv
  <2>3. \A h \in Logins : login'[h] = "rename" <=> login[h] = "rename"
    BY <1>3 DEF FlowSucceeds
  <2>4. \A h \in Logins : hand'[h] = IF h = g THEN t ELSE hand[h]
    BY <2>1
  <2>5. temp[g] \notin Tokens
    BY <1>3 DEF FlowSucceeds
  <2> QED BY <2>1, <2>2, <2>3, <2>4, <2>5
<1>4. CASE CreateTemp(g)
    BY <1>4 DEF CreateTemp
<1>5. CASE CreateFails(g)
    BY <1>5 DEF CreateFails
<1>6. CASE WriteTemp(g)
    BY <1>6 DEF WriteTemp
<1>7. CASE Rename(g)
  <2>1. PICK t \in Tokens : hand[g] = t /\ temp[g] = t
    BY <1>7 DEF Rename, HandInv
  <2>2. file' = t /\ UNCHANGED <<litter, issued>>
    BY <1>7, <2>1 DEF Rename
  <2>3. \A h \in Logins : /\ hand'[h] = IF h = g THEN NoToken ELSE hand[h]
                          /\ temp'[h] = IF h = g THEN NoToken ELSE temp[h]
                          /\ h # g => login'[h] = login[h]
    BY <1>7 DEF Rename
  <2>4. \A h \in Logins : h # g => hand[h] # t
    BY <2>1 DEF HandInv
  <2> QED BY <2>1, <2>2, <2>3, <2>4
<1>8. CASE WriteOrRenameFails(g)
  <2>1. \A h \in Logins : /\ hand'[h] = IF h = g THEN NoToken ELSE hand[h]
                          /\ temp'[h] = IF h = g THEN NoToken ELSE temp[h]
                          /\ h # g => login'[h] = login[h]
    BY <1>8 DEF WriteOrRenameFails
  <2>2. UNCHANGED <<file, issued>> /\ hand[g] \in Tokens
    BY <1>8 DEF WriteOrRenameFails
  <2>3. temp[g] \in Tokens => temp[g] = hand[g]
    OBVIOUS
  <2>4. \A t \in litter' \cap Tokens : t \in litter \/ t = hand[g]
    BY <1>8, <2>3 DEF WriteOrRenameFails
  <2>5. /\ hand[g] \in issued /\ hand[g] # file
        /\ \A h \in Logins : h # g => hand[h] # hand[g]
    BY <2>2 DEF RevokeInv, HandInv
  <2> QED BY <2>1, <2>2, <2>4, <2>5
<1>9. CASE ForcePoll(g)
    BY <1>9 DEF ForcePoll
<1> QED BY <1>1, <1>2, <1>3, <1>4, <1>5, <1>6, <1>7, <1>8, <1>9 DEF LoginStep

\* Every step keeps CopyInv.
LEMMA NextCopy ==
    ASSUME TypeInv, RevokeInv, HandInv, CopyInv, [Next]_vars PROVE CopyInv'
<1> USE CredentialAssumption DEF CopyInv, disk, server, logins
<1>1. CASE UNCHANGED vars
    BY <1>1 DEF vars
<1>2. ASSUME NEW o \in Logouts, LogoutStep(o) PROVE CopyInv'
    BY <1>2 DEF LogoutStep, LogoutReads, Revoke, Remove
<1>3. CASE TerminalLogin
  <2>1. PICK t \in Tokens \ issued : issued' = issued \union {t} /\ file' = t
    BY <1>3 DEF TerminalLogin
  <2>2. t \notin litter /\ \A g \in Logins : hand[g] # t
    BY <2>1 DEF RevokeInv
  <2> QED BY <1>3, <2>1, <2>2 DEF TerminalLogin
<1>4. CASE Crash
  <2>1. \A g \in Logins : hand'[g] = NoToken /\ temp'[g] = NoToken
    BY <1>4 DEF Crash
  <2>2. \A t \in litter' \cap Tokens : t \in litter \/ \E g \in Logins : t = hand[g]
    BY <1>4 DEF Crash
  <2>3. \A g \in Logins : hand[g] \in Tokens => hand[g] \in issued /\ hand[g] # file
    BY DEF RevokeInv
  <2> QED BY <1>4, <2>1, <2>2, <2>3 DEF Crash
<1>5. CASE Chmod \/ \E t \in Tokens : Lapse(t)
    BY <1>5 DEF Chmod, Lapse
<1> QED BY <1>1, <1>2, <1>3, <1>4, <1>5, LoginCopy DEF Next

\* No temporary file, left behind or not, has the token of the token file in
\* it, whatever fails, the removal of the temporary file included.
THEOREM CopyCorrect == Spec => []NoCopyLeft
<1>1. CopyInv => NoCopyLeft
    BY DEF CopyInv, NoCopyLeft
<1>2. TypeInv /\ RevokeInv /\ HandInv /\ CopyInv /\ [Next]_vars => CopyInv'
    BY NextCopy
<1>3. TypeInv /\ RevokeInv /\ HandInv /\ [Next]_vars => HandInv'
    BY NextHand
<1>4. TypeInv /\ RevokeInv /\ [Next]_vars => RevokeInv'
    BY NextRevoke
<1> QED BY <1>1, <1>2, <1>3, <1>4, InitTypeInv, NextTypeInv, InitRevoke, InitHand, InitCopy, PTL
    DEF Spec

-----------------------------------------------------------------------------
(* The token store, to whoever reads it.                                   *)

\* The tokens on their way to the file.
Coming == {hand[g] : g \in Logins} \ {NoToken}

\* A login that lets go of its token takes it, and no other, off the way.
LEMMA LettingGo ==
    ASSUME TypeInv, HandInv, NEW g \in Logins, hand[g] # NoToken,
           hand' = [hand EXCEPT ![g] = NoToken]
    PROVE  Coming' = Coming \ {hand[g]} /\ hand[g] \in Coming
<1>1. \A h \in Logins : hand'[h] = IF h = g THEN NoToken ELSE hand[h]
    BY DEF TypeInv, TypeOK
<1>2. \A h \in Logins : h # g => hand[h] # hand[g]
    BY DEF HandInv
<1> QED BY <1>1, <1>2 DEF Coming

\* Where no hand, no issue and no file changes, neither does the store.
LEMMA StoreStutters ==
    ASSUME UNCHANGED <<file, issued, hand>>
    PROVE  UNCHANGED Store!storeVars
BY DEF Store!storeVars

\* A step of a login issues a token, saves it, gives it up, or is nothing to
\* the store.
LEMMA LoginStore ==
    ASSUME TypeInv, HandInv, NEW g \in Logins, LoginStep(g)
    PROVE  [Store!StoreNext]_Store!storeVars
<1> USE CredentialAssumption DEF Go, disk, server
<1>1. CASE StartFlow(g) \/ FlowFails(g) \/ CreateTemp(g) \/ WriteTemp(g) \/ ForcePoll(g)
    BY <1>1, StoreStutters
    DEF StartFlow, FlowFails, CreateTemp, WriteTemp, ForcePoll
<1>2. CASE FlowSucceeds(g)
  <2>1. PICK t \in Tokens \ issued :
            issued' = issued \union {t} /\ hand' = [hand EXCEPT ![g] = t]
    BY <1>2 DEF FlowSucceeds
  <2>2. hand[g] = NoToken
    BY <1>2 DEF FlowSucceeds, HandInv
  <2>3. \A h \in Logins : hand'[h] = IF h = g THEN t ELSE hand[h]
    BY <2>1 DEF TypeInv, TypeOK
  <2>4. Coming' = Coming \union {t}
    BY <2>1, <2>2, <2>3 DEF Coming
  <2>5. Store!Issue(t)
    BY <1>2, <2>1, <2>4 DEF FlowSucceeds, Store!Issue, Coming
  <2> QED BY <2>5 DEF Store!StoreNext
<1>3. CASE Rename(g)
  <2>1. PICK t \in Tokens : hand[g] = t /\ temp[g] = t
    BY <1>3 DEF Rename, TypeInv, HandInv
  <2>2. Coming' = Coming \ {t} /\ t \in Coming
    BY <1>3, <2>1, LettingGo DEF Rename
  <2>3. file' = t /\ issued' = issued
    BY <1>3, <2>1 DEF Rename
  <2>4. Store!Save(t)
    BY <2>2, <2>3 DEF Store!Save, Coming
  <2> QED BY <2>4 DEF Store!StoreNext
<1>4. CASE CreateFails(g) \/ WriteOrRenameFails(g)
  <2>1. hand[g] # NoToken /\ hand' = [hand EXCEPT ![g] = NoToken]
    BY <1>4 DEF CreateFails, WriteOrRenameFails, TypeInv
  <2>2. Coming' = Coming \ {hand[g]} /\ hand[g] \in Coming
    BY <2>1, LettingGo
  <2>3. Store!GiveUp
    BY <1>4, <2>2 DEF CreateFails, WriteOrRenameFails, Store!GiveUp, Coming
  <2> QED BY <2>3 DEF Store!StoreNext
<1> QED BY <1>1, <1>2, <1>3, <1>4 DEF LoginStep

\* So is every other step.
LEMMA NextStore ==
    ASSUME TypeInv, HandInv, [Next]_vars
    PROVE  [Store!StoreNext]_Store!storeVars
<1> USE DEF disk, server, logins
<1>1. CASE UNCHANGED vars
    BY <1>1, StoreStutters DEF vars
<1>2. ASSUME NEW o \in Logouts, LogoutStep(o)
      PROVE  [Store!StoreNext]_Store!storeVars
  <2>1. CASE LogoutReads(o) \/ Revoke(o)
    BY <2>1, StoreStutters DEF LogoutReads, Revoke
  <2>2. CASE Remove(o)
    <3>1. CASE file' = NoToken
      <4>1. Store!Clear
        BY <2>2, <3>1 DEF Remove, Store!Clear
      <4> QED BY <4>1 DEF Store!StoreNext
    <3>2. CASE UNCHANGED file
      BY <2>2, <3>2, StoreStutters DEF Remove
    <3> QED BY <2>2, <3>1, <3>2 DEF Remove
  <2> QED BY <1>2, <2>1, <2>2 DEF LogoutStep
<1>3. CASE TerminalLogin
  <2>1. PICK t \in Tokens : Store!IssueAndSave(t)
    BY <1>3 DEF TerminalLogin, Store!IssueAndSave
  <2> QED BY <2>1 DEF Store!StoreNext
<1>4. CASE Crash
  <2>1. \A g \in Logins : hand'[g] = NoToken
    BY <1>4 DEF Crash
  <2>2. Coming' = {}
    BY <2>1 DEF Coming
  <2>3. CASE Coming = {}
    BY <1>4, <2>2, <2>3 DEF Crash, Coming, Store!storeVars
  <2>4. CASE Coming # {}
    <3>1. Store!GiveUp
      BY <1>4, <2>2, <2>4 DEF Crash, Coming, Store!GiveUp
    <3> QED BY <3>1 DEF Store!StoreNext
  <2> QED BY <2>3, <2>4
<1>5. CASE Chmod \/ \E t \in Tokens : Lapse(t)
    BY <1>5, StoreStutters DEF Chmod, Lapse
<1> QED BY <1>1, <1>2, <1>3, <1>4, <1>5, LoginStore DEF Next

\* WriteToken, removeToken, their failures and the end of the process are, to
\* whoever reads the token file, the operations of a TokenStore, for any number
\* of logins, logouts and tokens: nothing torn, nothing twice, nothing back
\* from the past.
THEOREM StoreCorrect == Spec => KeepsTokenStore
<1>1. Init => Store!StoreInit
    BY DEF Init, Store!StoreInit
<1>2. TypeInv /\ RevokeInv /\ HandInv /\ [Next]_vars => HandInv'
    BY NextHand
<1>3. TypeInv /\ RevokeInv /\ [Next]_vars => RevokeInv'
    BY NextRevoke
<1>4. TypeInv /\ HandInv /\ [Next]_vars => [Store!StoreNext]_Store!storeVars
    BY NextStore
<1> QED BY <1>1, <1>2, <1>3, <1>4, InitTypeInv, NextTypeInv, InitRevoke, InitHand, PTL
    DEF Spec, KeepsTokenStore, Store!StoreSpec
=============================================================================
