------------------------------ MODULE AuthFlow ------------------------------
(***************************************************************************)
(* A browser round trip (internal/authflow): the single login slot, the    *)
(* loopback listeners, the handler goroutines of the HTTP server and the   *)
(* one outcome that ends the flow, for the password form (browser.go), the *)
(* OIDC callback (oidc.go) and first-run setup (setup.go).                 *)
(*                                                                         *)
(* A request is one run of a handler on a goroutine of its own; what the   *)
(* server hands out for it, a token, or for setup the saved address, goes  *)
(* by the name of the request.  Which headers, credentials and codes are   *)
(* acceptable is a choice: a request is served or turned away.             *)
(***************************************************************************)
EXTENDS Integers, FiniteSets

CONSTANTS
    Flows,     \* calls of OIDC, UserpassBrowser and Setup, and the requests the
    Requests,  \* browser makes: each numbered in the order of its beginning
    NoFlow,    \* nobody holds the slot; a request not made yet
    Failure,   \* the outcome of a flow that returns an error
    Nothing    \* an empty channel; a flow that has not returned

ASSUME NameAssumption ==
    /\ Flows \subseteq Nat /\ Requests \subseteq Nat
    /\ NoFlow \notin Flows
    /\ Failure \notin Requests /\ Nothing \notin Requests /\ Failure # Nothing

Families == {"v4", "v6"}
Kinds == {"userpass", "oidc", "setup"}

VARIABLES
    slot,      \* inFlight, and who holds it
    flow,      \* where each flow stands
    kind,      \* which of the three it is
    routed,    \* whether its handler is registered on the session's mux
    listener,  \* listener[f][family]
    once,      \* whether session.finish has run
    done,      \* the channel session.done, of capacity one
    shut,      \* whether Shutdown has begun on the session's server
    result,    \* what the flow returned
    target,    \* the flow whose session a request reached
    request,   \* where each request stands
    page,      \* the last page it was sent
    granted,   \* requests the server (or Save) has said yes to
    port6      \* the callback port on [::1]: "free", "taken" by another
               \* process, or "absent" on a host without IPv6

session == <<listener, once, done, shut>>
browser == <<target, request, page, granted>>
vars == <<slot, flow, kind, routed, session, result, browser, port6>>

Open == {"bound", "starting", "serving"}

\* The OIDC callback port is fixed, so two flows may compete for it.
HoldsCallback(f, fam) == kind[f] = "oidc" /\ listener[f][fam] \in Open

Init ==
    /\ slot = NoFlow
    /\ flow = [f \in Flows |-> "none"]
    /\ kind \in {k \in [Flows -> Kinds] : \A f, g \in Flows :
                    k[g] = "setup" => g <= f}
    /\ routed = [f \in Flows |-> kind[f] # "oidc"]
    /\ listener = [f \in Flows |-> [fam \in Families |-> "none"]]
    /\ once = [f \in Flows |-> FALSE]
    /\ done = [f \in Flows |-> Nothing]
    /\ shut = [f \in Flows |-> FALSE]
    /\ result = [f \in Flows |-> Nothing]
    /\ target = [r \in Requests |-> NoFlow]
    /\ request = [r \in Requests |-> "none"]
    /\ page = [r \in Requests |-> "none"]
    /\ granted = {}
    /\ port6 \in {"free", "taken", "absent"}

-----------------------------------------------------------------------------
(* The goroutine that called OIDC, UserpassBrowser or Setup.               *)

Go(f, from, to) == flow[f] = from /\ flow' = [flow EXCEPT ![f] = to]

\* There is a tray to log in from once first-run setup, if any, has succeeded.
MayStart(f) ==
    \A g \in Flows : g < f =>
        flow[g] # "none" /\ (kind[g] = "setup" => result[g] \in Requests)

\* acquire: compare and swap.
Acquire(f) ==
    /\ MayStart(f)
    /\ Go(f, "none", "bind")
    /\ slot = NoFlow
    /\ slot' = f
    /\ UNCHANGED <<kind, routed, session, result, browser, port6>>

\* ErrBusy.
Busy(f) ==
    /\ MayStart(f)
    /\ Go(f, "none", "returned")
    /\ slot # NoFlow
    /\ result' = [result EXCEPT ![f] = Failure]
    /\ UNCHANGED <<slot, kind, routed, session, browser, port6>>

\* Slip: an early return forgets the slot.
FailKeepsSlot(f) ==
    /\ flow' = [flow EXCEPT ![f] = "returned"]
    /\ result' = [result EXCEPT ![f] = Failure]
    /\ UNCHANGED slot

\* An early return with an error; the deferred release runs.
Fail(f) ==
    /\ flow' = [flow EXCEPT ![f] = "returned"]
    /\ result' = [result EXCEPT ![f] = Failure]
    /\ slot' = NoFlow

\* newSession, or the first half of bindLoopbackPair.
BindV4(f) ==
    /\ Go(f, "bind", IF kind[f] = "oidc" THEN "bind6" ELSE "open")
    /\ \A g \in Flows : kind[f] = "oidc" => ~HoldsCallback(g, "v4")
    /\ listener' = [listener EXCEPT ![f]["v4"] = "bound"]
    /\ UNCHANGED <<slot, kind, routed, once, done, shut, result, browser, port6>>

\* The port is held by an earlier session of ours or by another process.
BindV4Fails(f) ==
    /\ flow[f] = "bind"
    /\ Fail(f)
    /\ UNCHANGED <<kind, routed, session, browser, port6>>

\* The [::1] half of the pair; a host without IPv6 does without.
BindV6(f) ==
    /\ Go(f, "bind6", "authurl")
    /\ \/ /\ port6 = "free"
          /\ \A g \in Flows : ~HoldsCallback(g, "v6")
          /\ listener' = [listener EXCEPT ![f]["v6"] = "bound"]
       \/ /\ port6 = "absent"
          /\ UNCHANGED listener
    /\ UNCHANGED <<slot, kind, routed, once, done, shut, result, browser, port6>>

\* Slip: any error of the second bind is taken for a missing IPv6.
BindV6FailsOpen(f) ==
    /\ Go(f, "bind6", "authurl")
    /\ port6 = "taken" \/ \E g \in Flows : HoldsCallback(g, "v6")
    /\ UNCHANGED <<slot, kind, routed, session, result, browser, port6>>

\* Slip: the first listener is forgotten.
BindV6FailsUntidy(f) ==
    /\ flow[f] = "bind6"
    /\ port6 = "taken" \/ \E g \in Flows : HoldsCallback(g, "v6")
    /\ Fail(f)
    /\ UNCHANGED <<kind, routed, session, browser, port6>>

\* Anything else is fatal, and the 127.0.0.1 listener is closed again.
BindV6Fails(f) ==
    /\ flow[f] = "bind6"
    /\ port6 = "taken" \/ \E g \in Flows : HoldsCallback(g, "v6")
    /\ listener' = [listener EXCEPT ![f]["v4"] = "closed"]
    /\ Fail(f)
    /\ UNCHANGED <<kind, routed, once, done, shut, browser, port6>>

\* Slip: no sync.Once, so that a second finish waits for room in the channel.
FinishTwice(f, out) ==
    /\ done[f] = Nothing
    /\ done' = [done EXCEPT ![f] = out]
    /\ UNCHANGED once

\* session.finish: the first outcome goes into the channel, the rest nowhere.
Finish(f, out) ==
    /\ once' = [once EXCEPT ![f] = TRUE]
    /\ done' = IF once[f] THEN done ELSE [done EXCEPT ![f] = out]

\* auth_url answers and the callback route is registered, or it fails and the
\* session is finished before it is served.
AuthURL(f) ==
    /\ Go(f, "authurl", "open")
    /\ routed' = [routed EXCEPT ![f] = TRUE]
    /\ UNCHANGED <<slot, kind, session, result, browser, port6>>

AuthURLFails(f) ==
    /\ Go(f, "authurl", "serve")
    /\ Finish(f, Failure)
    /\ UNCHANGED <<slot, kind, routed, listener, shut, result, browser, port6>>

OpenURL(f) ==
    /\ Go(f, "open", "serve")
    /\ UNCHANGED <<slot, kind, routed, session, result, browser, port6>>

\* The browser does not start: a login finishes the session and serves it,
\* setup closes it.
OpenURLFails(f) ==
    \/ /\ kind[f] # "setup"
       /\ Go(f, "open", "serve")
       /\ Finish(f, Failure)
       /\ UNCHANGED <<slot, kind, routed, listener, shut, result, browser, port6>>
    \/ /\ kind[f] = "setup"
       /\ flow[f] = "open"
       /\ listener' = [listener EXCEPT ![f]["v4"] = "closed"]
       /\ Fail(f)
       /\ UNCHANGED <<kind, routed, once, done, shut, browser, port6>>

\* serve: one goroutine per listener is started, none has run yet.
Serve(f) ==
    /\ Go(f, "serve", "select")
    /\ listener' = [listener EXCEPT ![f] =
          [fam \in Families |-> IF @[fam] = "bound" THEN "starting" ELSE @[fam]]]
    /\ UNCHANGED <<slot, kind, routed, once, done, shut, result, browser, port6>>

\* http.Server.Serve: accept, unless Shutdown came first; then close.
ServeStarts(f, fam) ==
    /\ listener[f][fam] = "starting"
    /\ listener' = [listener EXCEPT ![f][fam] = IF shut[f] THEN "closed" ELSE "serving"]
    /\ UNCHANGED <<slot, flow, kind, routed, once, done, shut, result, browser, port6>>

\* Slip: the timer ends the select and sets no error.
SelectForgetsError(f) ==
    /\ Go(f, "select", "shutdown")
    /\ \/ /\ done[f] # Nothing
          /\ result' = [result EXCEPT ![f] = done[f]]
          /\ done' = [done EXCEPT ![f] = Nothing]
       \/ UNCHANGED <<result, done>>
    /\ UNCHANGED <<slot, kind, routed, listener, once, shut, browser, port6>>

\* The select: an outcome, the timer or the context, whichever is ready.
Select(f) ==
    /\ Go(f, "select", "shutdown")
    /\ \/ /\ done[f] # Nothing
          /\ result' = [result EXCEPT ![f] = done[f]]
          /\ done' = [done EXCEPT ![f] = Nothing]
       \/ /\ result' = [result EXCEPT ![f] = Failure]
          /\ UNCHANGED done
    /\ UNCHANGED <<slot, kind, routed, listener, once, shut, browser, port6>>

\* Shutdown closes the listeners that Serve has been given.
Shutdown(f) ==
    /\ Go(f, "shutdown", "drain")
    /\ shut' = [shut EXCEPT ![f] = TRUE]
    /\ listener' = [listener EXCEPT ![f] =
          [fam \in Families |-> IF @[fam] = "serving" THEN "closed" ELSE @[fam]]]
    /\ UNCHANGED <<slot, kind, routed, once, done, result, browser, port6>>

\* It waits for handlers two seconds at most; then the slot is released.
Return(f) ==
    /\ Go(f, "drain", "returned")
    /\ slot' = NoFlow
    /\ UNCHANGED <<kind, routed, session, result, browser, port6>>

FlowStep(f) ==
    \/ Acquire(f) \/ Busy(f) \/ BindV4(f) \/ BindV4Fails(f) \/ BindV6(f)
    \/ BindV6Fails(f) \/ AuthURL(f) \/ AuthURLFails(f) \/ OpenURL(f)
    \/ OpenURLFails(f) \/ Serve(f) \/ Select(f) \/ Shutdown(f) \/ Return(f)

-----------------------------------------------------------------------------
(* The browser and the handlers.                                           *)

Step(r, from, to) == request[r] = from /\ request' = [request EXCEPT ![r] = to]

\* A form submitted, or the provider's redirect.
Arrive(r, f) ==
    /\ Step(r, "none", "ask")
    /\ \A q \in Requests : q < r => request[q] # "none"
    /\ routed[f]
    /\ \E fam \in Families : listener[f][fam] = "serving"
    /\ target' = [target EXCEPT ![r] = f]
    /\ UNCHANGED <<slot, flow, kind, routed, session, result, page, granted, port6>>

\* login and validate, exchange, or Save: yes.
Grant(r) ==
    /\ Step(r, "ask", "tell")
    /\ granted' = granted \union {r}
    /\ UNCHANGED <<slot, flow, kind, routed, session, result, target, page, port6>>

\* Slip: the failed exchange is not followed by a return.
DenyFallsThrough(r) ==
    /\ Step(r, "ask", "finish")
    /\ page' = [page EXCEPT ![r] = "failed"]
    /\ UNCHANGED <<slot, flow, kind, routed, session, result, target, granted, port6>>

\* No: a form is shown again with the reason, an OIDC callback ends the flow.
Deny(r) ==
    /\ Step(r, "ask", IF kind[target[r]] = "oidc" THEN "abort" ELSE "over")
    /\ page' = [page EXCEPT ![r] = IF kind[target[r]] = "oidc" THEN "failed" ELSE "form"]
    /\ UNCHANGED <<slot, flow, kind, routed, session, result, target, granted, port6>>

\* The page says that it worked, before the flow is told.
TellSuccess(r) ==
    /\ Step(r, "tell", "finish")
    /\ page' = [page EXCEPT ![r] = "success"]
    /\ UNCHANGED <<slot, flow, kind, routed, session, result, target, granted, port6>>

FinishFlow(r) ==
    /\ request[r] \in {"finish", "abort"}
    /\ request' = [request EXCEPT ![r] = "over"]
    /\ Finish(target[r], IF request[r] = "finish" THEN r ELSE Failure)
    /\ UNCHANGED <<slot, flow, kind, routed, listener, shut, result, target, page, granted, port6>>

HandlerStep(r) == Grant(r) \/ Deny(r) \/ TellSuccess(r) \/ FinishFlow(r)

\* Another process takes or leaves the callback port on [::1].
OtherProcess ==
    \/ /\ port6 = "free"
       /\ \A f \in Flows : ~HoldsCallback(f, "v6")
       /\ port6' = "taken"
       /\ UNCHANGED <<slot, flow, kind, routed, session, result, browser>>
    \/ /\ port6 = "taken"
       /\ port6' = "free"
       /\ UNCHANGED <<slot, flow, kind, routed, session, result, browser>>

Next ==
    \/ \E f \in Flows :
         \/ FlowStep(f)
         \/ \E fam \in Families : ServeStarts(f, fam)
         \/ \E r \in Requests : Arrive(r, f)
    \/ \E r \in Requests : HandlerStep(r)
    \/ OtherProcess

Spec == Init /\ [][Next]_vars

\* Goroutines are scheduled, every request to the server is bounded by the
\* flow's context, and the timer ends the select.  Each goroutine has finitely
\* many steps to take, so it is enough that some goroutine of each sort goes on.
Fairness ==
    /\ WF_vars(\E f \in Flows : FlowStep(f) /\ flow[f] # "none")
    /\ WF_vars(\E f \in Flows, fam \in Families : ServeStarts(f, fam))
    /\ WF_vars(\E r \in Requests : HandlerStep(r))

FairSpec == Spec /\ Fairness

-----------------------------------------------------------------------------
TypeOK ==
    /\ slot \in Flows \union {NoFlow}
    /\ flow \in [Flows -> {"none", "bind", "bind6", "authurl", "open", "serve",
                           "select", "shutdown", "drain", "returned"}]
    /\ kind \in [Flows -> Kinds] /\ routed \in [Flows -> BOOLEAN]
    /\ listener \in [Flows -> [Families -> Open \union {"none", "closed"}]]
    /\ once \in [Flows -> BOOLEAN] /\ shut \in [Flows -> BOOLEAN]
    /\ done \in [Flows -> Requests \union {Failure, Nothing}]
    /\ result \in [Flows -> Requests \union {Failure, Nothing}]
    /\ \A f \in Flows : flow[f] = "returned" => result[f] # Nothing
    /\ target \in [Requests -> Flows \union {NoFlow}]
    /\ request \in [Requests -> {"none", "ask", "tell", "abort", "finish", "over"}]
    /\ page \in [Requests -> {"none", "form", "failed", "success"}]
    /\ granted \subseteq Requests
    /\ port6 \in {"free", "taken", "absent"}

\* While the OIDC callback can be reached, no other process holds its port on
\* the other loopback address (newLoopbackSession and ipv6Unavailable fail
\* closed, and the port stays bound until Shutdown).
CallbackIsOurs ==
    \A f \in Flows :
        kind[f] = "oidc" /\ flow[f] \in {"authurl", "open", "serve", "select", "shutdown"}
            => port6 # "taken"

\* A flow that returns a token returns one that the server granted to a
\* request of its own session, told so in the browser, and first to finish:
\* late or repeated callbacks of this or of an earlier flow change nothing.
ResultIsItsOwn ==
    \A f \in Flows :
        result[f] \in Requests =>
            /\ target[result[f]] = f
            /\ result[f] \in granted
            /\ page[result[f]] = "success"

\* One session at a time: whoever is between acquire and release holds the
\* slot, and the slot is free otherwise.
SlotIsExact ==
    \A f \in Flows : flow[f] \notin {"none", "returned"} <=> slot = f

\* Seen from outside, a flow is an atomic lock with a result: what a flow
\* returns is settled by the select, long before it gives the slot back, and
\* grants come from handlers that nobody waits for.
Login == INSTANCE OneLogin
    WITH running <- slot,
         returned <- [f \in Flows |-> IF flow[f] = "returned" THEN result[f] ELSE Nothing],
         owner <- [r \in Requests |-> IF r \in granted THEN target[r] ELSE NoFlow]

KeepsOneLogin == Login!LoginSpec

\* A flow that has returned takes no more requests: none of its listeners is
\* left open, and a goroutine of serve that has yet to start will find that
\* Shutdown came first (session.go, close and serve).
NoListenerLeft ==
    \A f \in Flows, fam \in Families :
        flow[f] = "returned" =>
            /\ listener[f][fam] \notin {"bound", "serving"}
            /\ listener[f][fam] = "starting" => shut[f]

\* The send in finish, inside once.Do, finds room in the channel, for nothing
\* but the first finish ever puts anything in it.
FinishHasRoom == \A f \in Flows : ~once[f] => done[f] = Nothing

\* A handler is never stuck in finish, whenever it gets there: the outcome of
\* a flow that has long returned still finds room, or is dropped.
HandlersEnd ==
    \A r \in Requests : request[r] # "none" ~> request[r] = "over"

\* Every flow ends, and in the end its ports are free again.
PortsAreFreed ==
    \A f \in Flows :
        flow[f] # "none" ~>
            /\ flow[f] = "returned"
            /\ \A fam \in Families : listener[f][fam] \notin Open

=============================================================================
