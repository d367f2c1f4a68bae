--------------------------- MODULE AuthFlowProofs ---------------------------
(* Theorems about AuthFlow, for any number of flows and requests.          *)
EXTENDS AuthFlow, TLAPS

-----------------------------------------------------------------------------
(* Types.                                                                  *)

\* A flow that has left its select has an outcome, and a request that has
\* arrived has a flow.
TypeInv ==
    /\ TypeOK
    /\ \A f \in Flows : flow[f] \in {"shutdown", "drain"} => result[f] # Nothing
    /\ \A r \in Requests : request[r] # "none" => target[r] \in Flows

\* The types hold at the start.
LEMMA InitTypeInv == Init => TypeInv
<1> SUFFICES ASSUME Init PROVE TypeInv
    OBVIOUS
<1>1. routed \in [Flows -> BOOLEAN]
    BY Zenon DEF Init
<1>2. kind \in [Flows -> Kinds]
    BY DEF Init
<1> QED BY <1>1, <1>2 DEF Init, TypeInv, TypeOK

\* finish keeps the types.
LEMMA FinishType ==
    ASSUME TypeInv, NEW f \in Flows, NEW out \in Requests \union {Failure}, Finish(f, out)
    PROVE  /\ once' \in [Flows -> BOOLEAN]
           /\ done' \in [Flows -> Requests \union {Failure, Nothing}]
<1>1. once \in [Flows -> BOOLEAN] /\ done \in [Flows -> Requests \union {Failure, Nothing}]
    BY DEF TypeInv, TypeOK
<1>2. once' \in [Flows -> BOOLEAN]
    BY <1>1 DEF Finish
<1>3. done' \in [Flows -> Requests \union {Failure, Nothing}]
  <2>1. CASE once[f]
    BY <1>1, <2>1 DEF Finish
  <2>2. CASE ~once[f]
    BY <1>1, <2>2 DEF Finish
  <2> QED BY <2>1, <2>2
<1> QED BY <1>2, <1>3

\* What the flows' own steps do to the listeners.
LEMMA ListenerType ==
    ASSUME TypeInv, NEW f \in Flows, FlowStep(f) \/ \E fam \in Families : ServeStarts(f, fam)
    PROVE  listener' \in [Flows -> [Families -> Open \union {"none", "closed"}]]
<1>1. listener \in [Flows -> [Families -> Open \union {"none", "closed"}]]
    BY DEF TypeInv, TypeOK
<1>2. CASE \E fam \in Families : ServeStarts(f, fam)
    BY <1>1, <1>2 DEF ServeStarts, Open, Families
<1>3. CASE BindV4(f)
    BY <1>1, <1>3 DEF BindV4, Open, Families
<1>4. CASE BindV6(f)
    BY <1>1, <1>4 DEF BindV6, Open, Families
<1>5. CASE BindV6Fails(f)
    BY <1>1, <1>5 DEF BindV6Fails, Open, Families
<1>6. CASE OpenURLFails(f)
    BY <1>1, <1>6 DEF OpenURLFails, Open, Families
<1>7. CASE Serve(f)
    BY <1>1, <1>7 DEF Serve, Open, Families
<1>8. CASE Shutdown(f)
    BY <1>1, <1>8 DEF Shutdown, Open, Families
<1>9. CASE Acquire(f) \/ Busy(f) \/ BindV4Fails(f) \/ AuthURL(f) \/ AuthURLFails(f) \/ OpenURL(f)
           \/ Select(f) \/ Return(f)
    BY <1>1, <1>9 DEF Acquire, Busy, BindV4Fails, AuthURL, AuthURLFails, OpenURL, Select, Return, session
<1> QED BY <1>2, <1>3, <1>4, <1>5, <1>6, <1>7, <1>8, <1>9 DEF FlowStep

\* A step of a flow.
LEMMA FlowType == ASSUME TypeInv, NEW f \in Flows, FlowStep(f) PROVE TypeInv'
<1>0. listener' \in [Flows -> [Families -> Open \union {"none", "closed"}]]
    BY ListenerType
<1> USE NameAssumption DEF TypeInv, TypeOK, Go, browser
<1>1. CASE Acquire(f)
    BY <1>0, <1>1 DEF Acquire, session
<1>2. CASE Busy(f)
    BY <1>0, <1>2 DEF Busy, session
<1>3. CASE BindV4(f)
    BY <1>0, <1>3 DEF BindV4
<1>4. CASE BindV4Fails(f)
    BY <1>0, <1>4 DEF BindV4Fails, Fail, session
<1>5. CASE BindV6(f)
    BY <1>0, <1>5 DEF BindV6
<1>6. CASE BindV6Fails(f)
    BY <1>0, <1>6 DEF BindV6Fails, Fail
<1>7. CASE AuthURL(f)
    BY <1>0, <1>7 DEF AuthURL, session
<1>8. CASE AuthURLFails(f)
    BY <1>0, <1>8, FinishType DEF AuthURLFails
<1>9. CASE OpenURL(f)
    BY <1>0, <1>9 DEF OpenURL, session
<1>10. CASE OpenURLFails(f)
  <2>1. CASE kind[f] # "setup"
    BY <1>0, <1>10, <2>1, FinishType DEF OpenURLFails
  <2>2. CASE kind[f] = "setup"
    BY <1>0, <1>10, <2>2 DEF OpenURLFails, Fail
  <2> QED BY <2>1, <2>2
<1>11. CASE Serve(f)
    BY <1>0, <1>11 DEF Serve
<1>12. CASE Select(f)
    BY <1>0, <1>12 DEF Select
<1>13. CASE Shutdown(f)
    BY <1>0, <1>13 DEF Shutdown
<1>14. CASE Return(f)
    BY <1>0, <1>14 DEF Return, session
<1> QED BY <1>1, <1>2, <1>3, <1>4, <1>5, <1>6, <1>7, <1>8, <1>9, <1>10, <1>11, <1>12, <1>13, <1>14
        DEF FlowStep

\* A step of a handler, and a request's arrival.
LEMMA HandlerType ==
    ASSUME TypeInv, NEW r \in Requests, HandlerStep(r) \/ \E f \in Flows : Arrive(r, f)
    PROVE  TypeInv'
<1> USE NameAssumption DEF TypeInv, TypeOK, Step
<1>1. ASSUME NEW f \in Flows, Arrive(r, f) PROVE TypeInv'
    BY <1>1 DEF Arrive, session
<1>2. CASE Grant(r)
    BY <1>2 DEF Grant, session
<1>3. CASE Deny(r)
    BY <1>3 DEF Deny, session
<1>4. CASE TellSuccess(r)
    BY <1>4 DEF TellSuccess, session
<1>5. CASE FinishFlow(r)
  <2>1. /\ once' \in [Flows -> BOOLEAN]
        /\ done' \in [Flows -> Requests \union {Failure, Nothing}]
    BY <1>5, FinishType DEF FinishFlow
  <2> QED BY <1>5, <2>1 DEF FinishFlow
<1> QED BY <1>1, <1>2, <1>3, <1>4, <1>5 DEF HandlerStep

\* Every step keeps the types.
LEMMA NextTypeInv == TypeInv /\ [Next]_vars => TypeInv'
<1> SUFFICES ASSUME TypeInv, [Next]_vars PROVE TypeInv'
    OBVIOUS
<1>1. CASE UNCHANGED vars
    BY <1>1 DEF vars, session, browser, TypeInv, TypeOK
<1>2. ASSUME NEW f \in Flows, NEW fam \in Families, ServeStarts(f, fam) PROVE TypeInv'
    BY <1>2, ListenerType DEF ServeStarts, browser, TypeInv, TypeOK
<1>3. CASE OtherProcess
    BY <1>3 DEF OtherProcess, session, browser, TypeInv, TypeOK
<1> QED BY <1>1, <1>2, <1>3, FlowType, HandlerType DEF Next

\* Every variable keeps its type, and no flow returns without an outcome, for
\* any number of flows and requests.
THEOREM TypeCorrect == Spec => []TypeOK
<1>1. TypeInv => TypeOK
    BY DEF TypeInv
<1> QED BY <1>1, InitTypeInv, NextTypeInv, PTL DEF Spec

-----------------------------------------------------------------------------
(* The slot.                                                               *)

\* The slot is free at the start.
LEMMA InitSlot == Init => SlotIsExact
BY NameAssumption DEF Init, SlotIsExact

\* Every way through a flow takes the slot first and gives it back last.
LEMMA FlowSlot ==
    ASSUME TypeInv, SlotIsExact, NEW f \in Flows, FlowStep(f) PROVE SlotIsExact'
<1>a. flow \in [Flows -> {"none", "bind", "bind6", "authurl", "open", "serve",
                           "select", "shutdown", "drain", "returned"}]
    BY DEF TypeInv, TypeOK
<1>b. ASSUME NEW to, flow[f] \notin {"none", "returned"}, flow' = [flow EXCEPT ![f] = to],
             to \notin {"none", "returned"}, slot' = slot
      PROVE  SlotIsExact'
    BY <1>a, <1>b DEF SlotIsExact
<1>c. ASSUME flow[f] \notin {"none", "returned"}, flow' = [flow EXCEPT ![f] = "returned"], slot' = NoFlow
      PROVE  SlotIsExact'
    BY <1>a, <1>c, NameAssumption DEF SlotIsExact
<1>1. CASE Acquire(f)
    BY <1>a, <1>1, NameAssumption DEF Acquire, Go, SlotIsExact
<1>2. CASE Busy(f)
    BY <1>a, <1>2 DEF Busy, Go, SlotIsExact
<1>3. CASE BindV4Fails(f) \/ BindV6Fails(f)
    BY <1>3, <1>c DEF BindV4Fails, BindV6Fails, Fail
<1>4. CASE Return(f)
    BY <1>4, <1>c DEF Return, Go
<1>5. CASE OpenURLFails(f)
    BY <1>5, <1>b, <1>c DEF OpenURLFails, Fail, Go
<1>6. CASE BindV4(f)
  <2>1. (IF kind[f] = "oidc" THEN "bind6" ELSE "open") \notin {"none", "returned"}
    OBVIOUS
  <2> QED BY <1>6, <1>b, <2>1 DEF BindV4, Go
<1>7. CASE BindV6(f)
  <2>1. flow[f] = "bind6" /\ flow' = [flow EXCEPT ![f] = "authurl"] /\ slot' = slot
    BY <1>7 DEF BindV6, Go
  <2> QED BY <1>a, <2>1 DEF SlotIsExact
<1>8. CASE AuthURL(f) \/ AuthURLFails(f) \/ OpenURL(f)
    BY <1>8, <1>b DEF AuthURL, AuthURLFails, OpenURL, Go
<1>9. CASE Serve(f) \/ Select(f) \/ Shutdown(f)
    BY <1>9, <1>b DEF Serve, Select, Shutdown, Go
<1> QED BY <1>1, <1>2, <1>3, <1>4, <1>5, <1>6, <1>7, <1>8, <1>9 DEF FlowStep

\* Every step keeps SlotIsExact.
LEMMA NextSlot == TypeInv /\ SlotIsExact /\ [Next]_vars => SlotIsExact'
<1> SUFFICES ASSUME TypeInv, SlotIsExact, [Next]_vars PROVE SlotIsExact'
    OBVIOUS
<1>1. CASE UNCHANGED <<slot, flow>>
    BY <1>1 DEF SlotIsExact
<1>2. ASSUME NEW f \in Flows, \/ \E fam \in Families : ServeStarts(f, fam)
                              \/ \E r \in Requests : Arrive(r, f)
      PROVE  UNCHANGED <<slot, flow>>
    BY <1>2 DEF ServeStarts, Arrive
<1>3. ASSUME NEW r \in Requests, HandlerStep(r) PROVE UNCHANGED <<slot, flow>>
    BY <1>3 DEF HandlerStep, Grant, Deny, TellSuccess, FinishFlow
<1>4. CASE OtherProcess
    BY <1>1, <1>4 DEF OtherProcess
<1>5. CASE UNCHANGED vars
    BY <1>1, <1>5 DEF vars
<1> QED BY <1>1, <1>2, <1>3, <1>4, <1>5, FlowSlot DEF Next

\* One session at a time, and the slot is free between them, for any number of
\* flows.
THEOREM SlotCorrect == Spec => []SlotIsExact
<1> QED BY InitTypeInv, NextTypeInv, InitSlot, NextSlot, PTL DEF Spec

-----------------------------------------------------------------------------
(* Whose result it is.                                                     *)

\* A request that has told its flow is over, and will not be sent elsewhere.
Own(f, r) ==
    /\ target[r] = f /\ r \in granted
    /\ page[r] = "success" /\ request[r] = "over"

\* So is whatever is in the channel, or has come out of it.
ResultInv ==
    /\ \A r \in Requests :
         /\ request[r] \in {"tell", "finish"} => r \in granted
         /\ request[r] = "finish" => page[r] = "success"
    /\ \A f \in Flows :
         /\ done[f] \in Requests => Own(f, done[f])
         /\ result[f] \in Requests => Own(f, result[f])

\* No result has been delivered at the start.
LEMMA InitResult == Init => ResultInv
BY NameAssumption DEF Init, ResultInv

\* Flows only take out what is in the channel, and only put in failures.
LEMMA FlowResult ==
    ASSUME TypeInv, ResultInv, NEW f \in Flows, FlowStep(f) PROVE ResultInv'
<1>a. /\ done \in [Flows -> Requests \union {Failure, Nothing}]
      /\ result \in [Flows -> Requests \union {Failure, Nothing}]
    BY DEF TypeInv, TypeOK
<1>b. ASSUME UNCHANGED browser,
             \A g \in Flows : done'[g] \in Requests => done'[g] = done[g],
             \A g \in Flows : result'[g] \in Requests => result'[g] \in {result[g], done[g]}
      PROVE  ResultInv'
    BY <1>b DEF ResultInv, Own, browser
<1>c. UNCHANGED browser
    BY DEF FlowStep, Acquire, Busy, BindV4, BindV4Fails, BindV6, BindV6Fails, AuthURL, AuthURLFails,
        OpenURL, OpenURLFails, Serve, Select, Shutdown, Return
<1>d. ASSUME Finish(f, Failure)
      PROVE  \A g \in Flows : done'[g] \in Requests => done'[g] = done[g]
    BY <1>a, <1>d, NameAssumption DEF Finish
<1>e. ASSUME Fail(f)
      PROVE  \A g \in Flows : result'[g] \in Requests => result'[g] = result[g]
    BY <1>a, <1>e, NameAssumption DEF Fail
<1>1. CASE Acquire(f) \/ BindV4(f) \/ BindV6(f) \/ AuthURL(f) \/ OpenURL(f) \/ Serve(f)
           \/ Shutdown(f) \/ Return(f)
    BY <1>1, <1>b, <1>c DEF Acquire, BindV4, BindV6, AuthURL, OpenURL, Serve, Shutdown, Return, session
<1>2. CASE Busy(f)
    BY <1>a, <1>2, <1>b, <1>c, NameAssumption DEF Busy, session
<1>3. CASE BindV4Fails(f) \/ BindV6Fails(f)
    BY <1>3, <1>b, <1>c, <1>e DEF BindV4Fails, BindV6Fails, session
<1>4. CASE AuthURLFails(f)
    BY <1>4, <1>b, <1>c, <1>d DEF AuthURLFails
<1>5. CASE OpenURLFails(f)
    BY <1>5, <1>b, <1>c, <1>d, <1>e DEF OpenURLFails
<1>6. CASE Select(f)
    BY <1>a, <1>6, <1>b, <1>c, NameAssumption DEF Select
<1> QED BY <1>1, <1>2, <1>3, <1>4, <1>5, <1>6 DEF FlowStep

\* A request puts itself in, once it has been granted and has said so.
LEMMA HandlerResult ==
    ASSUME TypeInv, ResultInv, NEW r \in Requests,
           HandlerStep(r) \/ \E f \in Flows : Arrive(r, f)
    PROVE  ResultInv'
<1>a. /\ request \in [Requests -> {"none", "ask", "tell", "abort", "finish", "over"}]
      /\ page \in [Requests -> {"none", "form", "failed", "success"}]
      /\ target \in [Requests -> Flows \union {NoFlow}] /\ granted \subseteq Requests
      /\ done \in [Flows -> Requests \union {Failure, Nothing}]
      /\ result \in [Flows -> Requests \union {Failure, Nothing}]
      /\ once \in [Flows -> BOOLEAN]
    BY DEF TypeInv, TypeOK
<1>b. ASSUME UNCHANGED <<done, result>>, request[r] # "over", granted \subseteq granted',
             \A q \in Requests \ {r} :
                 request'[q] = request[q] /\ page'[q] = page[q] /\ target'[q] = target[q],
             request'[r] \in {"tell", "finish"} => r \in granted',
             request'[r] = "finish" => page'[r] = "success"
      PROVE  ResultInv'
    BY <1>a, <1>b DEF ResultInv, Own
<1>1. ASSUME NEW f \in Flows, Arrive(r, f) PROVE ResultInv'
    BY <1>a, <1>1, <1>b DEF Arrive, Step, session
<1>2. CASE Grant(r)
    BY <1>a, <1>2, <1>b DEF Grant, Step, session
<1>3. CASE Deny(r)
  <2>1. request'[r] \in {"abort", "over"} /\ request[r] = "ask"
    BY <1>a, <1>3 DEF Deny, Step
  <2>2. /\ UNCHANGED <<done, result, granted, target>>
        /\ \A q \in Requests \ {r} : request'[q] = request[q] /\ page'[q] = page[q]
    BY <1>a, <1>3 DEF Deny, Step, session
  <2> QED BY <1>b, <2>1, <2>2
<1>4. CASE TellSuccess(r)
    BY <1>a, <1>4, <1>b DEF TellSuccess, Step, session, ResultInv
<1>5. CASE FinishFlow(r)
  <2>1. request'[r] = "over" /\ \A q \in Requests \ {r} : request'[q] = request[q]
    BY <1>a, <1>5 DEF FinishFlow
  <2>2. UNCHANGED <<result, target, page, granted>> /\ request[r] \in {"finish", "abort"}
    BY <1>5 DEF FinishFlow
  <2>3. \A f \in Flows : done'[f] \in Requests =>
            done'[f] = done[f] \/ (request[r] = "finish" /\ f = target[r] /\ done'[f] = r)
    BY <1>a, <1>5, NameAssumption DEF FinishFlow, Finish
  <2>4. \A f \in Flows, q \in Requests : Own(f, q) => Own(f, q)'
    BY <2>1, <2>2 DEF Own
  <2>5. request[r] = "finish" => Own(target[r], r)'
    BY <2>1, <2>2 DEF ResultInv, Own
  <2> QED BY <1>a, <2>1, <2>2, <2>3, <2>4, <2>5 DEF ResultInv
<1> QED BY <1>1, <1>2, <1>3, <1>4, <1>5 DEF HandlerStep

\* Every step keeps ResultInv.
LEMMA NextResult == TypeInv /\ ResultInv /\ [Next]_vars => ResultInv'
<1> SUFFICES ASSUME TypeInv, ResultInv, [Next]_vars PROVE ResultInv'
    OBVIOUS
<1>1. CASE UNCHANGED <<done, result, browser>>
    BY <1>1 DEF ResultInv, Own, browser
<1>2. ASSUME NEW f \in Flows, NEW fam \in Families, ServeStarts(f, fam) PROVE ResultInv'
    BY <1>1, <1>2 DEF ServeStarts
<1>3. CASE OtherProcess
    BY <1>1, <1>3 DEF OtherProcess, session
<1>4. CASE UNCHANGED vars
    BY <1>1, <1>4 DEF vars, session
<1> QED BY <1>1, <1>2, <1>3, <1>4, FlowResult, HandlerResult DEF Next

\* A flow returns what was granted to a request of its own, for any number of
\* flows and of late, repeated and failed requests.
THEOREM ResultCorrect == Spec => []ResultIsItsOwn
<1>1. ResultInv => ResultIsItsOwn
    BY DEF ResultInv, ResultIsItsOwn, Own
<1> QED BY <1>1, InitTypeInv, NextTypeInv, InitResult, NextResult, PTL DEF Spec

-----------------------------------------------------------------------------
(* The callback port.                                                      *)

Served == {"authurl", "open", "serve", "select", "shutdown"}

\* The pair is bound together and closed together: while the flow is served
\* its [::1] half is held, or there is none to hold.
PortInv ==
    \A f \in Flows :
        /\ shut[f] => flow[f] \in {"drain", "returned"}
        /\ kind[f] = "oidc" /\ flow[f] \in Served =>
             port6 = "absent" \/ (listener[f]["v6"] \in Open /\ port6 # "taken")

\* Nobody listens at the start.
LEMMA InitPort == Init => PortInv
BY DEF Init, PortInv, Served

\* Steps of flows; the port itself is not theirs to take away.
LEMMA FlowPort ==
    ASSUME TypeInv, PortInv, NEW f \in Flows, FlowStep(f) PROVE PortInv'
<1>a. /\ listener \in [Flows -> [Families -> Open \union {"none", "closed"}]]
      /\ flow \in [Flows -> {"none", "bind", "bind6", "authurl", "open", "serve",
                           "select", "shutdown", "drain", "returned"}]
      /\ shut \in [Flows -> BOOLEAN]
    BY DEF TypeInv, TypeOK
<1>b. ASSUME UNCHANGED <<kind, port6>>, NEW to, flow' = [flow EXCEPT ![f] = to],
             \A g \in Flows \ {f} : listener'[g] = listener[g] /\ shut'[g] = shut[g],
             shut'[f] => to \in {"drain", "returned"},
             kind[f] = "oidc" /\ to \in Served =>
                 port6 = "absent" \/ (listener'[f]["v6"] \in Open /\ port6 # "taken")
      PROVE  PortInv'
    BY <1>a, <1>b DEF PortInv
<1>c. ASSUME UNCHANGED <<kind, port6, shut, listener>>, NEW from, NEW to, flow[f] = from,
             flow' = [flow EXCEPT ![f] = to], from \notin {"drain", "returned"},
             to \in Served => from \in Served
      PROVE  PortInv'
    BY <1>a, <1>c DEF PortInv
<1>1. CASE Acquire(f)
    BY <1>1, <1>c DEF Acquire, Go, session, Served
<1>2. CASE Busy(f)
    BY <1>2, <1>c DEF Busy, Go, session, Served
<1>3. CASE BindV4(f)
  <2>1. /\ flow[f] = "bind" /\ UNCHANGED <<kind, port6, shut>>
        /\ \A g \in Flows \ {f} : listener'[g] = listener[g]
        /\ flow' = [flow EXCEPT ![f] = IF kind[f] = "oidc" THEN "bind6" ELSE "open"]
    BY <1>a, <1>3 DEF BindV4, Go
  <2>2. ~shut[f]
    BY <2>1 DEF PortInv
  <2> QED BY <1>b, <2>1, <2>2 DEF Served
<1>4. CASE BindV6(f)
  <2>1. /\ flow[f] = "bind6" /\ UNCHANGED <<kind, port6, shut>>
        /\ \A g \in Flows \ {f} : listener'[g] = listener[g]
        /\ flow' = [flow EXCEPT ![f] = "authurl"]
        /\ port6 = "absent" \/ (listener'[f]["v6"] \in Open /\ port6 # "taken")
    BY <1>a, <1>4 DEF BindV6, Go, Open, Families
  <2>2. ~shut[f]
    BY <2>1 DEF PortInv
  <2> QED BY <1>b, <2>1, <2>2
<1>5. CASE BindV4Fails(f) \/ BindV6Fails(f) \/ (OpenURLFails(f) /\ kind[f] = "setup")
  <2>1. /\ flow' = [flow EXCEPT ![f] = "returned"] /\ UNCHANGED <<kind, port6, shut>>
        /\ \A g \in Flows \ {f} : listener'[g] = listener[g]
    BY <1>a, <1>5 DEF BindV4Fails, BindV6Fails, OpenURLFails, Fail, session
  <2> QED BY <1>b, <2>1 DEF Served
<1>6. CASE AuthURL(f) \/ AuthURLFails(f)
    BY <1>6, <1>c DEF AuthURL, AuthURLFails, Go, session, Served
<1>7. CASE OpenURL(f) \/ (OpenURLFails(f) /\ kind[f] # "setup")
    BY <1>7, <1>c DEF OpenURL, OpenURLFails, Go, session, Served
<1>8. CASE Serve(f)
  <2>1. /\ flow[f] = "serve" /\ UNCHANGED <<kind, port6, shut>>
        /\ \A g \in Flows \ {f} : listener'[g] = listener[g]
        /\ flow' = [flow EXCEPT ![f] = "select"]
        /\ listener[f]["v6"] \in Open => listener'[f]["v6"] \in Open
    BY <1>a, <1>8 DEF Serve, Go, Open, Families
  <2> QED BY <1>b, <2>1 DEF PortInv, Served
<1>9. CASE Select(f)
    BY <1>9, <1>c DEF Select, Go, Served
<1>10. CASE Shutdown(f)
  <2>1. /\ UNCHANGED <<kind, port6>> /\ flow' = [flow EXCEPT ![f] = "drain"]
        /\ \A g \in Flows \ {f} : listener'[g] = listener[g] /\ shut'[g] = shut[g]
    BY <1>a, <1>10 DEF Shutdown, Go
  <2> QED BY <1>b, <2>1 DEF Served
<1>11. CASE Return(f)
  <2>1. /\ UNCHANGED <<kind, port6, shut, listener>> /\ flow' = [flow EXCEPT ![f] = "returned"]
    BY <1>11 DEF Return, Go, session
  <2> QED BY <1>b, <2>1 DEF Served
<1> QED BY <1>1, <1>2, <1>3, <1>4, <1>5, <1>6, <1>7, <1>8, <1>9, <1>10, <1>11 DEF FlowStep

\* Every step keeps PortInv.
LEMMA NextPort == TypeInv /\ PortInv /\ [Next]_vars => PortInv'
<1> SUFFICES ASSUME TypeInv, PortInv, [Next]_vars PROVE PortInv'
    OBVIOUS
<1>1. CASE UNCHANGED <<flow, kind, listener, shut, port6>>
    BY <1>1 DEF PortInv
<1>2. ASSUME NEW f \in Flows, NEW fam \in Families, ServeStarts(f, fam) PROVE PortInv'
  <2>1. listener \in [Flows -> [Families -> Open \union {"none", "closed"}]] /\ "v6" \in Families
    BY DEF TypeInv, TypeOK, Families
  <2>2. /\ \A g \in Flows \ {f} : listener'[g] = listener[g]
        /\ listener'[f]["v6"] \in {listener[f]["v6"], IF shut[f] THEN "closed" ELSE "serving"}
        /\ UNCHANGED <<flow, kind, shut, port6>>
    BY <1>2, <2>1 DEF ServeStarts, browser
  <2>3. "serving" \in Open
    BY DEF Open
  <2> QED BY <2>2, <2>3 DEF PortInv, Served
<1>3. ASSUME NEW f \in Flows, NEW r \in Requests, Arrive(r, f) PROVE PortInv'
    BY <1>1, <1>3 DEF Arrive, session
<1>4. ASSUME NEW r \in Requests, HandlerStep(r) PROVE PortInv'
    BY <1>1, <1>4 DEF HandlerStep, Grant, Deny, TellSuccess, FinishFlow, session
<1>5. CASE OtherProcess
    BY <1>5 DEF OtherProcess, HoldsCallback, PortInv, session
<1>6. CASE UNCHANGED vars
    BY <1>1, <1>6 DEF vars, session
<1> QED BY <1>1, <1>2, <1>3, <1>4, <1>5, <1>6, FlowPort DEF Next

\* No other process holds the callback port on [::1] while an OIDC flow waits
\* for its callback, for any number of flows competing for the port.
THEOREM CallbackCorrect == Spec => []CallbackIsOurs
<1>1. PortInv => CallbackIsOurs
    BY DEF PortInv, Served, CallbackIsOurs
<1> QED BY <1>1, InitTypeInv, NextTypeInv, InitPort, NextPort, PTL DEF Spec

-----------------------------------------------------------------------------
(* The listeners.                                                          *)

\* What a listener may be, by where its flow stands; a first-run setup never
\* has a second one, and Shutdown is the only way past the select.
Listens(f) ==
    /\ shut[f] => flow[f] \in {"drain", "returned"}
    /\ \A fam \in Families :
         /\ flow[f] \in {"none", "bind"} => listener[f][fam] = "none"
         /\ flow[f] \in {"bind6", "authurl", "open", "serve"} => listener[f][fam] \in {"none", "bound"}
         /\ flow[f] \in {"select", "shutdown"} => listener[f][fam] \in {"none", "starting", "serving"}
         /\ flow[f] \in {"drain", "returned"} =>
              /\ listener[f][fam] \in {"none", "starting", "closed"}
              /\ listener[f][fam] = "starting" => shut[f]
    /\ flow[f] = "bind6" => listener[f]["v6"] = "none"
    /\ kind[f] = "setup" => listener[f]["v6"] = "none" /\ flow[f] # "bind6"

ListenInv == \A f \in Flows : Listens(f)

\* Nobody listens at the start.
LEMMA InitListen == Init => ListenInv
BY DEF Init, ListenInv, Listens, Families

\* A flow's step is about its own listeners and server.
LEMMA FlowFrame ==
    ASSUME TypeInv, NEW f \in Flows, FlowStep(f), NEW g \in Flows \ {f}
    PROVE  /\ flow'[g] = flow[g] /\ listener'[g] = listener[g] /\ shut'[g] = shut[g]
           /\ kind' = kind
<1>a. /\ DOMAIN flow = Flows /\ DOMAIN listener = Flows /\ DOMAIN shut = Flows
    BY DEF TypeInv, TypeOK
<1>1. CASE Acquire(f) \/ Busy(f) \/ AuthURL(f) \/ OpenURL(f) \/ Return(f) \/ Select(f)
    BY <1>a, <1>1 DEF Acquire, Busy, AuthURL, OpenURL, Return, Select, Go, session
<1>2. CASE BindV4Fails(f) \/ BindV6Fails(f) \/ OpenURLFails(f) \/ AuthURLFails(f)
    BY <1>a, <1>2 DEF BindV4Fails, BindV6Fails, OpenURLFails, AuthURLFails, Fail, Go, session
<1>3. CASE BindV4(f) \/ BindV6(f) \/ Serve(f) \/ Shutdown(f)
    BY <1>a, <1>3 DEF BindV4, BindV6, Serve, Shutdown, Go
<1> QED BY <1>1, <1>2, <1>3 DEF FlowStep

\* A flow takes its listeners from binding over serving to closing, on every
\* one of its ways out.
LEMMA FlowListen ==
    ASSUME TypeInv, ListenInv, NEW f \in Flows, FlowStep(f) PROVE ListenInv'
<1>a. /\ flow \in [Flows -> {"none", "bind", "bind6", "authurl", "open", "serve",
                           "select", "shutdown", "drain", "returned"}]
      /\ listener \in [Flows -> [Families -> Open \union {"none", "closed"}]]
      /\ shut \in [Flows -> BOOLEAN] /\ kind \in [Flows -> Kinds]
    BY DEF TypeInv, TypeOK
<1>b. Listens(f)
    BY DEF ListenInv
<1>c. ASSUME Listens(f)' PROVE ListenInv'
  <2>1. ASSUME NEW g \in Flows \ {f} PROVE Listens(g)'
    BY <2>1, FlowFrame DEF ListenInv, Listens
  <2> QED BY <1>c, <2>1 DEF ListenInv
<1> USE DEF Go, session
<1>1. CASE Acquire(f)
    BY <1>a, <1>b, <1>c, <1>1 DEF Acquire, Listens
<1>2. CASE Busy(f)
    BY <1>a, <1>b, <1>c, <1>2 DEF Busy, Listens
<1>3. CASE BindV4(f)
    BY <1>a, <1>b, <1>c, <1>3 DEF BindV4, Listens, Families
<1>4. CASE BindV4Fails(f)
    BY <1>a, <1>b, <1>c, <1>4 DEF BindV4Fails, Fail, Listens
<1>5. CASE BindV6(f)
    BY <1>a, <1>b, <1>c, <1>5 DEF BindV6, Listens, Families
<1>6. CASE BindV6Fails(f)
    BY <1>a, <1>b, <1>c, <1>6 DEF BindV6Fails, Fail, Listens, Families
<1>7. CASE AuthURL(f)
    BY <1>a, <1>b, <1>c, <1>7 DEF AuthURL, Listens
<1>8. CASE AuthURLFails(f)
    BY <1>a, <1>b, <1>c, <1>8 DEF AuthURLFails, Listens
<1>9. CASE OpenURL(f)
    BY <1>a, <1>b, <1>c, <1>9 DEF OpenURL, Listens
<1>10. CASE OpenURLFails(f)
    BY <1>a, <1>b, <1>c, <1>10 DEF OpenURLFails, Fail, Listens, Families
<1>11. CASE Serve(f)
    BY <1>a, <1>b, <1>c, <1>11 DEF Serve, Listens, Families
<1>12. CASE Select(f)
    BY <1>a, <1>b, <1>c, <1>12 DEF Select, Listens
<1>13. CASE Shutdown(f)
    BY <1>a, <1>b, <1>c, <1>13 DEF Shutdown, Listens, Families
<1>14. CASE Return(f)
    BY <1>a, <1>b, <1>c, <1>14 DEF Return, Listens
<1> QED BY <1>1, <1>2, <1>3, <1>4, <1>5, <1>6, <1>7, <1>8, <1>9, <1>10, <1>11, <1>12, <1>13, <1>14
        DEF FlowStep

\* A goroutine of serve that starts late finds the server shut.
LEMMA ServeStartsListen ==
    ASSUME TypeInv, ListenInv, NEW f \in Flows, NEW fam \in Families, ServeStarts(f, fam)
    PROVE  ListenInv'
<1>a. /\ flow \in [Flows -> {"none", "bind", "bind6", "authurl", "open", "serve",
                           "select", "shutdown", "drain", "returned"}]
      /\ listener \in [Flows -> [Families -> Open \union {"none", "closed"}]]
    BY DEF TypeInv, TypeOK
<1>1. /\ UNCHANGED <<flow, kind, shut>> /\ listener[f][fam] = "starting"
      /\ \A g \in Flows \ {f} : listener'[g] = listener[g]
      /\ listener'[f] = [listener[f] EXCEPT ![fam] = IF shut[f] THEN "closed" ELSE "serving"]
    BY <1>a DEF ServeStarts
<1>2. Listens(f)
    BY DEF ListenInv
<1>3. Listens(f)'
    BY <1>a, <1>1, <1>2 DEF Listens, Families
<1>4. ASSUME NEW g \in Flows \ {f} PROVE Listens(g)'
    BY <1>1, <1>4 DEF ListenInv, Listens
<1> QED BY <1>3, <1>4 DEF ListenInv

\* Every step keeps ListenInv.
LEMMA NextListen == TypeInv /\ ListenInv /\ [Next]_vars => ListenInv'
<1> SUFFICES ASSUME TypeInv, ListenInv, [Next]_vars PROVE ListenInv'
    OBVIOUS
<1>1. CASE UNCHANGED <<flow, kind, listener, shut>>
    BY <1>1 DEF ListenInv, Listens
<1>2. ASSUME NEW f \in Flows, NEW r \in Requests, Arrive(r, f) PROVE ListenInv'
    BY <1>1, <1>2 DEF Arrive, session
<1>3. ASSUME NEW r \in Requests, HandlerStep(r) PROVE ListenInv'
    BY <1>1, <1>3 DEF HandlerStep, Grant, Deny, TellSuccess, FinishFlow, session
<1>4. CASE OtherProcess
    BY <1>1, <1>4 DEF OtherProcess, session
<1>5. CASE UNCHANGED vars
    BY <1>1, <1>5 DEF vars, session
<1> QED BY <1>1, <1>2, <1>3, <1>4, <1>5, FlowListen, ServeStartsListen DEF Next

\* A flow that has returned is no longer listening, nor will be, for any number
\* of flows and however late the goroutines of serve get going.
THEOREM ListenerCorrect == Spec => []NoListenerLeft
<1>1. ListenInv => NoListenerLeft
    BY DEF ListenInv, Listens, NoListenerLeft
<1> QED BY <1>1, InitTypeInv, NextTypeInv, InitListen, NextListen, PTL DEF Spec

-----------------------------------------------------------------------------
(* The channel.                                                            *)

\* The channel is empty at the start.
LEMMA InitRoom == Init => FinishHasRoom
BY DEF Init, FinishHasRoom

\* finish uses its once up as it sends.
LEMMA FinishRoom ==
    ASSUME TypeInv, FinishHasRoom, NEW f \in Flows, NEW out, Finish(f, out)
    PROVE  FinishHasRoom'
<1>1. DOMAIN once = Flows /\ DOMAIN done = Flows
    BY DEF TypeInv, TypeOK
<1>2. once'[f]
    BY <1>1 DEF Finish
<1>3. ASSUME NEW g \in Flows \ {f} PROVE once'[g] = once[g] /\ done'[g] = done[g]
    BY <1>1 DEF Finish
<1> QED BY <1>2, <1>3 DEF FinishHasRoom

\* Every step keeps FinishHasRoom.
LEMMA NextRoom == TypeInv /\ FinishHasRoom /\ [Next]_vars => FinishHasRoom'
<1> SUFFICES ASSUME TypeInv, FinishHasRoom, [Next]_vars PROVE FinishHasRoom'
    OBVIOUS
<1>1. CASE UNCHANGED <<once, done>>
    BY <1>1 DEF FinishHasRoom
<1>2. ASSUME NEW f \in Flows, FlowStep(f) PROVE FinishHasRoom'
  <2>1. CASE AuthURLFails(f) \/ (OpenURLFails(f) /\ kind[f] # "setup")
    BY <2>1, FinishRoom DEF AuthURLFails, OpenURLFails
  <2>2. CASE Select(f)
    <3>1. once' = once /\ \A g \in Flows : done'[g] \in {done[g], Nothing}
      BY <2>2 DEF Select, TypeInv, TypeOK
    <3> QED BY <3>1 DEF FinishHasRoom
  <2>3. CASE \/ Acquire(f) \/ Busy(f) \/ BindV4(f) \/ BindV4Fails(f) \/ BindV6(f) \/ BindV6Fails(f)
             \/ AuthURL(f) \/ OpenURL(f) \/ (OpenURLFails(f) /\ kind[f] = "setup")
             \/ Serve(f) \/ Shutdown(f) \/ Return(f)
    BY <1>1, <2>3 DEF Acquire, Busy, BindV4, BindV4Fails, BindV6, BindV6Fails, AuthURL, OpenURL,
        OpenURLFails, Serve, Shutdown, Return, session
  <2> QED BY <1>2, <2>1, <2>2, <2>3 DEF FlowStep
<1>3. ASSUME NEW f \in Flows, \/ \E fam \in Families : ServeStarts(f, fam)
                              \/ \E r \in Requests : Arrive(r, f)
      PROVE  FinishHasRoom'
    BY <1>1, <1>3 DEF ServeStarts, Arrive, session
<1>4. ASSUME NEW r \in Requests, HandlerStep(r) PROVE FinishHasRoom'
  <2>1. CASE Grant(r) \/ Deny(r) \/ TellSuccess(r)
    BY <1>1, <2>1 DEF Grant, Deny, TellSuccess, session
  <2>2. CASE FinishFlow(r)
    <3>1. target[r] \in Flows
      BY <2>2 DEF FinishFlow, TypeInv
    <3> QED BY <2>2, <3>1, FinishRoom DEF FinishFlow
  <2> QED BY <1>4, <2>1, <2>2 DEF HandlerStep
<1>5. CASE OtherProcess \/ UNCHANGED vars
    BY <1>1, <1>5 DEF OtherProcess, vars, session
<1> QED BY <1>1, <1>2, <1>3, <1>4, <1>5 DEF Next

\* No handler ever blocks on the channel, whenever it gets to finish, for any
\* number of requests.
THEOREM RoomCorrect == Spec => []FinishHasRoom
<1> QED BY InitTypeInv, NextTypeInv, InitRoom, NextRoom, PTL DEF Spec

-----------------------------------------------------------------------------
(* The flow as its callers see it.                                         *)

\* A request reaches a flow that has got as far as serving, and nothing is
\* granted before it is asked for.
GrantInv ==
    /\ \A r \in Requests :
         request[r] # "none" => flow[target[r]] \in {"select", "shutdown", "drain", "returned"}
    /\ \A r \in granted : request[r] \notin {"none", "ask"}

\* Nothing has been asked for at the start.
LEMMA InitGrant == Init => GrantInv
BY DEF Init, GrantInv

\* A flow that serves goes nowhere but on.
LEMMA FlowGrant ==
    ASSUME TypeInv, GrantInv, NEW f \in Flows, FlowStep(f) PROVE GrantInv'
<1> DEFINE Late == {"select", "shutdown", "drain", "returned"}
<1>1. UNCHANGED browser
    BY DEF FlowStep, Acquire, Busy, BindV4, BindV4Fails, BindV6, BindV6Fails, AuthURL, AuthURLFails,
        OpenURL, OpenURLFails, Serve, Select, Shutdown, Return
<1>2. DOMAIN flow = Flows
    BY DEF TypeInv, TypeOK
<1>3. flow[f] \in Late => flow'[f] \in Late
  <2>1. CASE flow[f] \notin Late
    BY <2>1
  <2>2. CASE flow[f] \in Late
    <3>1. Select(f) \/ Shutdown(f) \/ Return(f)
      BY <2>2 DEF FlowStep, Acquire, Busy, BindV4, BindV4Fails, BindV6, BindV6Fails, AuthURL,
          AuthURLFails, OpenURL, OpenURLFails, Serve, Go
    <3> QED BY <1>2, <3>1 DEF Select, Shutdown, Return, Go
  <2> QED BY <2>1, <2>2
<1>4. \A g \in Flows : flow[g] \in Late => flow'[g] \in Late
    BY <1>3, FlowFrame
<1>5. \A r \in Requests : request[r] # "none" => target[r] \in Flows
    BY DEF TypeInv
<1> QED BY <1>1, <1>4, <1>5 DEF GrantInv, browser

\* A request arrives at an open listener and is then granted, or not.
LEMMA HandlerGrant ==
    ASSUME TypeInv, ListenInv, GrantInv, NEW r \in Requests,
           HandlerStep(r) \/ \E f \in Flows : Arrive(r, f)
    PROVE  GrantInv'
<1>a. /\ DOMAIN request = Requests /\ DOMAIN target = Requests /\ granted \subseteq Requests
      /\ flow \in [Flows -> {"none", "bind", "bind6", "authurl", "open", "serve",
                           "select", "shutdown", "drain", "returned"}]
    BY DEF TypeInv, TypeOK
<1>1. ASSUME NEW f \in Flows, Arrive(r, f) PROVE GrantInv'
  <2>1. PICK fam \in Families : listener[f][fam] = "serving"
    BY <1>1 DEF Arrive
  <2>2. flow[f] \in {"select", "shutdown", "drain", "returned"}
    BY <1>a, <2>1 DEF ListenInv, Listens
  <2> QED BY <1>a, <1>1, <2>2 DEF Arrive, Step, GrantInv
<1>2. CASE Grant(r)
    BY <1>a, <1>2 DEF Grant, Step, GrantInv
<1>3. CASE Deny(r)
  <2>1. /\ request' = [request EXCEPT ![r] = IF kind[target[r]] = "oidc" THEN "abort" ELSE "over"]
        /\ request[r] = "ask" /\ UNCHANGED <<flow, target, granted>>
    BY <1>3 DEF Deny, Step
  <2> QED BY <1>a, <2>1 DEF GrantInv
<1>4. CASE TellSuccess(r)
    BY <1>a, <1>4 DEF TellSuccess, Step, GrantInv
<1>5. CASE FinishFlow(r)
    BY <1>a, <1>5 DEF FinishFlow, GrantInv
<1> QED BY <1>1, <1>2, <1>3, <1>4, <1>5 DEF HandlerStep

\* Every step keeps GrantInv.
LEMMA NextGrant == TypeInv /\ ListenInv /\ GrantInv /\ [Next]_vars => GrantInv'
<1> SUFFICES ASSUME TypeInv, ListenInv, GrantInv, [Next]_vars PROVE GrantInv'
    OBVIOUS
<1>1. CASE UNCHANGED <<flow, target, request, granted>>
    BY <1>1 DEF GrantInv
<1>2. ASSUME NEW f \in Flows, NEW fam \in Families, ServeStarts(f, fam) PROVE GrantInv'
    BY <1>1, <1>2 DEF ServeStarts, browser
<1>3. CASE OtherProcess \/ UNCHANGED vars
    BY <1>1, <1>3 DEF OtherProcess, vars, browser
<1> QED BY <1>1, <1>2, <1>3, FlowGrant, HandlerGrant DEF Next

Returned == [f \in Flows |-> IF flow[f] = "returned" THEN result[f] ELSE Nothing]
Owner == [r \in Requests |-> IF r \in granted THEN target[r] ELSE NoFlow]

\* The beginning is the beginning.
LEMMA InitLogin == Init => Login!LoginInit
BY DEF Init, Login!LoginInit

\* A step of a flow begins, refuses or ends a login, or is nobody's business.
LEMMA FlowLogin ==
    ASSUME TypeInv, SlotIsExact, ResultInv, NEW f \in Flows, FlowStep(f)
    PROVE  \/ Login!Begin(f) \/ Login!Refuse(f) \/ Login!End(f)
           \/ UNCHANGED <<slot, Returned, Owner>>
<1>a. /\ flow \in [Flows -> {"none", "bind", "bind6", "authurl", "open", "serve",
                           "select", "shutdown", "drain", "returned"}]
      /\ result \in [Flows -> Requests \union {Failure, Nothing}]
      /\ \A g \in Flows : flow[g] = "returned" => result[g] # Nothing
    BY DEF TypeInv, TypeOK
<1>b. Owner' = Owner
  <2>1. UNCHANGED browser
    BY DEF FlowStep, Acquire, Busy, BindV4, BindV4Fails, BindV6, BindV6Fails, AuthURL, AuthURLFails,
        OpenURL, OpenURLFails, Serve, Select, Shutdown, Return
  <2> QED BY <2>1 DEF browser, Owner
<1>c. ASSUME NEW to, flow[f] # "returned", to # "returned", flow' = [flow EXCEPT ![f] = to],
             \A g \in Flows \ {f} : result'[g] = result[g]
      PROVE  Returned' = Returned
    BY <1>a, <1>c DEF Returned
<1>d. ASSUME flow[f] \notin {"none", "returned"}, flow' = [flow EXCEPT ![f] = "returned"],
             slot' = NoFlow, result' = [result EXCEPT ![f] = result'[f]],
             result'[f] \in {Failure} \union {r \in Requests : Owner[r] = f}
      PROVE  Login!End(f)
  <2>1. slot = f
    BY <1>d DEF SlotIsExact
  <2>2. Returned[f] = Nothing
    BY <1>d DEF Returned
  <2>3. Returned' = [Returned EXCEPT ![f] = result'[f]]
    BY <1>a, <1>d DEF Returned
  <2> QED BY <1>b, <1>d, <2>1, <2>2, <2>3 DEF Login!End, Returned, Owner
<1>1. CASE Acquire(f)
  <2>1. slot = NoFlow /\ slot' = f /\ flow[f] = "none"
    BY <1>1 DEF Acquire, Go
  <2>2. Returned' = Returned
    BY <1>1, <1>c DEF Acquire, Go
  <2>3. Returned[f] = Nothing
    BY <2>1 DEF Returned
  <2> QED BY <1>b, <2>1, <2>2, <2>3 DEF Login!Begin, Returned, Owner
<1>2. CASE Busy(f)
  <2>1. slot # NoFlow /\ slot' = slot /\ flow[f] = "none"
    BY <1>2 DEF Busy, Go
  <2>2. slot # f
    BY <2>1 DEF SlotIsExact
  <2>3. Returned[f] = Nothing
    BY <2>1 DEF Returned
  <2>4. Returned' = [Returned EXCEPT ![f] = Failure]
    BY <1>a, <1>2 DEF Busy, Go, Returned
  <2> QED BY <1>b, <2>1, <2>2, <2>3, <2>4 DEF Login!Refuse, Returned, Owner
<1>3. CASE BindV4Fails(f) \/ BindV6Fails(f) \/ (OpenURLFails(f) /\ kind[f] = "setup")
  <2>1. /\ flow[f] \notin {"none", "returned"} /\ flow' = [flow EXCEPT ![f] = "returned"]
        /\ slot' = NoFlow /\ result' = [result EXCEPT ![f] = Failure]
    BY <1>3 DEF BindV4Fails, BindV6Fails, OpenURLFails, Fail, Go
  <2> QED BY <1>a, <1>d, <2>1
<1>4. CASE Return(f)
  <2>1. /\ flow[f] = "drain" /\ flow' = [flow EXCEPT ![f] = "returned"]
        /\ slot' = NoFlow /\ result' = result
    BY <1>4 DEF Return, Go
  <2>2. result[f] \in Requests \union {Failure}
    BY <1>a, <2>1 DEF TypeInv
  <2>3. result[f] \in Requests => Owner[result[f]] = f
    BY DEF ResultInv, Own, Owner
  <2> QED BY <1>a, <1>d, <2>1, <2>2, <2>3
<1>5. CASE Select(f)
  <2>1. /\ flow[f] = "select" /\ flow' = [flow EXCEPT ![f] = "shutdown"] /\ slot' = slot
        /\ \A g \in Flows \ {f} : result'[g] = result[g]
    BY <1>a, <1>5 DEF Select, Go
  <2> QED BY <1>b, <1>c, <2>1
<1>6. CASE \/ BindV4(f) \/ BindV6(f) \/ AuthURL(f) \/ AuthURLFails(f) \/ OpenURL(f)
           \/ (OpenURLFails(f) /\ kind[f] # "setup") \/ Serve(f) \/ Shutdown(f)
  <2>1. PICK to : flow[f] # "returned" /\ to # "returned" /\ flow' = [flow EXCEPT ![f] = to]
    BY <1>6 DEF BindV4, BindV6, AuthURL, AuthURLFails, OpenURL, OpenURLFails, Serve, Shutdown, Go
  <2>2. UNCHANGED <<slot, result>>
    BY <1>6 DEF BindV4, BindV6, AuthURL, AuthURLFails, OpenURL, OpenURLFails, Serve, Shutdown, session
  <2> QED BY <1>b, <1>c, <2>1, <2>2
<1> QED BY <1>1, <1>2, <1>3, <1>4, <1>5, <1>6 DEF FlowStep

\* A request's step grants it to the flow it has reached, or is nobody's
\* business.
LEMMA HandlerLogin ==
    ASSUME TypeInv, SlotIsExact, GrantInv, NEW r \in Requests,
           HandlerStep(r) \/ \E f \in Flows : Arrive(r, f)
    PROVE  \/ \E f \in Flows : Login!GrantTo(r, f)
           \/ UNCHANGED <<slot, Returned, Owner>>
<1>a. /\ DOMAIN target = Requests /\ granted \subseteq Requests
      /\ \A g \in Flows : flow[g] = "returned" => result[g] # Nothing
    BY DEF TypeInv, TypeOK
<1>b. UNCHANGED <<slot, flow, result>>
    BY DEF HandlerStep, Arrive, Grant, Deny, TellSuccess, FinishFlow
<1>c. Returned' = Returned
    BY <1>b DEF Returned
<1>1. ASSUME NEW f \in Flows, Arrive(r, f) PROVE Owner' = Owner
  <2>1. r \notin granted
    BY <1>1 DEF Arrive, Step, GrantInv
  <2> QED BY <1>a, <1>1, <2>1 DEF Arrive, Owner
<1>2. CASE Grant(r)
  <2>1. /\ request[r] = "ask" /\ granted' = granted \union {r} /\ target' = target
    BY <1>2 DEF Grant, Step
  <2>2. r \notin granted /\ target[r] \in Flows
        /\ flow[target[r]] \in {"select", "shutdown", "drain", "returned"}
    BY <2>1 DEF GrantInv, TypeInv
  <2>3. Owner[r] = NoFlow /\ Owner' = [Owner EXCEPT ![r] = target[r]]
    BY <1>a, <2>1, <2>2 DEF Owner
  <2>4. slot = target[r] \/ Returned[target[r]] # Nothing
    BY <1>a, <2>2 DEF SlotIsExact, Returned
  <2> QED BY <1>b, <1>c, <2>2, <2>3, <2>4 DEF Login!GrantTo, Returned, Owner
<1>3. CASE Deny(r) \/ TellSuccess(r) \/ FinishFlow(r)
  <2>1. UNCHANGED <<target, granted>>
    BY <1>3 DEF Deny, TellSuccess, FinishFlow
  <2> QED BY <1>b, <1>c, <2>1 DEF Owner
<1> QED BY <1>b, <1>c, <1>1, <1>2, <1>3 DEF HandlerStep

\* Every step is a step of the abstract login, or none.
LEMMA NextLogin ==
    TypeInv /\ SlotIsExact /\ ResultInv /\ GrantInv /\ [Next]_vars
        => [Login!LoginNext]_(Login!loginVars)
<1> SUFFICES ASSUME TypeInv, SlotIsExact, ResultInv, GrantInv, [Next]_vars
             PROVE  Login!LoginNext \/ UNCHANGED <<slot, Returned, Owner>>
    BY DEF Login!loginVars, Returned, Owner
<1>1. ASSUME NEW f \in Flows, FlowStep(f)
      PROVE  Login!LoginNext \/ UNCHANGED <<slot, Returned, Owner>>
    BY <1>1, FlowLogin DEF Login!LoginNext
<1>2. ASSUME NEW r \in Requests, HandlerStep(r) \/ \E f \in Flows : Arrive(r, f)
      PROVE  Login!LoginNext \/ UNCHANGED <<slot, Returned, Owner>>
    BY <1>2, HandlerLogin DEF Login!LoginNext
<1>3. CASE UNCHANGED <<slot, flow, result, target, granted>>
    BY <1>3 DEF Returned, Owner
<1>4. ASSUME NEW f \in Flows, NEW fam \in Families, ServeStarts(f, fam)
      PROVE  UNCHANGED <<slot, flow, result, target, granted>>
    BY <1>4 DEF ServeStarts, browser
<1>5. CASE OtherProcess \/ UNCHANGED vars
    BY <1>3, <1>5 DEF OtherProcess, vars, browser
<1> QED BY <1>1, <1>2, <1>3, <1>4, <1>5 DEF Next

\* Seen from outside, the browser flows are one login at a time: whatever the
\* listeners, browsers and handlers do, each call begins and ends once or is
\* refused, and ends with what was granted to it, for any number of calls.
THEOREM OneLoginCorrect == Spec => KeepsOneLogin
<1> QED BY InitTypeInv, NextTypeInv, InitSlot, NextSlot, InitResult, NextResult, InitListen, NextListen,
    InitGrant, NextGrant, InitLogin, NextLogin, PTL DEF Spec, KeepsOneLogin, Login!LoginSpec
=============================================================================
