--------------------------- MODULE CoreHubProofs ---------------------------
(***************************************************************************)
(* Proofs about CoreHub, for any requests, files and selections: exactly   *)
(* the holder of runLock is in a critical section, the inbound listeners   *)
(* are settled whenever no request is under way, and the handlers          *)
(* implement the atomic core of CoreState.                                 *)
(***************************************************************************)
EXTENDS CoreHub, TLAPS

USE DEF state

(* Where the values of requests and configurations lie.                    *)
LEMMA Sorts ==
    /\ \A f \in Files \cup {Default} : Fresh(f) \in Configs
    /\ \A c \in Configs, p \in Ports : [c EXCEPT !.port = p] \in Configs
    /\ \A q \in Requests :
          /\ q.method \in Methods
          /\ q.method = "update" => q.arg.port \in Ports
          /\ q.method # "update" => q.arg \in Sels
    /\ Nil \notin Configs /\ Nil \notin Reqs
BY HubAssumption DEF Fresh, Configs, Requests, Arg, Patches

(* Every step keeps the variables well typed and critical sections         *)
(* exclusive.                                                              *)
LEMMA TypeNext == TypeOK /\ [Next]_vars => TypeOK'
<1>. SUFFICES ASSUME TypeOK, [Next]_vars PROVE TypeOK'
  OBVIOUS
<1>. USE DEF TypeOK, Holder, Critical
<1>1. ASSUME NEW r \in Reqs, Receive(r) PROVE TypeOK'
  BY <1>1, Sorts DEF Receive, Go, Return, At, Ok, Fail
<1>2. ASSUME NEW r \in Reqs, handleInitClash(r) PROVE TypeOK'
  BY <1>2, Sorts DEF handleInitClash, Go, Return, At, Ok, Fail
<1>3. ASSUME NEW r \in Reqs, handleStartListener(r) PROVE TypeOK'
  BY <1>3, Sorts DEF handleStartListener, Go, Return, At, Ok, Fail
<1>4. ASSUME NEW r \in Reqs, handleStopListener(r) PROVE TypeOK'
  BY <1>4, Sorts DEF handleStopListener, Go, Return, At, Ok, Fail
<1>5. ASSUME NEW r \in Reqs, handleSetupConfig(r) PROVE TypeOK'
  BY <1>5, Sorts DEF handleSetupConfig, Go, Return, At, Ok, Fail
<1>6. ASSUME NEW r \in Reqs, applyConfig(r) PROVE TypeOK'
  BY <1>6, Sorts DEF applyConfig, Go, Return, At, Ok, Fail
<1>7. ASSUME NEW r \in Reqs, patchSelectGroup(r) PROVE TypeOK'
  BY <1>7, Sorts DEF patchSelectGroup, Go, Return, At, Ok, Fail
<1>8. ASSUME NEW r \in Reqs, updateConfig(r) PROVE TypeOK'
  BY <1>8, Sorts DEF updateConfig, Go, Return, At, Ok, Fail
<1>9. ASSUME NEW r \in Reqs, updateListeners(r) PROVE TypeOK'
  BY <1>9, Sorts DEF updateListeners, Go, Return, At, Ok, Fail
<1>10. ASSUME NEW r \in Reqs, stopListeners(r) PROVE TypeOK'
  BY <1>10, Sorts DEF stopListeners, Go, Return, At, Ok, Fail
<1>11. ASSUME NEW r \in Reqs, handleChangeProxy(r) PROVE TypeOK'
  BY <1>11, Sorts DEF handleChangeProxy, Go, Return, At, Ok, Fail
<1>12. ASSUME NEW r \in Reqs, handleGetProxies(r) PROVE TypeOK'
  BY <1>12, Sorts DEF handleGetProxies, Go, Return, At, Ok, Fail
<1>13. ASSUME NEW r \in Reqs, quickSetup(r) PROVE TypeOK'
  BY <1>13, Sorts DEF quickSetup, Go, Return, At, Ok, Fail
<1>14. ASSUME NEW r \in Reqs, Reply(r) PROVE TypeOK'
  BY <1>14, Sorts DEF Reply, Go, Return, At, Ok, Fail
<1>15. CASE WriteFile
  BY <1>15 DEF WriteFile
<1>16. CASE UNCHANGED vars
  BY <1>16 DEF vars
<1>. HIDE DEF TypeOK, Holder, Critical
<1>17. ASSUME NEW r \in Reqs, Locks(r) PROVE TypeOK'
  BY <1>17, <1>2, <1>3, <1>4, <1>6, <1>8, <1>11, <1>12, <1>13
  DEF Locks
<1>18. ASSUME NEW r \in Reqs, Runs(r) PROVE TypeOK'
  BY <1>18, <1>5, <1>7, <1>9, <1>10, <1>14 DEF Runs
<1>. QED
  BY <1>1, <1>15, <1>16, <1>17, <1>18 DEF Next

(* The variables keep their types, and only the holder of runLock is in a  *)
(* critical section.                                                       *)
THEOREM TypeCorrect == Spec => []TypeOK
<1>1. Init => TypeOK
  BY Sorts DEF Init, TypeOK, Holder, Critical
<1>. QED
  BY <1>1, TypeNext, PTL DEF Spec

(* Every step keeps the listeners in step with the state.                  *)
LEMMA InStepNext == TypeOK /\ InStep /\ [Next]_vars => InStep'
<1>. SUFFICES ASSUME TypeOK, InStep, [Next]_vars PROVE InStep'
  OBVIOUS
<1>. USE DEF TypeOK, Holder, Critical, InStep, Pending, Closing, Opening
<1>1. ASSUME NEW r \in Reqs, Receive(r) PROVE InStep'
  BY <1>1, Sorts DEF Receive, Go, Return, At, Ok, Fail
<1>2. ASSUME NEW r \in Reqs, handleInitClash(r) PROVE InStep'
  BY <1>2, Sorts DEF handleInitClash, Go, Return, At, Ok, Fail
<1>3. ASSUME NEW r \in Reqs, handleStartListener(r) PROVE InStep'
  BY <1>3, Sorts DEF handleStartListener, Go, Return, At, Ok, Fail
<1>4. ASSUME NEW r \in Reqs, handleStopListener(r) PROVE InStep'
  BY <1>4, Sorts DEF handleStopListener, Go, Return, At, Ok, Fail
<1>5. ASSUME NEW r \in Reqs, handleSetupConfig(r) PROVE InStep'
  BY <1>5, Sorts DEF handleSetupConfig, Go, Return, At, Ok, Fail
<1>6. ASSUME NEW r \in Reqs, applyConfig(r) PROVE InStep'
  BY <1>6, Sorts DEF applyConfig, Go, Return, At, Ok, Fail
<1>7. ASSUME NEW r \in Reqs, patchSelectGroup(r) PROVE InStep'
  BY <1>7, Sorts DEF patchSelectGroup, Go, Return, At, Ok, Fail
<1>8. ASSUME NEW r \in Reqs, updateConfig(r) PROVE InStep'
  BY <1>8, Sorts DEF updateConfig, Go, Return, At, Ok, Fail
<1>9. ASSUME NEW r \in Reqs, updateListeners(r) PROVE InStep'
  BY <1>9, Sorts DEF updateListeners, Go, Return, At, Ok, Fail
<1>10. ASSUME NEW r \in Reqs, stopListeners(r) PROVE InStep'
  BY <1>10, Sorts DEF stopListeners, Go, Return, At, Ok, Fail
<1>11. ASSUME NEW r \in Reqs, handleChangeProxy(r) PROVE InStep'
  BY <1>11, Sorts DEF handleChangeProxy, Go, Return, At, Ok, Fail
<1>12. ASSUME NEW r \in Reqs, handleGetProxies(r) PROVE InStep'
  BY <1>12, Sorts DEF handleGetProxies, Go, Return, At, Ok, Fail
<1>13. ASSUME NEW r \in Reqs, quickSetup(r) PROVE InStep'
  BY <1>13, Sorts DEF quickSetup, Go, Return, At, Ok, Fail
<1>14. ASSUME NEW r \in Reqs, Reply(r) PROVE InStep'
  BY <1>14, Sorts DEF Reply, Go, Return, At, Ok, Fail
<1>15. CASE WriteFile
  BY <1>15 DEF WriteFile
<1>16. CASE UNCHANGED vars
  BY <1>16 DEF vars
<1>. HIDE DEF TypeOK, Holder, Critical, InStep, Pending, Closing, Opening
<1>17. ASSUME NEW r \in Reqs, Locks(r) PROVE InStep'
  BY <1>17, <1>2, <1>3, <1>4, <1>6, <1>8, <1>11, <1>12, <1>13
  DEF Locks
<1>18. ASSUME NEW r \in Reqs, Runs(r) PROVE InStep'
  BY <1>18, <1>5, <1>7, <1>9, <1>10, <1>14 DEF Runs
<1>. QED
  BY <1>1, <1>15, <1>16, <1>17, <1>18 DEF Next

(* The listeners follow the state between any two steps.                   *)
LEMMA InStepAlways == Spec => []InStep
<1>1. Init => InStep
  BY DEF Init, InStep
<1>. QED
  BY <1>1, InStepNext, TypeCorrect, PTL DEF Spec

(* When no request is under way, the listeners serve the current           *)
(* configuration if the core runs, and nothing otherwise.                  *)
THEOREM SettledAlways == Spec => []Settled
<1>1. TypeOK /\ InStep => Settled
  BY Sorts DEF TypeOK, Holder, Critical, InStep, Pending, Closing, Opening, Settled
<1>. QED
  BY <1>1, TypeCorrect, InStepAlways, PTL

-----------------------------------------------------------------------------
(* A request that moves on changes its own phase only.                     *)
LEMMA Moves ==
  ASSUME TypeOK, NEW r \in Reqs, NEW step, Go(r, step), UNCHANGED req
  PROVE  phaseBar' = [phaseBar EXCEPT ![r] = phaseAt(step, req[r])]
BY DEF TypeOK, Go, phaseBar

(* Every step is a step of the atomic core or leaves it as it is.          *)
LEMMA LinearNext == TypeOK /\ InStep /\ [Next]_vars => [Core!Next]_(Core!vars)
<1>. SUFFICES ASSUME TypeOK, InStep, [Next]_vars PROVE Core!Next \/ UNCHANGED Core!vars
  OBVIOUS
<1>. USE DEF TypeOK, Holder, Critical, InStep, Pending, Closing, Opening,
             servingBar, selBar
<1>1. ASSUME NEW r \in Reqs, handleInitClash(r) PROVE Core!Do(r)
  <2>1. phaseBar[r] = "asked" /\ phaseBar' = [phaseBar EXCEPT ![r] = "done"]
    BY <1>1, Moves DEF handleInitClash, Return, Go, At, phaseBar, phaseAt
  <2>. QED
    BY <1>1, <2>1, Sorts DEF handleInitClash, Go, Return, At, Ok, Fail,
       Core!Do, Core!Done, Core!Ok, Core!Fail, Core!DoInit
<1>2. ASSUME NEW r \in Reqs, handleStartListener(r) PROVE Core!Do(r)
  <2>1. phaseBar[r] = "asked" /\ phaseBar' = [phaseBar EXCEPT ![r] = "done"]
    BY <1>2, Moves DEF handleStartListener, Return, Go, At, phaseBar, phaseAt
  <2>. QED
    BY <1>2, <2>1, Sorts DEF handleStartListener, Go, Return, At, Ok, Fail,
       Core!Do, Core!Done, Core!Ok, Core!Fail, Core!DoStart
<1>3. ASSUME NEW r \in Reqs, handleStopListener(r) PROVE Core!Do(r)
  <2>1. phaseBar[r] = "asked" /\ phaseBar' = [phaseBar EXCEPT ![r] = "done"]
    BY <1>3, Moves DEF handleStopListener, Return, Go, At, phaseBar, phaseAt
  <2>. QED
    BY <1>3, <2>1, Sorts DEF handleStopListener, Go, Return, At, Ok, Fail,
       Core!Do, Core!Done, Core!Ok, Core!Fail, Core!DoStop
<1>4. ASSUME NEW r \in Reqs, handleChangeProxy(r) PROVE Core!Do(r)
  <2>1. phaseBar[r] = "asked" /\ phaseBar' = [phaseBar EXCEPT ![r] = "done"]
    BY <1>4, Moves DEF handleChangeProxy, Return, Go, At, phaseBar, phaseAt
  <2>. QED
    BY <1>4, <2>1, Sorts DEF handleChangeProxy, Go, Return, At, Ok, Fail,
       Core!Do, Core!Done, Core!Ok, Core!Fail, Core!DoChange
<1>5. ASSUME NEW r \in Reqs, handleGetProxies(r) PROVE Core!Do(r)
  <2>1. phaseBar[r] = "asked" /\ phaseBar' = [phaseBar EXCEPT ![r] = "done"]
    BY <1>5, Moves DEF handleGetProxies, Return, Go, At, phaseBar, phaseAt
  <2>. QED
    BY <1>5, <2>1, Sorts DEF handleGetProxies, Go, Return, At, Ok, Fail,
       Core!Do, Core!Done, Core!Ok, Core!Fail, Core!DoGet
<1>6. ASSUME NEW r \in Reqs, patchSelectGroup(r) PROVE UNCHANGED Core!vars
  <2>1. phaseBar' = phaseBar
    BY <1>6, Moves DEF patchSelectGroup, Go, phaseBar, phaseAt
  <2>. QED
    BY <1>6, <2>1, Sorts DEF patchSelectGroup, Go, Core!vars
<1>7. ASSUME NEW r \in Reqs, updateListeners(r) PROVE UNCHANGED Core!vars
  <2>1. phaseBar' = phaseBar
    BY <1>7, Moves DEF updateListeners, Go, phaseBar, phaseAt
  <2>. QED
    BY <1>7, <2>1, Sorts DEF updateListeners, Go, Core!vars
<1>8. ASSUME NEW r \in Reqs, stopListeners(r) PROVE UNCHANGED Core!vars
  <2>1. phaseBar' = phaseBar
    BY <1>8, Moves DEF stopListeners, Go, phaseBar, phaseAt
  <2>. QED
    BY <1>8, <2>1, Sorts DEF stopListeners, Go, Core!vars
<1>9. ASSUME NEW r \in Reqs, Reply(r) PROVE Core!Answer(r)
  <2>1. phaseBar[r] = "done" /\ phaseBar' = [phaseBar EXCEPT ![r] = "none"]
    BY <1>9 DEF Reply, Go, phaseBar, phaseAt
  <2>. QED
    BY <1>9, <2>1, Sorts DEF Reply, Go, Core!Answer
<1>10. ASSUME NEW r \in Reqs, quickSetup(r) PROVE Core!QuickInit(r)
  <2>1. phaseBar[r] = "asked" /\ phaseBar' = [phaseBar EXCEPT ![r] = "ready"]
    BY <1>10, Moves DEF quickSetup, Go, At, phaseBar, phaseAt
  <2>. QED
    BY <1>10, <2>1, Sorts DEF quickSetup, Go, At, Core!QuickInit
<1>11. ASSUME NEW r \in Reqs, applyConfig(r) PROVE Core!Do(r) \/ Core!Quick(r)
  <2>0. Go(r, "select") /\ UNCHANGED req
    BY <1>11 DEF applyConfig
  <2>1. phaseBar' = [phaseBar EXCEPT ![r] = "done"]
    BY <2>0 DEF Go, phaseBar, phaseAt
  <2>2. Core!DoSetup(r)
    BY <1>11, <2>1, Sorts DEF applyConfig, Go, Ok, Fail, Fresh,
       Core!DoSetup, Core!Done, Core!Ok, Core!Fail, Core!Fresh, Core!Served
  <2>3. \/ phaseBar[r] = "asked" /\ req[r].method = "setup"
        \/ phaseBar[r] = "on"
    BY <1>11 DEF applyConfig, phaseBar, phaseAt
  <2>. QED
    BY <2>2, <2>3 DEF Core!Do, Core!Quick
<1>12. ASSUME NEW r \in Reqs, updateConfig(r) PROVE Core!Do(r)
  <2>0. (Go(r, "reply") \/ Go(r, "listen")) /\ UNCHANGED req /\ At(r, "call", "update")
    BY <1>12 DEF updateConfig, Return
  <2>1. phaseBar[r] = "asked" /\ phaseBar' = [phaseBar EXCEPT ![r] = "done"]
    <3>1. CASE Go(r, "reply")
      BY <2>0, <3>1 DEF Go, At, phaseBar, phaseAt
    <3>2. CASE Go(r, "listen")
      BY <2>0, <3>2 DEF Go, At, phaseBar, phaseAt
    <3>. QED
      BY <2>0, <3>1, <3>2
  <2>2. CASE currentConfig = Nil
    BY <1>12, <2>1, <2>2, Sorts DEF updateConfig, Go, Return, At, Fail, Core!Do,
       Core!DoUpdate, Core!Done, Core!Fail
  <2>3. CASE currentConfig # Nil
    BY <1>12, <2>1, <2>3, Sorts DEF updateConfig, Go, Return, At, Ok, Core!Do,
       Core!DoUpdate, Core!Done, Core!Ok, Core!Served
  <2>. QED
    BY <2>2, <2>3
<1>13. ASSUME NEW r \in Reqs, handleSetupConfig(r)
       PROVE  Core!Do(r) \/ Core!QuickRun(r) \/ UNCHANGED Core!vars
  <2>1. CASE pc[r] = "run"
    <3>1. phaseBar[r] = "ready" /\ phaseBar' = [phaseBar EXCEPT ![r] = "on"]
      BY <1>13, <2>1, Moves DEF handleSetupConfig, Go, At, phaseBar, phaseAt
    <3>. QED
      BY <1>13, <2>1, <3>1, Sorts DEF handleSetupConfig, Go, At, Core!QuickRun
  <2>2. CASE pc[r] = "call" /\ isInit
    <3>1. phaseBar' = phaseBar
      BY <1>13, <2>2, Moves DEF handleSetupConfig, Go, At, phaseBar, phaseAt
    <3>. QED
      BY <1>13, <2>2, <3>1, Sorts DEF handleSetupConfig, Go, At, Core!vars
  <2>3. CASE pc[r] = "call" /\ ~isInit
    <3>0. Go(r, "reply") /\ UNCHANGED req /\ At(r, "call", "setup")
      BY <1>13, <2>3 DEF handleSetupConfig, Return, At
    <3>1. phaseBar[r] = "asked" /\ phaseBar' = [phaseBar EXCEPT ![r] = "done"]
      BY <2>3, <3>0 DEF Go, At, phaseBar, phaseAt
    <3>. QED
      BY <1>13, <2>3, <3>1, Sorts DEF handleSetupConfig, Go, Return, At, Fail,
         Core!Do, Core!DoSetup, Core!Done, Core!Fail
  <2>. QED
    BY <1>13, <2>1, <2>2, <2>3 DEF handleSetupConfig, At
<1>14. ASSUME NEW r \in Reqs, Receive(r) PROVE Core!Ask(r)
  <2>1. PICK q \in Requests : req' = [req EXCEPT ![r] = q]
    BY <1>14 DEF Receive
  <2>2. /\ q = [method |-> q.method, arg |-> q.arg]
        /\ q.method \in AllMethods
        /\ q.arg \in [port : Ports, lan : BOOLEAN] \cup Sels
    BY HubAssumption DEF Requests, Arg, Patches
  <2>3. phaseBar[r] = "none" /\ phaseBar' = [phaseBar EXCEPT ![r] = "asked"]
    BY <1>14, <2>1 DEF Receive, Go, phaseBar, phaseAt
  <2>4. servingBar' = servingBar /\ selBar' = selBar
    BY <1>14, <2>1, Sorts DEF Receive, Go
  <2>5. \E m \in AllMethods, a \in [port : Ports, lan : BOOLEAN] \cup Sels :
            req' = [req EXCEPT ![r] = [method |-> m, arg |-> a]]
    BY <2>1, <2>2
  <2>. HIDE DEF servingBar, selBar, TypeOK, InStep
  <2>. QED
    BY <1>14, <2>3, <2>4, <2>5 DEF Receive, Core!Ask, AllMethods
<1>15. CASE WriteFile
  BY <1>15 DEF WriteFile, phaseBar, Core!Next, Core!Write
<1>16. CASE UNCHANGED vars
  BY <1>16 DEF vars, phaseBar, Core!vars
<1>. HIDE DEF TypeOK, Holder, Critical, InStep, Pending, Closing, Opening,
              servingBar, selBar
<1>17. ASSUME NEW r \in Reqs, Locks(r) PROVE Core!Next
  BY <1>17, <1>1, <1>2, <1>3, <1>4, <1>5, <1>10, <1>11, <1>12
  DEF Locks, Core!Next, Core!Quick
<1>18. ASSUME NEW r \in Reqs, Runs(r) PROVE Core!Next \/ UNCHANGED Core!vars
  BY <1>18, <1>6, <1>7, <1>8, <1>9, <1>13 DEF Runs, Core!Next, Core!Quick
<1>. QED
  BY <1>14, <1>15, <1>16, <1>17, <1>18 DEF Next, Core!Next

(* The handlers implement the atomic core: each request takes effect at    *)
(* once between its arrival and its answer (quickSetup in three steps).    *)
THEOREM Linearizable == Spec => Linear
<1>1. Init => Core!Init
  BY DEF Init, Core!Init, servingBar, selBar, phaseBar, phaseAt
<1>. QED
  BY <1>1, LinearNext, TypeCorrect, InStepAlways, PTL
  DEF Spec, Linear, Core!Spec
=============================================================================
