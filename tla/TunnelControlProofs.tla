------------------------ MODULE TunnelControlProofs ------------------------
(***************************************************************************)
(* For any number of callers and of tunnels, however the calls overlap:    *)
(* the rules have an owner, a tunnel that has ended listens nowhere, State *)
(* shows none of it when the last one has ended, and a cancelled tunnel    *)
(* goes only towards its end.  While no two calls overlap there is one     *)
(* tunnel, the next stop cancels it, and the control implements            *)
(* TunnelPromise.  Composed with module.prop, the daemon leaves no tunnel  *)
(* shown in the file once all has come to rest.                            *)
(*                                                                         *)
(* ControlInv is inductive; each of its parts has a lemma with one case    *)
(* for every action.  SerialInv is inductive beside it where OneAtATime    *)
(* holds, and PropInv is for the composition.                              *)
(*                                                                         *)
(* The last part is about the State that the tunnel reports to: for any    *)
(* number of setters and of clients, and any bound on the changes,         *)
(* coalescing notifications lose no change and State.subs holds exactly    *)
(* the listening handlers.                                                 *)
(***************************************************************************)
EXTENDS ModuleProp, StateBroadcast, TLAPS

\* Every step keeps the types.
LEMMA TypeStep ==
    TypeOK /\ Next => TypeOK'
<1> SUFFICES ASSUME TypeOK, alive, Step
             PROVE  TypeOK'
  BY DEF Next
<1> USE NamesAssumption DEF TypeOK, MgrPc, CallPc, ctlVars, endVars, netVars,
        callVars
<1>1. ASSUME NEW c \in Callers, Call(c) \/ StartStep(c) \/ StopStep(c)
      PROVE  TypeOK'
  <2>1. CASE Call(c)
    BY <2>1 DEF Call, Goto
  <2>2. CASE StartSkipped(c)
    BY <2>2 DEF StartSkipped, Goto, Finish, Busy
  <2>3. CASE StartNoProfile(c)
    BY <2>3 DEF StartNoProfile, Goto, Finish, Busy
  <2>4. CASE StartLoad(c)
    BY <2>4 DEF StartLoad, Goto, Busy
  <2>5. CASE StartStore(c)
    BY <2>5 DEF StartStore, Goto
  <2>6. CASE StartMake(c)
    BY <2>6 DEF StartMake, Goto, Assigned
  <2>7. CASE StartShow(c)
    BY <2>7 DEF StartShow, Goto, Publish
  <2>8. CASE StartGo(c)
    <3>1. /\ pc' = [pc EXCEPT ![c] = "idle"] /\ kind' = [kind EXCEPT ![c] = "stop"]
          /\ mgr' = [mgr EXCEPT ![tun[c]] = "loop"] /\ tun' = [tun EXCEPT ![c] = Nil]
      BY <2>8 DEF StartGo, Goto, Finish
    <3>2. pc' \in [Callers -> CallPc]
      BY <3>1
    <3>3. kind' \in [Callers -> {"start", "stop", "restart", "boot"}]
      BY <3>1
    <3>4. mgr' \in [Tunnels -> MgrPc]
      BY <3>1
    <3>5. tun' \in [Callers -> Tunnels \cup {Nil}]
      BY <3>1
    <3>6. UNCHANGED <<ctlVars, endVars, netVars, pub>>
      BY <2>8 DEF StartGo
    <3> QED BY <3>2, <3>3, <3>4, <3>5, <3>6
  <2>9. CASE StopLoad(c)
    BY <2>9 DEF StopLoad, Goto, AfterStop, Finish
  <2>10. CASE StopCancel(c)
    BY <2>10 DEF StopCancel, Goto, Called
  <2>11. CASE StopWaited(c)
    BY <2>11 DEF StopWaited, Goto
  <2>12. CASE StopClean(c)
    <3>1. pc' \in [Callers -> CallPc] /\ rules' \in BOOLEAN
      BY <2>12 DEF StopClean, Goto
    <3>2. UNCHANGED <<ctlVars, endVars, mgr, tport, sport, pub, kind, tun>>
      BY <2>12 DEF StopClean
    <3> QED BY <3>1, <3>2
  <2>13. CASE StopShow(c)
    BY <2>13 DEF StopShow, Goto, Publish, Quiet
  <2>14. CASE StopEnd(c)
    BY <2>14 DEF StopEnd, Goto, AfterStop, Finish
  <2> QED
    BY <1>1, <2>1, <2>2, <2>3, <2>4, <2>5, <2>6, <2>7, <2>8, <2>9, <2>10,
       <2>11, <2>12, <2>13, <2>14
       DEF StartStep, StopStep
<1>2. ASSUME NEW t \in Tunnels, MgrStep(t) PROVE TypeOK'
  <2>0. ASSUME NEW from, NEW to \in MgrPc, MgrClean(t, from, to) PROVE TypeOK'
    <3>1. mgr' \in [Tunnels -> MgrPc] /\ rules' \in BOOLEAN
      BY <2>0 DEF MgrClean, MgrGoto
    <3>2. UNCHANGED <<ctlVars, endVars, tport, sport, pub, callVars>>
      BY <2>0 DEF MgrClean
    <3> QED BY <3>1, <3>2
  <2>1. CASE MgrReturn(t)
    BY <2>1 DEF MgrReturn, MgrGoto, MgrMove, Waiting
  <2>2. CASE MgrRoute(t)
    BY <2>2 DEF MgrRoute, Awake, MgrGoto, MgrMove
  <2>3. CASE MgrPause(t)
    BY <2>3 DEF MgrPause, MgrGoto, MgrShow, Publish
  <2>4. CASE MgrAttempt(t)
    BY <2>4 DEF MgrAttempt, MgrGoto, MgrShow, Publish
  <2>5. CASE MgrWake(t)
    BY <2>5 DEF MgrWake, Awake, MgrGoto, MgrMove
  <2>6. CASE MgrSocks(t)
    BY <2>6 DEF MgrSocks, MgrGoto
  <2>7. CASE MgrListen(t)
    BY <2>7 DEF MgrListen, MgrGoto
  <2>8. CASE MgrApply(t)
    BY <2>8 DEF MgrApply, MgrGoto
  <2>9. CASE MgrUnrule(t)
    BY <2>0, <2>9 DEF MgrUnrule
  <2>10. CASE MgrUnsocks(t)
    BY <2>10 DEF MgrUnsocks, MgrGoto, Freed
  <2>11. CASE MgrStored(t)
    BY <2>11 DEF MgrStored, MgrGoto
  <2>12. CASE MgrShown(t)
    BY <2>12 DEF MgrShown, MgrGoto, Publish, Shown, Quiet
  <2>13. CASE MgrEnd(t)
    BY <2>13 DEF MgrEnd, MgrGoto
  <2>14. CASE MgrAuthFail(t)
    BY <2>14 DEF MgrAuthFail, MgrGoto, MgrShow, Publish
  <2>15. CASE MgrAuthOK(t)
    BY <2>15 DEF MgrAuthOK, MgrGoto, MgrShow, Publish
  <2>16. CASE MgrKeepAlive(t)
    BY <2>16 DEF MgrKeepAlive, MgrGoto, MgrShow, Publish
  <2>17. CASE MgrClose(t)
    BY <2>17 DEF MgrClose, MgrGoto, Unlisten
  <2>18. CASE MgrClear(t)
    BY <2>0, <2>18 DEF MgrClear
  <2>19. CASE MgrApplied(t)
    BY <2>19 DEF MgrApplied, MgrGoto, MgrMove
  <2>20. CASE MgrApplyFails(t)
    BY <2>20 DEF MgrApplyFails, MgrGoto
  <2>21. CASE MgrUndo(t)
    BY <2>0, <2>21 DEF MgrUndo
  <2> QED
    BY <1>2, <2>1, <2>2, <2>3, <2>4, <2>5, <2>6, <2>7, <2>8, <2>9, <2>10,
       <2>11, <2>12, <2>13, <2>14, <2>15, <2>16, <2>17,
       <2>18, <2>19, <2>20, <2>21
       DEF MgrStep, MgrRun
<1>3. CASE Signal
  BY <1>3 DEF Signal
<1>4. CASE Exit
  BY <1>4 DEF Exit
<1> QED BY <1>1, <1>2, <1>3, <1>4 DEF Step

\* Nobody else touches the tunnel a caller is starting.
LEMMA MadeStep ==
    TypeOK /\ MadeInv /\ Next => MadeInv'
<1> SUFFICES ASSUME TypeOK, MadeInv, alive, Step
             PROVE  MadeInv'
  BY DEF Next
<1> USE NamesAssumption DEF TypeOK, MadeInv, ctlVars, endVars, netVars,
        callVars
<1>1. ASSUME NEW c \in Callers, Call(c) \/ StartStep(c) \/ StopStep(c)
      PROVE  MadeInv'
  <2>1. CASE Call(c)
    BY <2>1 DEF Call, Goto
  <2>2. CASE StartSkipped(c)
    BY <2>2 DEF StartSkipped, Goto, Finish, Busy
  <2>3. CASE StartNoProfile(c)
    BY <2>3 DEF StartNoProfile, Goto, Finish, Busy
  <2>4. CASE StartLoad(c)
    BY <2>4 DEF StartLoad, Goto, Busy
  <2>5. CASE StartStore(c)
    BY <2>5 DEF StartStore, Goto
  <2>6. CASE StartMake(c)
    BY <2>6 DEF StartMake, Goto, Assigned
  <2>7. CASE StartShow(c)
    BY <2>7 DEF StartShow, Goto, Publish
  <2>8. CASE StartGo(c)
    BY <2>8 DEF StartGo, Goto, Finish
  <2>9. CASE StopLoad(c)
    BY <2>9 DEF StopLoad, Goto, AfterStop, Finish
  <2>10. CASE StopCancel(c)
    BY <2>10 DEF StopCancel, Goto, Called
  <2>11. CASE StopWaited(c)
    BY <2>11 DEF StopWaited, Goto
  <2>12. CASE StopClean(c)
    BY <2>12 DEF StopClean, Goto
  <2>13. CASE StopShow(c)
    BY <2>13 DEF StopShow, Goto, Publish, Quiet
  <2>14. CASE StopEnd(c)
    BY <2>14 DEF StopEnd, Goto, AfterStop, Finish
  <2> QED
    BY <1>1, <2>1, <2>2, <2>3, <2>4, <2>5, <2>6, <2>7, <2>8, <2>9, <2>10,
       <2>11, <2>12, <2>13, <2>14
       DEF StartStep, StopStep
<1>2. ASSUME NEW t \in Tunnels, MgrStep(t) PROVE MadeInv'
  <2>1. CASE MgrReturn(t)
    BY <2>1 DEF MgrReturn, MgrGoto, MgrMove, Waiting
  <2>2. CASE MgrRoute(t)
    BY <2>2 DEF MgrRoute, Awake, MgrGoto, MgrMove
  <2>3. CASE MgrPause(t)
    BY <2>3 DEF MgrPause, MgrGoto, MgrShow, Publish
  <2>4. CASE MgrAttempt(t)
    BY <2>4 DEF MgrAttempt, MgrGoto, MgrShow, Publish
  <2>5. CASE MgrWake(t)
    BY <2>5 DEF MgrWake, Awake, MgrGoto, MgrMove
  <2>6. CASE MgrSocks(t)
    BY <2>6 DEF MgrSocks, MgrGoto
  <2>7. CASE MgrListen(t)
    BY <2>7 DEF MgrListen, MgrGoto
  <2>8. CASE MgrApply(t)
    BY <2>8 DEF MgrApply, MgrGoto
  <2>9. CASE MgrUnrule(t)
    BY <2>9 DEF MgrUnrule, MgrClean, MgrGoto
  <2>10. CASE MgrUnsocks(t)
    BY <2>10 DEF MgrUnsocks, MgrGoto, Freed
  <2>11. CASE MgrStored(t)
    BY <2>11 DEF MgrStored, MgrGoto
  <2>12. CASE MgrShown(t)
    BY <2>12 DEF MgrShown, MgrGoto, Publish, Shown, Quiet
  <2>13. CASE MgrEnd(t)
    BY <2>13 DEF MgrEnd, MgrGoto
  <2>14. CASE MgrAuthFail(t)
    BY <2>14 DEF MgrAuthFail, MgrGoto, MgrShow, Publish
  <2>15. CASE MgrAuthOK(t)
    BY <2>15 DEF MgrAuthOK, MgrGoto, MgrShow, Publish
  <2>16. CASE MgrKeepAlive(t)
    BY <2>16 DEF MgrKeepAlive, MgrGoto, MgrShow, Publish
  <2>17. CASE MgrClose(t)
    BY <2>17 DEF MgrClose, MgrGoto, Unlisten
  <2>18. CASE MgrClear(t)
    BY <2>18 DEF MgrClear, MgrClean, MgrGoto
  <2>19. CASE MgrApplied(t)
    BY <2>19 DEF MgrApplied, MgrGoto, MgrMove
  <2>20. CASE MgrApplyFails(t)
    BY <2>20 DEF MgrApplyFails, MgrGoto
  <2>21. CASE MgrUndo(t)
    BY <2>21 DEF MgrUndo, MgrClean, MgrGoto
  <2> QED
    BY <1>2, <2>1, <2>2, <2>3, <2>4, <2>5, <2>6, <2>7, <2>8, <2>9, <2>10,
       <2>11, <2>12, <2>13, <2>14, <2>15, <2>16, <2>17,
       <2>18, <2>19, <2>20, <2>21
       DEF MgrStep, MgrRun
<1>3. CASE Signal
  BY <1>3 DEF Signal
<1>4. CASE Exit
  BY <1>4 DEF Exit
<1> QED BY <1>1, <1>2, <1>3, <1>4 DEF Step

\* A port is taken and given up at the places PortInv names.
LEMMA PortStep ==
    TypeOK /\ MadeInv /\ PortInv /\ Next => PortInv'
<1> SUFFICES ASSUME TypeOK, MadeInv, PortInv, alive, Step
             PROVE  PortInv'
  BY DEF Next
<1> USE NamesAssumption DEF TypeOK, MadeInv, PortInv, ctlVars, endVars,
        netVars, callVars
<1>1. ASSUME NEW c \in Callers, Call(c) \/ StartStep(c) \/ StopStep(c)
      PROVE  PortInv'
  <2>1. CASE Call(c)
    BY <2>1 DEF Call, Goto
  <2>2. CASE StartSkipped(c)
    BY <2>2 DEF StartSkipped, Goto, Finish, Busy
  <2>3. CASE StartNoProfile(c)
    BY <2>3 DEF StartNoProfile, Goto, Finish, Busy
  <2>4. CASE StartLoad(c)
    BY <2>4 DEF StartLoad, Goto, Busy
  <2>5. CASE StartStore(c)
    BY <2>5 DEF StartStore, Goto
  <2>6. CASE StartMake(c)
    BY <2>6 DEF StartMake, Goto, Assigned
  <2>7. CASE StartShow(c)
    BY <2>7 DEF StartShow, Goto, Publish
  <2>8. CASE StartGo(c)
    BY <2>8 DEF StartGo, Goto, Finish
  <2>9. CASE StopLoad(c)
    BY <2>9 DEF StopLoad, Goto, AfterStop, Finish
  <2>10. CASE StopCancel(c)
    BY <2>10 DEF StopCancel, Goto, Called
  <2>11. CASE StopWaited(c)
    BY <2>11 DEF StopWaited, Goto
  <2>12. CASE StopClean(c)
    BY <2>12 DEF StopClean, Goto
  <2>13. CASE StopShow(c)
    BY <2>13 DEF StopShow, Goto, Publish, Quiet
  <2>14. CASE StopEnd(c)
    BY <2>14 DEF StopEnd, Goto, AfterStop, Finish
  <2> QED
    BY <1>1, <2>1, <2>2, <2>3, <2>4, <2>5, <2>6, <2>7, <2>8, <2>9, <2>10,
       <2>11, <2>12, <2>13, <2>14
       DEF StartStep, StopStep
<1>2. ASSUME NEW t \in Tunnels, MgrStep(t) PROVE PortInv'
  <2>1. CASE MgrReturn(t)
    BY <2>1 DEF MgrReturn, MgrGoto, MgrMove, Waiting
  <2>2. CASE MgrRoute(t)
    BY <2>2 DEF MgrRoute, Awake, MgrGoto, MgrMove
  <2>3. CASE MgrPause(t)
    BY <2>3 DEF MgrPause, MgrGoto, MgrShow, Publish
  <2>4. CASE MgrAttempt(t)
    BY <2>4 DEF MgrAttempt, MgrGoto, MgrShow, Publish
  <2>5. CASE MgrWake(t)
    BY <2>5 DEF MgrWake, Awake, MgrGoto, MgrMove
  <2>6. CASE MgrSocks(t)
    BY <2>6 DEF MgrSocks, MgrGoto
  <2>7. CASE MgrListen(t)
    BY <2>7 DEF MgrListen, MgrGoto
  <2>8. CASE MgrApply(t)
    BY <2>8 DEF MgrApply, MgrGoto
  <2>9. CASE MgrUnrule(t)
    BY <2>9 DEF MgrUnrule, MgrClean, MgrGoto
  <2>10. CASE MgrUnsocks(t)
    BY <2>10 DEF MgrUnsocks, MgrGoto, Freed
  <2>11. CASE MgrStored(t)
    BY <2>11 DEF MgrStored, MgrGoto
  <2>12. CASE MgrShown(t)
    BY <2>12 DEF MgrShown, MgrGoto, Publish, Shown, Quiet
  <2>13. CASE MgrEnd(t)
    BY <2>13 DEF MgrEnd, MgrGoto
  <2>14. CASE MgrAuthFail(t)
    BY <2>14 DEF MgrAuthFail, MgrGoto, MgrShow, Publish
  <2>15. CASE MgrAuthOK(t)
    BY <2>15 DEF MgrAuthOK, MgrGoto, MgrShow, Publish
  <2>16. CASE MgrKeepAlive(t)
    BY <2>16 DEF MgrKeepAlive, MgrGoto, MgrShow, Publish
  <2>17. CASE MgrClose(t)
    BY <2>17 DEF MgrClose, MgrGoto, Unlisten
  <2>18. CASE MgrClear(t)
    BY <2>18 DEF MgrClear, MgrClean, MgrGoto
  <2>19. CASE MgrApplied(t)
    BY <2>19 DEF MgrApplied, MgrGoto, MgrMove
  <2>20. CASE MgrApplyFails(t)
    BY <2>20 DEF MgrApplyFails, MgrGoto
  <2>21. CASE MgrUndo(t)
    BY <2>21 DEF MgrUndo, MgrClean, MgrGoto
  <2> QED
    BY <1>2, <2>1, <2>2, <2>3, <2>4, <2>5, <2>6, <2>7, <2>8, <2>9, <2>10,
       <2>11, <2>12, <2>13, <2>14, <2>15, <2>16, <2>17,
       <2>18, <2>19, <2>20, <2>21
       DEF MgrStep, MgrRun
<1>3. CASE Signal
  BY <1>3 DEF Signal
<1>4. CASE Exit
  BY <1>4 DEF Exit
<1> QED BY <1>1, <1>2, <1>3, <1>4 DEF Step

\* The owner of the rules does not leave before it has removed them.
LEMMA RulesStep ==
    TypeOK /\ MadeInv /\ PortInv /\ RulesHaveOwner /\ Next => RulesHaveOwner'
<1> SUFFICES ASSUME TypeOK, MadeInv, PortInv, RulesHaveOwner, alive, Step
             PROVE  RulesHaveOwner'
  BY DEF Next
<1> USE NamesAssumption DEF TypeOK, MadeInv, PortInv, RulesHaveOwner, ctlVars,
        endVars, netVars, callVars
<1>1. ASSUME NEW c \in Callers, Call(c) \/ StartStep(c) \/ StopStep(c)
      PROVE  RulesHaveOwner'
  <2>1. CASE Call(c)
    BY <2>1 DEF Call, Goto
  <2>2. CASE StartSkipped(c)
    BY <2>2 DEF StartSkipped, Goto, Finish, Busy
  <2>3. CASE StartNoProfile(c)
    BY <2>3 DEF StartNoProfile, Goto, Finish, Busy
  <2>4. CASE StartLoad(c)
    BY <2>4 DEF StartLoad, Goto, Busy
  <2>5. CASE StartStore(c)
    BY <2>5 DEF StartStore, Goto
  <2>6. CASE StartMake(c)
    BY <2>6 DEF StartMake, Goto, Assigned
  <2>7. CASE StartShow(c)
    BY <2>7 DEF StartShow, Goto, Publish
  <2>8. CASE StartGo(c)
    BY <2>8 DEF StartGo, Goto, Finish
  <2>9. CASE StopLoad(c)
    BY <2>9 DEF StopLoad, Goto, AfterStop, Finish
  <2>10. CASE StopCancel(c)
    BY <2>10 DEF StopCancel, Goto, Called
  <2>11. CASE StopWaited(c)
    BY <2>11 DEF StopWaited, Goto
  <2>12. CASE StopClean(c)
    BY <2>12 DEF StopClean, Goto
  <2>13. CASE StopShow(c)
    BY <2>13 DEF StopShow, Goto, Publish, Quiet
  <2>14. CASE StopEnd(c)
    BY <2>14 DEF StopEnd, Goto, AfterStop, Finish
  <2> QED
    BY <1>1, <2>1, <2>2, <2>3, <2>4, <2>5, <2>6, <2>7, <2>8, <2>9, <2>10,
       <2>11, <2>12, <2>13, <2>14
       DEF StartStep, StopStep
<1>2. ASSUME NEW t \in Tunnels, MgrStep(t) PROVE RulesHaveOwner'
  <2>1. CASE MgrReturn(t)
    BY <2>1 DEF MgrReturn, MgrGoto, MgrMove, Waiting
  <2>2. CASE MgrRoute(t)
    BY <2>2 DEF MgrRoute, Awake, MgrGoto, MgrMove
  <2>3. CASE MgrPause(t)
    BY <2>3 DEF MgrPause, MgrGoto, MgrShow, Publish
  <2>4. CASE MgrAttempt(t)
    BY <2>4 DEF MgrAttempt, MgrGoto, MgrShow, Publish
  <2>5. CASE MgrWake(t)
    BY <2>5 DEF MgrWake, Awake, MgrGoto, MgrMove
  <2>6. CASE MgrSocks(t)
    BY <2>6 DEF MgrSocks, MgrGoto
  <2>7. CASE MgrListen(t)
    BY <2>7 DEF MgrListen, MgrGoto
  <2>8. CASE MgrApply(t)
    BY <2>8 DEF MgrApply, MgrGoto
  <2>9. CASE MgrUnrule(t)
    BY <2>9 DEF MgrUnrule, MgrClean, MgrGoto
  <2>10. CASE MgrUnsocks(t)
    BY <2>10 DEF MgrUnsocks, MgrGoto, Freed
  <2>11. CASE MgrStored(t)
    BY <2>11 DEF MgrStored, MgrGoto
  <2>12. CASE MgrShown(t)
    BY <2>12 DEF MgrShown, MgrGoto, Publish, Shown, Quiet
  <2>13. CASE MgrEnd(t)
    BY <2>13 DEF MgrEnd, MgrGoto
  <2>14. CASE MgrAuthFail(t)
    BY <2>14 DEF MgrAuthFail, MgrGoto, MgrShow, Publish
  <2>15. CASE MgrAuthOK(t)
    BY <2>15 DEF MgrAuthOK, MgrGoto, MgrShow, Publish
  <2>16. CASE MgrKeepAlive(t)
    BY <2>16 DEF MgrKeepAlive, MgrGoto, MgrShow, Publish
  <2>17. CASE MgrClose(t)
    BY <2>17 DEF MgrClose, MgrGoto, Unlisten
  <2>18. CASE MgrClear(t)
    BY <2>18 DEF MgrClear, MgrClean, MgrGoto
  <2>19. CASE MgrApplied(t)
    BY <2>19 DEF MgrApplied, MgrGoto, MgrMove
  <2>20. CASE MgrApplyFails(t)
    BY <2>20 DEF MgrApplyFails, MgrGoto
  <2>21. CASE MgrUndo(t)
    BY <2>21 DEF MgrUndo, MgrClean, MgrGoto
  <2> QED
    BY <1>2, <2>1, <2>2, <2>3, <2>4, <2>5, <2>6, <2>7, <2>8, <2>9, <2>10,
       <2>11, <2>12, <2>13, <2>14, <2>15, <2>16, <2>17,
       <2>18, <2>19, <2>20, <2>21
       DEF MgrStep, MgrRun
<1>3. CASE Signal
  BY <1>3 DEF Signal
<1>4. CASE Exit
  BY <1>4 DEF Exit
<1> QED BY <1>1, <1>2, <1>3, <1>4 DEF Step

\* The flag is reset before its last tunnel is gone.
LEMMA RunningStep ==
    TypeOK /\ MadeInv /\ RunningInv /\ Next => RunningInv'
<1> SUFFICES ASSUME TypeOK, MadeInv, RunningInv, alive, Step
             PROVE  RunningInv'
  BY DEF Next
<1> USE NamesAssumption DEF TypeOK, MadeInv, RunningInv, ctlVars, endVars,
        netVars, callVars
<1>1. ASSUME NEW c \in Callers, Call(c) \/ StartStep(c) \/ StopStep(c)
      PROVE  RunningInv'
  <2>1. CASE Call(c)
    BY <2>1 DEF Call, Goto
  <2>2. CASE StartSkipped(c)
    BY <2>2 DEF StartSkipped, Goto, Finish, Busy
  <2>3. CASE StartNoProfile(c)
    BY <2>3 DEF StartNoProfile, Goto, Finish, Busy
  <2>4. CASE StartLoad(c)
    BY <2>4 DEF StartLoad, Goto, Busy
  <2>5. CASE StartStore(c)
    BY <2>5 DEF StartStore, Goto
  <2>6. CASE StartMake(c)
    BY <2>6 DEF StartMake, Goto, Assigned
  <2>7. CASE StartShow(c)
    BY <2>7 DEF StartShow, Goto, Publish
  <2>8. CASE StartGo(c)
    BY <2>8 DEF StartGo, Goto, Finish
  <2>9. CASE StopLoad(c)
    BY <2>9 DEF StopLoad, Goto, AfterStop, Finish
  <2>10. CASE StopCancel(c)
    BY <2>10 DEF StopCancel, Goto, Called
  <2>11. CASE StopWaited(c)
    BY <2>11 DEF StopWaited, Goto
  <2>12. CASE StopClean(c)
    BY <2>12 DEF StopClean, Goto
  <2>13. CASE StopShow(c)
    BY <2>13 DEF StopShow, Goto, Publish, Quiet
  <2>14. CASE StopEnd(c)
    BY <2>14 DEF StopEnd, Goto, AfterStop, Finish
  <2> QED
    BY <1>1, <2>1, <2>2, <2>3, <2>4, <2>5, <2>6, <2>7, <2>8, <2>9, <2>10,
       <2>11, <2>12, <2>13, <2>14
       DEF StartStep, StopStep
<1>2. ASSUME NEW t \in Tunnels, MgrStep(t) PROVE RunningInv'
  <2>1. CASE MgrReturn(t)
    BY <2>1 DEF MgrReturn, MgrGoto, MgrMove, Waiting
  <2>2. CASE MgrRoute(t)
    BY <2>2 DEF MgrRoute, Awake, MgrGoto, MgrMove
  <2>3. CASE MgrPause(t)
    BY <2>3 DEF MgrPause, MgrGoto, MgrShow, Publish
  <2>4. CASE MgrAttempt(t)
    BY <2>4 DEF MgrAttempt, MgrGoto, MgrShow, Publish
  <2>5. CASE MgrWake(t)
    BY <2>5 DEF MgrWake, Awake, MgrGoto, MgrMove
  <2>6. CASE MgrSocks(t)
    BY <2>6 DEF MgrSocks, MgrGoto
  <2>7. CASE MgrListen(t)
    BY <2>7 DEF MgrListen, MgrGoto
  <2>8. CASE MgrApply(t)
    BY <2>8 DEF MgrApply, MgrGoto
  <2>9. CASE MgrUnrule(t)
    BY <2>9 DEF MgrUnrule, MgrClean, MgrGoto
  <2>10. CASE MgrUnsocks(t)
    BY <2>10 DEF MgrUnsocks, MgrGoto, Freed
  <2>11. CASE MgrStored(t)
    BY <2>11 DEF MgrStored, MgrGoto
  <2>12. CASE MgrShown(t)
    BY <2>12 DEF MgrShown, MgrGoto, Publish, Shown, Quiet
  <2>13. CASE MgrEnd(t)
    BY <2>13 DEF MgrEnd, MgrGoto
  <2>14. CASE MgrAuthFail(t)
    BY <2>14 DEF MgrAuthFail, MgrGoto, MgrShow, Publish
  <2>15. CASE MgrAuthOK(t)
    BY <2>15 DEF MgrAuthOK, MgrGoto, MgrShow, Publish
  <2>16. CASE MgrKeepAlive(t)
    BY <2>16 DEF MgrKeepAlive, MgrGoto, MgrShow, Publish
  <2>17. CASE MgrClose(t)
    BY <2>17 DEF MgrClose, MgrGoto, Unlisten
  <2>18. CASE MgrClear(t)
    BY <2>18 DEF MgrClear, MgrClean, MgrGoto
  <2>19. CASE MgrApplied(t)
    BY <2>19 DEF MgrApplied, MgrGoto, MgrMove
  <2>20. CASE MgrApplyFails(t)
    BY <2>20 DEF MgrApplyFails, MgrGoto
  <2>21. CASE MgrUndo(t)
    BY <2>21 DEF MgrUndo, MgrClean, MgrGoto
  <2> QED
    BY <1>2, <2>1, <2>2, <2>3, <2>4, <2>5, <2>6, <2>7, <2>8, <2>9, <2>10,
       <2>11, <2>12, <2>13, <2>14, <2>15, <2>16, <2>17,
       <2>18, <2>19, <2>20, <2>21
       DEF MgrStep, MgrRun
<1>3. CASE Signal
  BY <1>3 DEF Signal
<1>4. CASE Exit
  BY <1>4 DEF Exit
<1> QED BY <1>1, <1>2, <1>3, <1>4 DEF Step

\* The last writer of State is a tunnel's end or a stop.
LEMMA QuietStep ==
    TypeOK /\ MadeInv /\ RunningInv /\ QuietInv /\ Next => QuietInv'
<1> SUFFICES ASSUME TypeOK, MadeInv, RunningInv, QuietInv, alive, Step
             PROVE  QuietInv'
  BY DEF Next
<1> USE NamesAssumption DEF TypeOK, MadeInv, RunningInv, QuietInv, Quiet,
        Booted, ctlVars, endVars, netVars, callVars
<1>1. ASSUME NEW c \in Callers, Call(c) \/ StartStep(c) \/ StopStep(c)
      PROVE  QuietInv'
  <2>1. CASE Call(c)
    BY <2>1 DEF Call, Goto
  <2>2. CASE StartSkipped(c)
    BY <2>2 DEF StartSkipped, Goto, Finish, Busy
  <2>3. CASE StartNoProfile(c)
    BY <2>3 DEF StartNoProfile, Goto, Finish, Busy
  <2>4. CASE StartLoad(c)
    BY <2>4 DEF StartLoad, Goto, Busy
  <2>5. CASE StartStore(c)
    BY <2>5 DEF StartStore, Goto
  <2>6. CASE StartMake(c)
    BY <2>6 DEF StartMake, Goto, Assigned
  <2>7. CASE StartShow(c)
    BY <2>7 DEF StartShow, Goto, Publish
  <2>8. CASE StartGo(c)
    BY <2>8 DEF StartGo, Goto, Finish
  <2>9. CASE StopLoad(c)
    BY <2>9 DEF StopLoad, Goto, AfterStop, Finish
  <2>10. CASE StopCancel(c)
    BY <2>10 DEF StopCancel, Goto, Called
  <2>11. CASE StopWaited(c)
    BY <2>11 DEF StopWaited, Goto
  <2>12. CASE StopClean(c)
    BY <2>12 DEF StopClean, Goto
  <2>13. CASE StopShow(c)
    BY <2>13 DEF StopShow, Goto, Publish, Quiet
  <2>14. CASE StopEnd(c)
    BY <2>14 DEF StopEnd, Goto, AfterStop, Finish
  <2> QED
    BY <1>1, <2>1, <2>2, <2>3, <2>4, <2>5, <2>6, <2>7, <2>8, <2>9, <2>10,
       <2>11, <2>12, <2>13, <2>14
       DEF StartStep, StopStep
<1>2. ASSUME NEW t \in Tunnels, MgrStep(t) PROVE QuietInv'
  <2>1. CASE MgrReturn(t)
    BY <2>1 DEF MgrReturn, MgrGoto, MgrMove, Waiting
  <2>2. CASE MgrRoute(t)
    BY <2>2 DEF MgrRoute, Awake, MgrGoto, MgrMove
  <2>3. CASE MgrPause(t)
    BY <2>3 DEF MgrPause, MgrGoto, MgrShow, Publish
  <2>4. CASE MgrAttempt(t)
    BY <2>4 DEF MgrAttempt, MgrGoto, MgrShow, Publish
  <2>5. CASE MgrWake(t)
    BY <2>5 DEF MgrWake, Awake, MgrGoto, MgrMove
  <2>6. CASE MgrSocks(t)
    BY <2>6 DEF MgrSocks, MgrGoto
  <2>7. CASE MgrListen(t)
    BY <2>7 DEF MgrListen, MgrGoto
  <2>8. CASE MgrApply(t)
    BY <2>8 DEF MgrApply, MgrGoto
  <2>9. CASE MgrUnrule(t)
    BY <2>9 DEF MgrUnrule, MgrClean, MgrGoto
  <2>10. CASE MgrUnsocks(t)
    BY <2>10 DEF MgrUnsocks, MgrGoto, Freed
  <2>11. CASE MgrStored(t)
    BY <2>11 DEF MgrStored, MgrGoto
  <2>12. CASE MgrShown(t)
    BY <2>12 DEF MgrShown, MgrGoto, Publish, Shown, Quiet
  <2>13. CASE MgrEnd(t)
    BY <2>13 DEF MgrEnd, MgrGoto
  <2>14. CASE MgrAuthFail(t)
    BY <2>14 DEF MgrAuthFail, MgrGoto, MgrShow, Publish
  <2>15. CASE MgrAuthOK(t)
    BY <2>15 DEF MgrAuthOK, MgrGoto, MgrShow, Publish
  <2>16. CASE MgrKeepAlive(t)
    BY <2>16 DEF MgrKeepAlive, MgrGoto, MgrShow, Publish
  <2>17. CASE MgrClose(t)
    BY <2>17 DEF MgrClose, MgrGoto, Unlisten
  <2>18. CASE MgrClear(t)
    BY <2>18 DEF MgrClear, MgrClean, MgrGoto
  <2>19. CASE MgrApplied(t)
    BY <2>19 DEF MgrApplied, MgrGoto, MgrMove
  <2>20. CASE MgrApplyFails(t)
    BY <2>20 DEF MgrApplyFails, MgrGoto
  <2>21. CASE MgrUndo(t)
    BY <2>21 DEF MgrUndo, MgrClean, MgrGoto
  <2> QED
    BY <1>2, <2>1, <2>2, <2>3, <2>4, <2>5, <2>6, <2>7, <2>8, <2>9, <2>10,
       <2>11, <2>12, <2>13, <2>14, <2>15, <2>16, <2>17,
       <2>18, <2>19, <2>20, <2>21
       DEF MgrStep, MgrRun
<1>3. CASE Signal
  BY <1>3 DEF Signal
<1>4. CASE Exit
  BY <1>4 DEF Exit
<1> QED BY <1>1, <1>2, <1>3, <1>4 DEF Step

\* A step that moves a tunnel whose context is done moves it down.
LEMMA DescendStep ==
    ASSUME TypeOK, MadeInv, Next,
           NEW u \in Tunnels, Done(u), mgr[u] # "none", mgr'[u] # mgr[u]
    PROVE  MgrRank[mgr'[u]] < MgrRank[mgr[u]]
<1> USE NamesAssumption DEF TypeOK, MgrPc, MgrRank, ctlVars, endVars, netVars
<1>1. ASSUME NEW c \in Callers, Call(c) \/ StartStep(c) \/ StopStep(c)
      PROVE  MgrRank[mgr'[u]] < MgrRank[mgr[u]]
  <2>1. CASE StartMake(c)
    BY <2>1 DEF StartMake
  <2>2. CASE StartGo(c)
    BY <2>2 DEF StartGo, MadeInv
  <2>3. CASE UNCHANGED mgr
    BY <2>3
  <2> QED
    BY <1>1, <2>1, <2>2, <2>3
       DEF Call, StartStep, StopStep, StartSkipped, StartNoProfile, StartLoad,
           StartStore, StartShow, StopLoad, StopCancel, StopWaited, StopClean,
           StopShow, StopEnd
<1>2. ASSUME NEW t \in Tunnels, MgrStep(t)
      PROVE  MgrRank[mgr'[u]] < MgrRank[mgr[u]]
  <2>1. CASE MgrReturn(t)
    BY <2>1 DEF MgrReturn, MgrGoto, MgrMove, Waiting
  <2>2. CASE MgrRoute(t)
    BY <2>2 DEF MgrRoute, MgrGoto, MgrMove, Awake, Done
  <2>3. CASE MgrPause(t)
    BY <2>3 DEF MgrPause, MgrGoto, MgrShow
  <2>4. CASE MgrAttempt(t)
    BY <2>4 DEF MgrAttempt, MgrGoto, MgrShow
  <2>5. CASE MgrWake(t)
    BY <2>5 DEF MgrWake, MgrGoto, MgrMove, Awake, Done
  <2>6. CASE MgrSocks(t)
    BY <2>6 DEF MgrSocks, MgrGoto
  <2>7. CASE MgrListen(t)
    BY <2>7 DEF MgrListen, MgrGoto
  <2>8. CASE MgrApply(t)
    BY <2>8 DEF MgrApply, MgrGoto
  <2>9. CASE MgrUnrule(t)
    BY <2>9 DEF MgrUnrule, MgrClean, MgrGoto
  <2>10. CASE MgrUnsocks(t)
    BY <2>10 DEF MgrUnsocks, MgrGoto
  <2>11. CASE MgrStored(t)
    BY <2>11 DEF MgrStored, MgrGoto
  <2>12. CASE MgrShown(t)
    BY <2>12 DEF MgrShown, MgrGoto
  <2>13. CASE MgrEnd(t)
    BY <2>13 DEF MgrEnd, MgrGoto
  <2>14. CASE MgrAuthFail(t)
    BY <2>14 DEF MgrAuthFail, MgrGoto, MgrShow
  <2>15. CASE MgrAuthOK(t)
    BY <2>15 DEF MgrAuthOK, MgrGoto, MgrShow
  <2>16. CASE MgrKeepAlive(t)
    BY <2>16 DEF MgrKeepAlive, MgrGoto, MgrShow
  <2>17. CASE MgrClose(t)
    BY <2>17 DEF MgrClose, MgrGoto, Unlisten
  <2>18. CASE MgrClear(t)
    BY <2>18 DEF MgrClear, MgrClean, MgrGoto
  <2>19. CASE MgrApplied(t)
    BY <2>19 DEF MgrApplied, MgrGoto, MgrMove
  <2>20. CASE MgrApplyFails(t)
    BY <2>20 DEF MgrApplyFails, MgrGoto
  <2>21. CASE MgrUndo(t)
    BY <2>21 DEF MgrUndo, MgrClean, MgrGoto
  <2> QED
    BY <1>2, <2>1, <2>2, <2>3, <2>4, <2>5, <2>6, <2>7, <2>8, <2>9, <2>10,
       <2>11, <2>12, <2>13, <2>14, <2>15, <2>16, <2>17,
       <2>18, <2>19, <2>20, <2>21
       DEF MgrStep, MgrRun
<1>3. CASE Signal \/ Exit
  BY <1>3 DEF Signal, Exit
<1> QED BY <1>1, <1>2, <1>3 DEF Next, Step

\* The initial states satisfy the invariant.
LEMMA InitInv == Init => ControlInv
<1> SUFFICES ASSUME Init PROVE ControlInv
  OBVIOUS
<1> USE NamesAssumption
<1>1. PICK b \in Callers :
        /\ kind = [c \in Callers |-> IF c = b THEN "boot" ELSE "stop"]
        /\ \/ /\ pc = [c \in Callers |-> IF c = b THEN "load" ELSE "idle"]
              /\ pub = Booted
           \/ /\ pc = [c \in Callers |-> IF c = b THEN "swrite" ELSE "idle"]
              /\ pub = Quiet
  BY DEF Init
<1>2. /\ running = FALSE /\ cancelFn = Nil /\ cancelled = {}
      /\ signalled = FALSE /\ alive = TRUE
      /\ mgr = [t \in Tunnels |-> "none"]
      /\ tport = Nil /\ sport = Nil /\ rules = FALSE
      /\ tun = [c \in Callers |-> Nil]
  BY DEF Init
<1>3. TypeOK
  <2>1. pc \in [Callers -> CallPc]
    BY <1>1 DEF CallPc
  <2>2. kind \in [Callers -> {"start", "stop", "restart", "boot"}]
    BY <1>1
  <2>3. mgr \in [Tunnels -> MgrPc]
    BY <1>2 DEF MgrPc
  <2>4. pub \in [running : BOOLEAN, conn : BOOLEAN, since : BOOLEAN,
                 phase : {"idle", "active", "paused", "stopped"}]
    <3>1. CASE pub = Quiet
      BY <3>1 DEF Quiet
    <3>2. CASE pub = Booted
      BY <3>2 DEF Booted
    <3> QED BY <1>1, <3>1, <3>2
  <2> QED BY <1>2, <2>1, <2>2, <2>3, <2>4 DEF TypeOK
<1>4. MadeInv
  BY <1>1, <1>2 DEF MadeInv
<1>5. PortInv /\ RulesHaveOwner /\ RunningInv
  BY <1>2 DEF PortInv, RulesHaveOwner, RunningInv
<1>6. QuietInv
  BY <1>1 DEF QuietInv
<1> QED BY <1>3, <1>4, <1>5, <1>6 DEF ControlInv

\* Every step keeps it, and so does every state the system reaches.
LEMMA InvStep == ControlInv /\ Next => ControlInv'
  BY TypeStep, MadeStep, PortStep, RulesStep, RunningStep, QuietStep
     DEF ControlInv

LEMMA InvStutter == ControlInv /\ UNCHANGED vars => ControlInv'
  BY DEF vars, ctlVars, endVars, netVars, callVars, ControlInv, TypeOK,
         MadeInv, PortInv, RulesHaveOwner, RunningInv, QuietInv

LEMMA Invariance == Spec => []ControlInv
  BY InitInv, InvStep, InvStutter, PTL DEF Spec

\* The types hold; in particular stopTunnel never calls a nil tunnelCancel.
THEOREM Typing == Spec => []TypeOK
<1>1. ControlInv => TypeOK
  BY DEF ControlInv
<1> QED BY Invariance, <1>1, PTL

\* No failed Apply, lost route, stop or second tunnel leaves the device's
\* traffic redirected to a port nobody listens on.
THEOREM RulesHaveOwnerHolds == Spec => []RulesHaveOwner
<1>1. ControlInv => RulesHaveOwner
  BY DEF ControlInv
<1> QED BY Invariance, <1>1, PTL

\* A tunnel that has ended holds neither port.
THEOREM StoppedFreesHolds == Spec => []StoppedFrees
<1>1. ControlInv => StoppedFrees
  BY DEF ControlInv, PortInv, StoppedFrees
<1> QED BY Invariance, <1>1, PTL

\* When the last tunnel has ended, State shows no tunnel, whichever of its
\* writers was the last, or still what run let it show before its own start.
THEOREM StoppedIsPublishedHolds == Spec => []StoppedIsPublished
<1>1. ControlInv => StoppedIsPublished
  BY DEF ControlInv, QuietInv, StoppedIsPublished, Stopped
<1> QED BY Invariance, <1>1, PTL

\* A tunnel that was cancelled, or that the signal finds, only goes towards
\* its end: no wait of connectionManager starts a new attempt.
THEOREM CancelledDescendsHolds == Spec => CancelledDescends
<1>1. ControlInv /\ [Next]_vars
      => [\A t \in Tunnels :
            Done(t) /\ mgr[t] # "none" /\ mgr'[t] # mgr[t]
            => MgrRank[mgr'[t]] < MgrRank[mgr[t]]]_vars
  BY DescendStep DEF ControlInv
<1> QED BY Invariance, <1>1, PTL DEF Spec, CancelledDescends

-----------------------------------------------------------------------------
(* Calls that do not overlap: at any time at most one caller is not idle.  *)

\* Callers that come one after the other keep the flag, tunnelCancel and the
\* one tunnel together.
LEMMA SerialStep ==
    TypeOK /\ MadeInv /\ SerialInv /\ OneAtATime /\ Next => SerialInv'
<1> SUFFICES ASSUME TypeOK, MadeInv, SerialInv, OneAtATime, alive, Step
             PROVE  SerialInv'
  BY DEF Next
<1> USE NamesAssumption DEF TypeOK, MadeInv, SerialInv, OneAtATime, Live, Done,
        ctlVars, endVars, netVars, callVars
<1>1. ASSUME NEW c \in Callers, Call(c) \/ StartStep(c) \/ StopStep(c)
      PROVE  SerialInv'
  <2>1. CASE Call(c)
    BY <2>1 DEF Call, Goto
  <2>2. CASE StartSkipped(c)
    BY <2>2 DEF StartSkipped, Goto, Finish, Busy
  <2>3. CASE StartNoProfile(c)
    BY <2>3 DEF StartNoProfile, Goto, Finish, Busy
  <2>4. CASE StartLoad(c)
    BY <2>4 DEF StartLoad, Goto, Busy
  <2>5. CASE StartStore(c)
    BY <2>5 DEF StartStore, Goto
  <2>6. CASE StartMake(c)
    BY <2>6 DEF StartMake, Goto, Assigned
  <2>7. CASE StartShow(c)
    BY <2>7 DEF StartShow, Goto, Publish
  <2>8. CASE StartGo(c)
    BY <2>8 DEF StartGo, Goto, Finish
  <2>9. CASE StopLoad(c)
    BY <2>9 DEF StopLoad, Goto, AfterStop, Finish
  <2>10. CASE StopCancel(c)
    BY <2>10 DEF StopCancel, Goto, Called
  <2>11. CASE StopWaited(c)
    BY <2>11 DEF StopWaited, Goto
  <2>12. CASE StopClean(c)
    BY <2>12 DEF StopClean, Goto
  <2>13. CASE StopShow(c)
    BY <2>13 DEF StopShow, Goto, Publish, Quiet
  <2>14. CASE StopEnd(c)
    BY <2>14 DEF StopEnd, Goto, AfterStop, Finish
  <2> QED
    BY <1>1, <2>1, <2>2, <2>3, <2>4, <2>5, <2>6, <2>7, <2>8, <2>9,
       <2>10, <2>11, <2>12, <2>13, <2>14
       DEF StartStep, StopStep
<1>2. ASSUME NEW t \in Tunnels, MgrStep(t) PROVE SerialInv'
  <2>1. CASE MgrReturn(t)
    BY <2>1 DEF MgrReturn, MgrGoto, MgrMove, Waiting
  <2>2. CASE MgrRoute(t)
    BY <2>2 DEF MgrRoute, Awake, MgrGoto, MgrMove
  <2>3. CASE MgrPause(t)
    BY <2>3 DEF MgrPause, MgrGoto, MgrShow, Publish
  <2>4. CASE MgrAttempt(t)
    BY <2>4 DEF MgrAttempt, MgrGoto, MgrShow, Publish
  <2>5. CASE MgrWake(t)
    BY <2>5 DEF MgrWake, Awake, MgrGoto, MgrMove
  <2>6. CASE MgrSocks(t)
    BY <2>6 DEF MgrSocks, MgrGoto
  <2>7. CASE MgrListen(t)
    BY <2>7 DEF MgrListen, MgrGoto
  <2>8. CASE MgrApply(t)
    BY <2>8 DEF MgrApply, MgrGoto
  <2>9. CASE MgrUnrule(t)
    BY <2>9 DEF MgrUnrule, MgrClean, MgrGoto
  <2>10. CASE MgrUnsocks(t)
    BY <2>10 DEF MgrUnsocks, MgrGoto, Freed
  <2>11. CASE MgrStored(t)
    BY <2>11 DEF MgrStored, MgrGoto
  <2>12. CASE MgrShown(t)
    BY <2>12 DEF MgrShown, MgrGoto, Publish, Shown, Quiet
  <2>13. CASE MgrEnd(t)
    BY <2>13 DEF MgrEnd, MgrGoto
  <2>14. CASE MgrAuthFail(t)
    BY <2>14 DEF MgrAuthFail, MgrGoto, MgrShow, Publish
  <2>15. CASE MgrAuthOK(t)
    BY <2>15 DEF MgrAuthOK, MgrGoto, MgrShow, Publish
  <2>16. CASE MgrKeepAlive(t)
    BY <2>16 DEF MgrKeepAlive, MgrGoto, MgrShow, Publish
  <2>17. CASE MgrClose(t)
    BY <2>17 DEF MgrClose, MgrGoto, Unlisten
  <2>18. CASE MgrClear(t)
    BY <2>18 DEF MgrClear, MgrClean, MgrGoto
  <2>19. CASE MgrApplied(t)
    BY <2>19 DEF MgrApplied, MgrGoto, MgrMove
  <2>20. CASE MgrApplyFails(t)
    BY <2>20 DEF MgrApplyFails, MgrGoto
  <2>21. CASE MgrUndo(t)
    BY <2>21 DEF MgrUndo, MgrClean, MgrGoto
  <2> QED
    BY <1>2, <2>1, <2>2, <2>3, <2>4, <2>5, <2>6, <2>7, <2>8, <2>9,
       <2>10, <2>11, <2>12, <2>13, <2>14, <2>15, <2>16, <2>17,
       <2>18, <2>19, <2>20, <2>21
       DEF MgrStep, MgrRun
<1>3. CASE Signal
  BY <1>3 DEF Signal
<1>4. CASE Exit
  BY <1>4 DEF Exit
<1> QED BY <1>1, <1>2, <1>3, <1>4 DEF Step

LEMMA SerialInvariance == Spec /\ []OneAtATime => []SerialInv
<1>1. Init => SerialInv
  BY DEF Init, SerialInv, Live
<1>2. ControlInv /\ SerialInv /\ OneAtATime /\ Next => SerialInv'
  BY SerialStep DEF ControlInv
<1>3. SerialInv /\ UNCHANGED vars => SerialInv'
  BY DEF vars, ctlVars, endVars, netVars, callVars, SerialInv, Live, Done
<1> QED BY Invariance, <1>1, <1>2, <1>3, PTL DEF Spec

\* Two tunnels would fight for the ports, the rules and the pool: as long as
\* the calls do not overlap, startTunnel makes none beside another.
THEOREM OneTunnelHolds == Spec /\ []OneAtATime => []OneTunnel
<1>1. SerialInv => OneTunnel
  BY DEF SerialInv, OneTunnel
<1> QED BY SerialInvariance, <1>1, PTL

\* The function stopTunnel calls is the one that ends the tunnel that runs.
THEOREM StopReachesHolds == Spec /\ []OneAtATime => []StopReaches
<1>1. SerialInv => StopReaches
  BY DEF SerialInv, StopReaches
<1> QED BY SerialInvariance, <1>1, PTL

-----------------------------------------------------------------------------
(* The promise.                                                            *)

AbsVars == <<LiveNow, ToldNow, tport # Nil, rules>>

\* A tunnel returns only when it was told to, and stays told.
LEMMA ReturnedStep ==
    TypeOK /\ MadeInv /\ ReturnedInv /\ Next => ReturnedInv'
<1> SUFFICES ASSUME TypeOK, MadeInv, ReturnedInv, alive, Step
             PROVE  ReturnedInv'
  BY DEF Next
<1> USE NamesAssumption DEF TypeOK, MadeInv, ReturnedInv, Done, ctlVars,
        endVars, netVars, callVars
<1>1. ASSUME NEW c \in Callers, Call(c) \/ StartStep(c) \/ StopStep(c)
      PROVE  ReturnedInv'
  <2>1. CASE Call(c)
    BY <2>1 DEF Call, Goto
  <2>2. CASE StartSkipped(c)
    BY <2>2 DEF StartSkipped, Goto, Finish, Busy
  <2>3. CASE StartNoProfile(c)
    BY <2>3 DEF StartNoProfile, Goto, Finish, Busy
  <2>4. CASE StartLoad(c)
    BY <2>4 DEF StartLoad, Goto, Busy
  <2>5. CASE StartStore(c)
    BY <2>5 DEF StartStore, Goto
  <2>6. CASE StartMake(c)
    BY <2>6 DEF StartMake, Goto, Assigned
  <2>7. CASE StartShow(c)
    BY <2>7 DEF StartShow, Goto, Publish
  <2>8. CASE StartGo(c)
    BY <2>8 DEF StartGo, Goto, Finish
  <2>9. CASE StopLoad(c)
    BY <2>9 DEF StopLoad, Goto, AfterStop, Finish
  <2>10. CASE StopCancel(c)
    BY <2>10 DEF StopCancel, Goto, Called
  <2>11. CASE StopWaited(c)
    BY <2>11 DEF StopWaited, Goto
  <2>12. CASE StopClean(c)
    BY <2>12 DEF StopClean, Goto
  <2>13. CASE StopShow(c)
    BY <2>13 DEF StopShow, Goto, Publish, Quiet
  <2>14. CASE StopEnd(c)
    BY <2>14 DEF StopEnd, Goto, AfterStop, Finish
  <2> QED
    BY <1>1, <2>1, <2>2, <2>3, <2>4, <2>5, <2>6, <2>7, <2>8, <2>9,
       <2>10, <2>11, <2>12, <2>13, <2>14
       DEF StartStep, StopStep
<1>2. ASSUME NEW t \in Tunnels, MgrStep(t) PROVE ReturnedInv'
  <2>1. CASE MgrReturn(t)
    BY <2>1 DEF MgrReturn, MgrGoto, MgrMove, Waiting
  <2>2. CASE MgrRoute(t)
    BY <2>2 DEF MgrRoute, Awake, MgrGoto, MgrMove
  <2>3. CASE MgrPause(t)
    BY <2>3 DEF MgrPause, MgrGoto, MgrShow, Publish
  <2>4. CASE MgrAttempt(t)
    BY <2>4 DEF MgrAttempt, MgrGoto, MgrShow, Publish
  <2>5. CASE MgrWake(t)
    BY <2>5 DEF MgrWake, Awake, MgrGoto, MgrMove
  <2>6. CASE MgrSocks(t)
    BY <2>6 DEF MgrSocks, MgrGoto
  <2>7. CASE MgrListen(t)
    BY <2>7 DEF MgrListen, MgrGoto
  <2>8. CASE MgrApply(t)
    BY <2>8 DEF MgrApply, MgrGoto
  <2>9. CASE MgrUnrule(t)
    BY <2>9 DEF MgrUnrule, MgrClean, MgrGoto
  <2>10. CASE MgrUnsocks(t)
    BY <2>10 DEF MgrUnsocks, MgrGoto, Freed
  <2>11. CASE MgrStored(t)
    BY <2>11 DEF MgrStored, MgrGoto
  <2>12. CASE MgrShown(t)
    BY <2>12 DEF MgrShown, MgrGoto, Publish, Shown, Quiet
  <2>13. CASE MgrEnd(t)
    BY <2>13 DEF MgrEnd, MgrGoto
  <2>14. CASE MgrAuthFail(t)
    BY <2>14 DEF MgrAuthFail, MgrGoto, MgrShow, Publish
  <2>15. CASE MgrAuthOK(t)
    BY <2>15 DEF MgrAuthOK, MgrGoto, MgrShow, Publish
  <2>16. CASE MgrKeepAlive(t)
    BY <2>16 DEF MgrKeepAlive, MgrGoto, MgrShow, Publish
  <2>17. CASE MgrClose(t)
    BY <2>17 DEF MgrClose, MgrGoto, Unlisten
  <2>18. CASE MgrClear(t)
    BY <2>18 DEF MgrClear, MgrClean, MgrGoto
  <2>19. CASE MgrApplied(t)
    BY <2>19 DEF MgrApplied, MgrGoto, MgrMove
  <2>20. CASE MgrApplyFails(t)
    BY <2>20 DEF MgrApplyFails, MgrGoto
  <2>21. CASE MgrUndo(t)
    BY <2>21 DEF MgrUndo, MgrClean, MgrGoto
  <2> QED
    BY <1>2, <2>1, <2>2, <2>3, <2>4, <2>5, <2>6, <2>7, <2>8, <2>9,
       <2>10, <2>11, <2>12, <2>13, <2>14, <2>15, <2>16, <2>17,
       <2>18, <2>19, <2>20, <2>21
       DEF MgrStep, MgrRun
<1>3. CASE Signal
  BY <1>3 DEF Signal
<1>4. CASE Exit
  BY <1>4 DEF Exit
<1> QED BY <1>1, <1>2, <1>3, <1>4 DEF Step

LEMMA ReturnedInvariance == Spec => []ReturnedInv
<1>1. Init => ReturnedInv
  BY DEF Init, ReturnedInv
<1>2. ControlInv /\ ReturnedInv /\ Next => ReturnedInv'
  BY ReturnedStep DEF ControlInv
<1>3. ReturnedInv /\ UNCHANGED vars => ReturnedInv'
  BY DEF vars, ctlVars, endVars, netVars, callVars, ReturnedInv, Done
<1> QED BY Invariance, <1>1, <1>2, <1>3, PTL DEF Spec

\* A step that moves no tunnel, or one that stays what it is, is none of the
\* promise's.
LEMMA StillStep ==
    ASSUME UNCHANGED <<mgr, cancelled, signalled, tport, rules>>
    PROVE  UNCHANGED AbsVars
BY DEF AbsVars, LiveNow, ToldNow, Live, Done

LEMMA MoveStep ==
    ASSUME TypeOK, NEW t \in Tunnels, NEW l, MgrGoto(t, l),
           Live(t) <=> l \notin {"none", "stored", "writing"},
           UNCHANGED <<cancelled, signalled>>
    PROVE  UNCHANGED <<LiveNow, ToldNow>>
<1>1. ASSUME NEW u \in Tunnels PROVE Live(u)' <=> Live(u)
  <2>1. CASE u = t
    BY <2>1 DEF Live, MgrGoto, TypeOK
  <2>2. CASE u # t
    BY <2>2 DEF Live, MgrGoto, TypeOK
  <2> QED BY <2>1, <2>2
<1>2. LiveNow' = LiveNow
  BY <1>1 DEF LiveNow
<1>3. ASSUME NEW u \in Tunnels PROVE Done(u)' <=> Done(u)
  BY DEF Done
<1>4. ToldNow' = ToldNow
  BY <1>2, <1>3 DEF ToldNow, LiveNow
<1> QED BY <1>2, <1>4

\* What the invariants say of the promise's state.
LEMMA PromiseFacts ==
    ASSUME TypeOK, PortInv, RulesHaveOwner, SerialInv
    PROVE  /\ \A t \in LiveNow : LiveNow = {t}
           /\ tport # Nil => /\ LiveNow = {tport}
                             /\ mgr[tport] \in {"clear", "apply", "rest", "up"}
           /\ rules => LiveNow # {}
           /\ rules /\ tport = Nil
              => \E t \in LiveNow : mgr[t] \in {"undo", "unrule"}
           /\ rules /\ tport # Nil => mgr[tport] \in {"rest", "up"}
<1>1. ASSUME NEW t \in LiveNow, NEW u \in LiveNow PROVE t = u
  BY DEF LiveNow, SerialInv
<1>2. \A t \in LiveNow : LiveNow = {t}
  BY <1>1
<1>3. ASSUME tport # Nil
      PROVE  tport \in LiveNow /\ mgr[tport] \in {"clear", "apply", "rest", "up"}
  BY <1>3 DEF TypeOK, PortInv, LiveNow, Live
<1>4. ASSUME rules
      PROVE  \E t \in LiveNow :
               \/ tport = t /\ mgr[t] \in {"rest", "up"}
               \/ mgr[t] \in {"undo", "unrule"}
  BY <1>4 DEF RulesHaveOwner, LiveNow, Live
<1>5. ASSUME rules, tport = Nil
      PROVE  \E t \in LiveNow : mgr[t] \in {"undo", "unrule"}
  BY <1>4, <1>5, NamesAssumption DEF LiveNow
<1>6. ASSUME rules, tport # Nil
      PROVE  mgr[tport] \in {"rest", "up"}
  BY <1>2, <1>3, <1>4, <1>6
<1> QED BY <1>2, <1>3, <1>4, <1>5, <1>6

\* Every step is one of the promise's, or none.
LEMMA PromiseStep ==
    ASSUME ControlInv, SerialInv, OneAtATime, ReturnedInv, Next
    PROVE  [Promise!Next]_AbsVars
<1> DEFINE Goal == [Promise!Next]_AbsVars
<1>0. /\ TypeOK /\ PortInv /\ RulesHaveOwner /\ MadeInv /\ Step
  BY DEF ControlInv, Next
<1>1. /\ \A t \in LiveNow : LiveNow = {t}
      /\ tport # Nil => /\ LiveNow = {tport}
                        /\ mgr[tport] \in {"clear", "apply", "rest", "up"}
      /\ rules => LiveNow # {}
      /\ rules /\ tport = Nil
         => \E t \in LiveNow : mgr[t] \in {"undo", "unrule"}
      /\ rules /\ tport # Nil => mgr[tport] \in {"rest", "up"}
  BY <1>0, PromiseFacts
<1>2. UNCHANGED AbsVars => Goal
  OBVIOUS
<1>3. ASSUME NEW c \in Callers, Call(c) \/ StartStep(c) \/ StopStep(c)
      PROVE  Goal
  <2>1. CASE StartMake(c)
    <3>1. PICK t \in Tunnels :
            mgr[t] = "none" /\ mgr' = [mgr EXCEPT ![t] = "made"]
      BY <2>1 DEF StartMake
    <3>2. LiveNow = {}
      BY <2>1 DEF StartMake, SerialInv, LiveNow
    <3>3. UNCHANGED <<signalled, tport, rules>>
      BY <2>1 DEF StartMake, endVars, netVars
    <3>4. LiveNow' = {t}
      BY <1>0, <3>1, <3>2 DEF LiveNow, Live, TypeOK
    <3>5. ToldNow' \in {{}, {t}}
      BY <3>4 DEF ToldNow
    <3>6. Promise!Make(t)
      BY <3>2, <3>3, <3>4, <3>5 DEF Promise!Make
    <3> QED BY <3>6 DEF Promise!Next
  <2>2. CASE StartGo(c)
    <3>1. tun[c] \in Tunnels /\ mgr[tun[c]] = "made"
      BY <1>0, <2>2 DEF StartGo, MadeInv
    <3>2. /\ MgrGoto(tun[c], "loop")
          /\ UNCHANGED <<cancelled, signalled, tport, rules>>
      BY <2>2 DEF StartGo, MgrGoto, ctlVars, endVars, netVars
    <3>3. Live(tun[c])
      BY <3>1 DEF Live
    <3>4. UNCHANGED <<LiveNow, ToldNow>>
      BY <1>0, <3>1, <3>2, <3>3, MoveStep
    <3> QED BY <1>2, <3>2, <3>4 DEF AbsVars
  <2>3. CASE StopCancel(c)
    <3>1. /\ cancelled' = cancelled \cup ({cancelFn} \ {Nil})
          /\ UNCHANGED <<mgr, signalled, tport, rules>>
      BY <2>3 DEF StopCancel, Called, endVars, netVars
    <3>2. LiveNow' = LiveNow
      BY <3>1 DEF LiveNow, Live
    <3>3. ASSUME NEW t \in LiveNow PROVE t \in cancelled'
      BY <3>1, NamesAssumption DEF SerialInv, LiveNow
    <3>4. ToldNow' = LiveNow
      BY <3>2, <3>3 DEF ToldNow, Done
    <3>5. Promise!Tell
      BY <3>1, <3>2, <3>4 DEF Promise!Tell
    <3> QED BY <3>5 DEF Promise!Next
  <2>4. CASE StopClean(c)
    <3>1. /\ rules' = FALSE
          /\ UNCHANGED <<mgr, cancelled, signalled, tport>>
      BY <2>4 DEF StopClean, ctlVars, endVars
    <3>2. UNCHANGED <<LiveNow, ToldNow>>
      BY <3>1 DEF LiveNow, ToldNow, Live, Done
    <3>3. ToldNow = LiveNow
      BY <2>4 DEF StopClean, SerialInv, ToldNow, LiveNow
    <3>4. Promise!Restore
      BY <3>1, <3>2, <3>3 DEF Promise!Restore
    <3> QED BY <3>4 DEF Promise!Next
  <2>5. CASE UNCHANGED <<mgr, cancelled, signalled, tport, rules>>
    BY <1>2, <2>5, StillStep
  <2> QED
    BY <1>3, <2>1, <2>2, <2>3, <2>4, <2>5
       DEF Call, StartStep, StopStep, StartSkipped, StartNoProfile, StartLoad,
           StartStore, StartShow, StopLoad, StopWaited, StopShow, StopEnd,
           ctlVars, endVars, netVars
<1>4. ASSUME NEW t \in Tunnels, MgrStep(t)
      PROVE  Goal
  <2> USE DEF ctlVars, endVars, netVars
  <2>1. CASE MgrListen(t)
    <3>1. /\ mgr[t] = "listen" /\ UNCHANGED <<cancelled, signalled, rules>>
          /\ \/ tport = Nil /\ tport' = t /\ MgrGoto(t, "clear")
             \/ UNCHANGED tport /\ MgrGoto(t, "up")
      BY <2>1 DEF MgrListen
    <3>2. UNCHANGED <<LiveNow, ToldNow>> /\ t \in LiveNow
      BY <1>0, <3>1, MoveStep DEF Live, LiveNow
    <3>3. CASE UNCHANGED tport
      BY <1>2, <3>1, <3>2, <3>3 DEF AbsVars
    <3>4. CASE tport = Nil /\ tport' = t
      <4>1. ~rules
        BY <1>1, <3>1, <3>2, <3>4
      <4>2. LiveNow # {} /\ tport' # Nil /\ tport = Nil
        BY <3>2, <3>4, NamesAssumption
      <4>3. Promise!Listen
        BY <3>1, <3>2, <4>1, <4>2 DEF Promise!Listen
      <4> QED BY <4>3 DEF Promise!Next
    <3> QED BY <3>1, <3>3, <3>4
  <2>2. CASE MgrApply(t)
    <3>1. /\ mgr[t] \in {"apply", "rest"} /\ UNCHANGED <<cancelled, signalled>>
          /\ MgrGoto(t, "rest") /\ rules' = TRUE /\ UNCHANGED tport
      BY <2>2 DEF MgrApply
    <3>2. UNCHANGED <<LiveNow, ToldNow>> /\ t \in LiveNow
      BY <1>0, <3>1, MoveStep DEF Live, LiveNow
    <3>3. tport # Nil
      BY <1>0, <3>1, NamesAssumption DEF PortInv
    <3>4. Promise!Install
      BY <3>1, <3>2, <3>3 DEF Promise!Install
    <3> QED BY <3>4 DEF Promise!Next
  <2>3. CASE MgrClose(t)
    <3>1. /\ mgr[t] = "up" /\ UNCHANGED <<cancelled, signalled, rules>>
          /\ \/ tport' = Nil /\ MgrGoto(t, "unrule")
             \/ UNCHANGED tport /\ MgrGoto(t, "unsocks")
      BY <2>3 DEF MgrClose, Unlisten
    <3>2. UNCHANGED <<LiveNow, ToldNow>>
      BY <1>0, <3>1, MoveStep DEF Live
    <3>3. CASE UNCHANGED tport
      BY <1>2, <3>1, <3>2, <3>3 DEF AbsVars
    <3>4. CASE tport' = Nil
      <4>1. Promise!Unlisten
        BY <3>1, <3>2, <3>4 DEF Promise!Unlisten
      <4> QED BY <4>1 DEF Promise!Next
    <3> QED BY <3>1, <3>3, <3>4
  \* Rules are removed once nobody listens, or where there are none.
  <2>4. ASSUME NEW from, NEW to, MgrClean(t, from, to),
               from \in {"undo", "unrule"}, to \in {"up", "unsocks"}
        PROVE  Goal
    <3>1. /\ mgr[t] = from /\ UNCHANGED <<cancelled, signalled, tport>>
          /\ MgrGoto(t, to) /\ rules' = FALSE
      BY <2>4 DEF MgrClean
    <3>2. UNCHANGED <<LiveNow, ToldNow>> /\ t \in LiveNow
      BY <1>0, <2>4, <3>1, MoveStep DEF Live, LiveNow
    <3>3. tport = Nil
      BY <1>1, <2>4, <3>1, <3>2
    <3>4. Promise!Restore
      BY <3>1, <3>2, <3>3 DEF Promise!Restore
    <3> QED BY <3>4 DEF Promise!Next
  <2>5. CASE MgrStored(t)
    <3>1. /\ mgr[t] = "returned" /\ mgr' = [mgr EXCEPT ![t] = "stored"]
          /\ UNCHANGED <<cancelled, signalled, tport, rules>>
      BY <2>5 DEF MgrStored, MgrGoto
    <3>2. t \in LiveNow
      BY <3>1 DEF LiveNow, Live
    <3>3. LiveNow = {t}
      BY <1>1, <3>2
    <3>4. tport = Nil
      BY <1>1, <3>1, <3>3
    <3>5. ~rules
      BY <1>1, <3>1, <3>3, <3>4
    <3>6. ToldNow = LiveNow
      BY <3>1, <3>3 DEF ReturnedInv, ToldNow
    <3>7. LiveNow' = {}
      <4>1. ASSUME NEW u \in Tunnels PROVE ~Live(u)'
        <5>1. CASE u = t
          BY <1>0, <3>1, <5>1 DEF Live, TypeOK
        <5>2. CASE u # t
          <6>1. ~Live(u)
            BY <3>3, <5>2 DEF LiveNow
          <6> QED BY <1>0, <3>1, <5>2, <6>1 DEF Live, TypeOK
        <5> QED BY <5>1, <5>2
      <4> QED BY <4>1 DEF LiveNow
    <3>8. ToldNow' = {}
      BY <3>7 DEF ToldNow
    <3>9. Promise!End
      BY <3>1, <3>4, <3>5, <3>6, <3>7, <3>8 DEF Promise!End
    <3> QED BY <3>9 DEF Promise!Next
  \* The other moves stay on one side.
  <2>6. ASSUME UNCHANGED <<cancelled, signalled, tport, rules>>,
               NEW l, MgrGoto(t, l),
               Live(t) <=> l \notin {"none", "stored", "writing"}
        PROVE  Goal
    <3>1. UNCHANGED <<LiveNow, ToldNow>>
      BY <1>0, <2>6, MoveStep
    <3> QED BY <1>2, <2>6, <3>1 DEF AbsVars
  <2>7. CASE MgrReturn(t)
    BY <2>6, <2>7 DEF MgrReturn, MgrMove, Waiting, Live
  <2>8. CASE MgrRoute(t)
    BY <2>6, <2>8 DEF MgrRoute, MgrMove, Live
  <2>9. CASE MgrPause(t)
    BY <2>6, <2>9 DEF MgrPause, MgrShow, Live
  <2>10. CASE MgrAttempt(t)
    BY <2>6, <2>10 DEF MgrAttempt, MgrShow, Live
  <2>11. CASE MgrWake(t)
    BY <2>6, <2>11 DEF MgrWake, MgrMove, Live
  <2>12. CASE MgrSocks(t)
    BY <2>6, <2>12 DEF MgrSocks, Live
  <2>13. CASE MgrUnsocks(t)
    BY <2>6, <2>13 DEF MgrUnsocks, Live
  <2>14. CASE MgrShown(t)
    BY <2>6, <2>14 DEF MgrShown, Live
  <2>15. CASE MgrEnd(t)
    <3>1. /\ mgr[t] = "writing" /\ MgrGoto(t, "none")
          /\ cancelled' = cancelled \ {t}
          /\ UNCHANGED <<signalled, tport, rules>>
      BY <2>15 DEF MgrEnd
    <3>2. ASSUME NEW u \in Tunnels PROVE Live(u)' <=> Live(u)
      BY <1>0, <3>1 DEF Live, MgrGoto, TypeOK
    <3>3. LiveNow' = LiveNow /\ t \notin LiveNow
      BY <3>1, <3>2 DEF LiveNow, Live
    <3>4. ASSUME NEW u \in LiveNow PROVE Done(u)' <=> Done(u)
      BY <3>1, <3>3 DEF Done
    <3>5. ToldNow' = ToldNow
      BY <3>3, <3>4 DEF ToldNow
    <3> QED BY <1>2, <3>1, <3>3, <3>5 DEF AbsVars
  <2>16. CASE MgrAuthFail(t)
    BY <2>6, <2>16 DEF MgrAuthFail, MgrShow, Live
  <2>17. CASE MgrAuthOK(t)
    BY <2>6, <2>17 DEF MgrAuthOK, MgrShow, Live
  <2>18. CASE MgrKeepAlive(t)
    BY <2>6, <2>18 DEF MgrKeepAlive, MgrShow, Live
  <2>19. CASE MgrClear(t)
    <3>1. mgr[t] = "clear" /\ ~rules
      BY <1>0, <1>1, <2>19, NamesAssumption DEF MgrClear, MgrClean, PortInv
    <3>2. MgrGoto(t, "apply") /\ UNCHANGED <<cancelled, signalled, tport, rules>>
      BY <1>0, <2>19, <3>1 DEF MgrClear, MgrClean, TypeOK
    <3> QED BY <2>6, <3>1, <3>2 DEF Live
  <2>20. CASE MgrApplied(t)
    BY <2>6, <2>20 DEF MgrApplied, MgrMove, Live
  <2>21. CASE MgrApplyFails(t)
    <3>1. /\ mgr[t] \in {"apply", "rest"} /\ MgrGoto(t, "undo") /\ tport' = Nil
          /\ UNCHANGED <<cancelled, signalled, rules>>
      BY <2>21 DEF MgrApplyFails
    <3>2. UNCHANGED <<LiveNow, ToldNow>>
      BY <1>0, <3>1, MoveStep DEF Live
    <3>3. Promise!Unlisten
      BY <3>1, <3>2 DEF Promise!Unlisten
    <3> QED BY <3>3 DEF Promise!Next
  <2>22. CASE MgrUndo(t)
    BY <2>4, <2>22 DEF MgrUndo
  <2>23. CASE MgrUnrule(t)
    BY <2>4, <2>23 DEF MgrUnrule
  <2> HIDE DEF Goal
  <2> QED
    BY <1>4, <2>1, <2>2, <2>3, <2>5, <2>7, <2>8, <2>9, <2>10, <2>11, <2>12,
       <2>13, <2>14, <2>15, <2>16, <2>17, <2>18, <2>19, <2>20, <2>21, <2>22,
       <2>23
       DEF MgrStep, MgrRun
<1>5. CASE Signal
  <2>1. signalled' = TRUE /\ UNCHANGED <<mgr, cancelled, tport, rules>>
    BY <1>5 DEF Signal, ctlVars, netVars
  <2>2. LiveNow' = LiveNow
    BY <2>1 DEF LiveNow, Live
  <2>3. ToldNow' = LiveNow
    BY <2>1, <2>2 DEF ToldNow, Done
  <2>4. Promise!Tell
    BY <2>1, <2>2, <2>3 DEF Promise!Tell
  <2> QED BY <2>4 DEF Promise!Next
<1>6. CASE Exit
  <2>1. UNCHANGED <<mgr, cancelled, signalled, tport, rules>>
    BY <1>6 DEF Exit, ctlVars, netVars
  <2> QED BY <1>2, <2>1, StillStep
<1>7. CASE \E c \in Callers : Call(c) \/ StartStep(c) \/ StopStep(c)
  BY <1>3, <1>7
<1>8. CASE \E t \in Tunnels : MgrStep(t)
  BY <1>4, <1>8
<1> QED BY <1>0, <1>5, <1>6, <1>7, <1>8 DEF Step

\* While the calls come one after the other, the control of the tunnel keeps
\* its promise, for any number of tunnels that are on their way out: a tunnel
\* is made only when there is none, ends only when told, with its port and its
\* rules given back, and listens with rules that nobody takes before it is told.
THEOREM PromiseKeptHolds == Spec /\ []OneAtATime => PromiseKept
<1>1. Init => Promise!Init
  BY DEF Init, Promise!Init, LiveNow, ToldNow, Live
<1>2. /\ ControlInv /\ SerialInv /\ OneAtATime /\ ReturnedInv /\ [Next]_vars
      => [Promise!Next]_<<LiveNow, ToldNow, tport # Nil, rules>>
  <2>1. UNCHANGED vars => UNCHANGED AbsVars
    BY StillStep DEF vars, ctlVars, endVars, netVars
  <2> QED BY <2>1, PromiseStep DEF AbsVars
<1> QED
  BY <1>1, <1>2, Invariance, SerialInvariance, ReturnedInvariance, PTL
     DEF Spec, PromiseKept, Promise!Spec

-----------------------------------------------------------------------------
(* The composition with module.prop.                                       *)

\* A step of the composition is a step of TunnelControl or none of its own.
LEMMA PropRefines == PropNext => [Next]_vars
  BY DEF PropNext, ControlStep, PropStep, PropRead, PropTruncate, PropWrite,
         MonitorStep, Sampled, ScriptRename, Next

\* A caller leaves the place where it writes module.prop for one where it does
\* not.
LEMMA TextStep ==
    ASSUME TypeOK, Step, NEW x \in Writers \ {Monitor},
           Text(x) # "none", Text(x)' # "none"
    PROVE  Text(x)' = Text(x)
<1> USE NamesAssumption, MonitorAssumption DEF TypeOK
<1>1. CASE x \in Tunnels
  BY <1>1 DEF Text
<1>2. CASE x \in Callers
  <2>1. pc[x] \in {"write", "swrite"}
    BY <1>2 DEF Text
  <2>2. ASSUME NEW c \in Callers, Call(c) \/ StartStep(c) \/ StopStep(c)
        PROVE  pc'[x] = pc[x] \/ pc'[x] \in {"idle", "load"}
    <3>1. CASE StartGo(c)
      BY <1>2, <3>1 DEF StartGo, Finish, Goto
    <3>2. CASE StopEnd(c)
      BY <1>2, <3>2 DEF StopEnd, AfterStop, Finish, Goto
    <3>3. CASE pc[c] \notin {"write", "swrite"} /\ \E l : Goto(c, l)
      BY <1>2, <2>1, <3>3 DEF Goto
    <3> QED
      BY <2>2, <3>1, <3>2, <3>3
         DEF Call, StartStep, StopStep, StartSkipped, StartNoProfile,
             StartLoad, StartStore, StartMake, StartShow, StopLoad,
             StopCancel, StopWaited, StopClean, StopShow, Finish, AfterStop
  <2>3. ASSUME NEW t \in Tunnels, MgrStep(t)
        PROVE  pc' = pc
    BY <2>3
       DEF MgrStep, MgrRun, MgrReturn, MgrRoute, MgrPause, MgrAttempt,
           MgrWake, MgrSocks, MgrListen, MgrApply, MgrUnrule, MgrUnsocks,
           MgrStored, MgrShown, MgrEnd, MgrAuthFail, MgrAuthOK, MgrKeepAlive,
           MgrClose, MgrClear, MgrApplied, MgrApplyFails, MgrUndo, MgrClean,
           MgrMove, MgrShow, callVars
  <2>4. ASSUME Signal \/ Exit
        PROVE  pc' = pc
    BY <2>4 DEF Signal, Exit, callVars
  <2>5. pc'[x] = pc[x] \/ pc'[x] \in {"idle", "load"}
    BY <2>2, <2>3, <2>4 DEF Step
  <2> QED
    BY <1>2, <2>1, <2>5 DEF Text
<1> QED BY <1>1, <1>2 DEF Writers

\* A tunnel ends by showing "disconnected": none skips that.
LEMMA EndStep ==
    ASSUME TypeOK, MadeInv, Step,
           NEW u \in Tunnels, mgr[u] \notin {"none", "writing"}
    PROVE  mgr'[u] # "none"
<1> USE NamesAssumption DEF TypeOK, ctlVars, endVars, netVars, callVars
<1>1. ASSUME NEW c \in Callers, Call(c) \/ StartStep(c) \/ StopStep(c)
      PROVE  mgr'[u] # "none"
  <2>1. CASE Call(c)
    BY <2>1 DEF Call, Goto
  <2>2. CASE StartSkipped(c)
    BY <2>2 DEF StartSkipped, Goto, Finish, Busy
  <2>3. CASE StartNoProfile(c)
    BY <2>3 DEF StartNoProfile, Goto, Finish, Busy
  <2>4. CASE StartLoad(c)
    BY <2>4 DEF StartLoad, Goto, Busy
  <2>5. CASE StartStore(c)
    BY <2>5 DEF StartStore, Goto
  <2>6. CASE StartMake(c)
    BY <2>6 DEF StartMake, Goto, Assigned
  <2>7. CASE StartShow(c)
    BY <2>7 DEF StartShow, Goto, Publish
  <2>8. CASE StartGo(c)
    BY <2>8 DEF StartGo, MadeInv
  <2>9. CASE StopLoad(c)
    BY <2>9 DEF StopLoad, Goto, AfterStop, Finish
  <2>10. CASE StopCancel(c)
    BY <2>10 DEF StopCancel, Goto, Called
  <2>11. CASE StopWaited(c)
    BY <2>11 DEF StopWaited, Goto
  <2>12. CASE StopClean(c)
    BY <2>12 DEF StopClean, Goto
  <2>13. CASE StopShow(c)
    BY <2>13 DEF StopShow, Goto, Publish, Quiet
  <2>14. CASE StopEnd(c)
    BY <2>14 DEF StopEnd, Goto, AfterStop, Finish
  <2> QED
    BY <1>1, <2>1, <2>2, <2>3, <2>4, <2>5, <2>6, <2>7, <2>8, <2>9,
       <2>10, <2>11, <2>12, <2>13, <2>14
       DEF StartStep, StopStep
<1>2. ASSUME NEW t \in Tunnels, MgrStep(t) PROVE mgr'[u] # "none"
  <2>1. CASE MgrReturn(t)
    BY <2>1 DEF MgrReturn, MgrGoto, MgrMove, Waiting
  <2>2. CASE MgrRoute(t)
    BY <2>2 DEF MgrRoute, Awake, MgrGoto, MgrMove
  <2>3. CASE MgrPause(t)
    BY <2>3 DEF MgrPause, MgrGoto, MgrShow, Publish
  <2>4. CASE MgrAttempt(t)
    BY <2>4 DEF MgrAttempt, MgrGoto, MgrShow, Publish
  <2>5. CASE MgrWake(t)
    BY <2>5 DEF MgrWake, Awake, MgrGoto, MgrMove
  <2>6. CASE MgrSocks(t)
    BY <2>6 DEF MgrSocks, MgrGoto
  <2>7. CASE MgrListen(t)
    BY <2>7 DEF MgrListen, MgrGoto
  <2>8. CASE MgrApply(t)
    BY <2>8 DEF MgrApply, MgrGoto
  <2>9. CASE MgrUnrule(t)
    BY <2>9 DEF MgrUnrule, MgrClean, MgrGoto
  <2>10. CASE MgrUnsocks(t)
    BY <2>10 DEF MgrUnsocks, MgrGoto, Freed
  <2>11. CASE MgrStored(t)
    BY <2>11 DEF MgrStored, MgrGoto
  <2>12. CASE MgrShown(t)
    BY <2>12 DEF MgrShown, MgrGoto, Publish, Shown, Quiet
  <2>13. CASE MgrEnd(t)
    BY <2>13 DEF MgrEnd, MgrGoto
  <2>14. CASE MgrAuthFail(t)
    BY <2>14 DEF MgrAuthFail, MgrGoto, MgrShow, Publish
  <2>15. CASE MgrAuthOK(t)
    BY <2>15 DEF MgrAuthOK, MgrGoto, MgrShow, Publish
  <2>16. CASE MgrKeepAlive(t)
    BY <2>16 DEF MgrKeepAlive, MgrGoto, MgrShow, Publish
  <2>17. CASE MgrClose(t)
    BY <2>17 DEF MgrClose, MgrGoto, Unlisten
  <2>18. CASE MgrClear(t)
    BY <2>18 DEF MgrClear, MgrClean, MgrGoto
  <2>19. CASE MgrApplied(t)
    BY <2>19 DEF MgrApplied, MgrGoto, MgrMove
  <2>20. CASE MgrApplyFails(t)
    BY <2>20 DEF MgrApplyFails, MgrGoto
  <2>21. CASE MgrUndo(t)
    BY <2>21 DEF MgrUndo, MgrClean, MgrGoto
  <2> QED
    BY <1>2, <2>1, <2>2, <2>3, <2>4, <2>5, <2>6, <2>7, <2>8, <2>9,
       <2>10, <2>11, <2>12, <2>13, <2>14, <2>15, <2>16, <2>17,
       <2>18, <2>19, <2>20, <2>21
       DEF MgrStep, MgrRun
<1>3. CASE Signal \/ Exit
  BY <1>3 DEF Signal, Exit
<1> QED BY <1>1, <1>2, <1>3 DEF Step

\* What a step of TunnelControl does to the jobs: those that run go on, and
\* whoever comes to the place where it writes starts one; the end of the daemon
\* ends all of them.
LEMMA JobStep ==
    ASSUME PropTypeOK, JobInv, ControlStep, NEW x \in Writers
    PROVE  \/ job'[x] = NoJob
           \/ /\ job[x].step # "none" => job'[x] = job[x]
              /\ job'[x] # job[x]
                 => /\ x # Monitor /\ Text(x)' # "none"
                    /\ job'[x] = [step |-> "read", text |-> Text(x)']
<1> USE NamesAssumption, MonitorAssumption
<1>1. job'[x] = IF ~alive' THEN NoJob
                ELSE IF Text(x) = "none" /\ Text(x)' # "none"
                THEN [step |-> "read", text |-> Text(x)'] ELSE job[x]
  BY DEF ControlStep
<1>2. x = Monitor => Text(x) = "none" /\ Text(x)' = "none"
  BY DEF Text
<1>3. job[x].step # "none" /\ x # Monitor => Text(x) # "none"
  BY DEF JobInv
<1> QED BY <1>1, <1>2, <1>3

\* The types of the file, the jobs and the monitor.
LEMMA PropTypeStep ==
    PropTypeOK /\ JobInv /\ PropNext => PropTypeOK'
<1> SUFFICES ASSUME PropTypeOK, JobInv, PropNext PROVE PropTypeOK'
  OBVIOUS
<1> USE DEF PropTypeOK
<1>1. TypeOK'
  <2>1. TypeOK /\ UNCHANGED vars => TypeOK'
    BY DEF vars, ctlVars, endVars, netVars, callVars, TypeOK
  <2> QED BY <2>1, TypeStep, PropRefines
<1>2. CASE ControlStep
  <2>1. ASSUME NEW x \in Writers
        PROVE  Text(x)' \in Status \cup {"empty", "none"}
    BY DEF Text, Status
  <2>2. ASSUME NEW x \in Writers
        PROVE  job'[x] \in [step : {"none", "read", "trunc", "write"},
                            text : Status \cup {"empty"}]
    <3>1. CASE job'[x] = job[x]
      BY <3>1
    <3>2. CASE job'[x] = NoJob
      BY <3>2 DEF NoJob
    <3>3. CASE job'[x] # job[x] /\ job'[x] # NoJob
      <4>1. job'[x] = [step |-> "read", text |-> Text(x)'] /\ Text(x)' # "none"
        BY <1>2, <3>3, JobStep
      <4> QED BY <2>1, <4>1
    <3> QED BY <3>1, <3>2, <3>3
  <2>3. job' \in [Writers -> [step : {"none", "read", "trunc", "write"},
                              text : Status \cup {"empty"}]]
    BY <1>2, <2>2 DEF ControlStep
  <2>4. pending' \in BOOLEAN
    BY <1>2, Zenon DEF ControlStep, Woken
  <2>5. prop' = prop /\ last' \in {last, "empty"}
    BY <1>2 DEF ControlStep
  <2> QED BY <1>1, <2>3, <2>4, <2>5
<1>3. ASSUME NEW x \in Writers, PropStep(x) PROVE PropTypeOK'
  <2>1. CASE PropRead(x)
    BY <1>1, <2>1 DEF PropRead, Status
  <2>2. CASE PropTruncate(x)
    BY <1>1, <2>2 DEF PropTruncate, Status
  <2>3. CASE PropWrite(x)
    BY <1>1, <2>3 DEF PropWrite, NoJob, Status
  <2> QED BY <1>3, <2>1, <2>2, <2>3 DEF PropStep
<1>4. CASE MonitorStep
  BY <1>1, <1>4 DEF MonitorStep, StatusOf, Status, Writers
<1>5. CASE Sampled
  BY <1>1, <1>5 DEF Sampled
<1>6. CASE ScriptRename
  BY <1>1, <1>6 DEF ScriptRename, NoJob
<1> QED BY <1>2, <1>3, <1>4, <1>5, <1>6 DEF PropNext

\* A job belongs to the writer and to the place where the writer is.
LEMMA PropJobStep ==
    PropTypeOK /\ JobInv /\ PropNext => JobInv'
<1> SUFFICES ASSUME PropTypeOK, JobInv, PropNext PROVE JobInv'
  OBVIOUS
<1> USE NamesAssumption, MonitorAssumption
<1>1. CASE ControlStep
  <2>1. ASSUME NEW x \in Writers \ {Monitor}, job'[x].step # "none"
        PROVE  Text(x)' # "none" /\ job'[x].text \in {Text(x)', "empty"}
    <3>1. CASE job'[x] = job[x]
      <4>1. Text(x) # "none" /\ job[x].text \in {Text(x), "empty"}
        BY <2>1, <3>1 DEF JobInv
      <4>2. Text(x)' # "none"
        BY <1>1, <2>1, <3>1, <4>1 DEF ControlStep
      <4>3. Text(x)' = Text(x)
        BY <1>1, <4>1, <4>2, TextStep DEF ControlStep, PropTypeOK
      <4> QED BY <3>1, <4>1, <4>2, <4>3
    <3>2. CASE job'[x] # job[x]
      <4>1. job'[x] # NoJob
        BY <2>1 DEF NoJob
      <4>2. Text(x)' # "none" /\ job'[x] = [step |-> "read", text |-> Text(x)']
        BY <1>1, <3>2, <4>1, JobStep
      <4> QED BY <4>2
    <3> QED BY <3>1, <3>2
  <2>2. \/ job'[Monitor] = NoJob
        \/ job'[Monitor] = job[Monitor] /\ last' = last
    BY <1>1 DEF ControlStep, Writers, Text
  <2> QED BY <2>1, <2>2 DEF JobInv, NoJob
<1>2. ASSUME NEW x \in Writers, PropStep(x) PROVE JobInv'
  <2>1. UNCHANGED <<vars, last>>
    BY <1>2 DEF PropStep, PropRead, PropTruncate, PropWrite
  <2>2. \A y \in Writers : Text(y)' = Text(y)
    BY <2>1 DEF vars, callVars, Text
  <2>3. \A y \in Writers :
          job'[y].step # "none"
          => job[y].step # "none" /\ job'[y].text \in {job[y].text, "empty"}
    BY <1>2
       DEF PropStep, PropRead, PropTruncate, PropWrite, NoJob, PropTypeOK
  <2> QED BY <2>1, <2>2, <2>3 DEF JobInv, Writers
<1>3. CASE MonitorStep
  <2>1. \A y \in Writers : Text(y)' = Text(y)
    BY <1>3 DEF MonitorStep, vars, callVars, Text
  <2>2. \A y \in Writers \ {Monitor} : job'[y] = job[y]
    BY <1>3 DEF MonitorStep, PropTypeOK
  <2>3. job'[Monitor].step # "none" => job'[Monitor].text = last'
    BY <1>3 DEF MonitorStep, PropTypeOK, Writers
  <2> QED BY <2>1, <2>2, <2>3 DEF JobInv
<1>4. CASE Sampled
  <2>1. UNCHANGED <<job, last>> /\ \A y \in Writers : Text(y)' = Text(y)
    BY <1>4 DEF Sampled, vars, callVars, Text
  <2> QED BY <2>1 DEF JobInv
<1>5. CASE ScriptRename
  <2>1. last' = last /\ \A y \in Writers : Text(y)' = Text(y)
    BY <1>5 DEF ScriptRename, vars, callVars, Text
  <2>2. \A y \in Writers : job'[y].step # "none" => job'[y] = job[y]
    BY <1>5 DEF ScriptRename, NoJob
  <2> QED BY <2>1, <2>2 DEF JobInv, Writers
<1> QED BY <1>1, <1>2, <1>3, <1>4, <1>5 DEF PropNext

\* The monitor is woken by every change it has not seen.
LEMMA LastStep ==
    LastInv /\ PropNext => LastInv'
<1> SUFFICES ASSUME LastInv, PropNext PROVE LastInv'
  OBVIOUS
<1>1. CASE ControlStep
  <2>1. CASE ~alive'
    BY <1>1, <2>1 DEF ControlStep, LastInv
  <2>2. CASE alive' /\ pub' = pub
    <3>1. last' = last /\ (pending => pending')
      BY <1>1, <2>2, Zenon DEF ControlStep, Woken
    <3> QED BY <2>2, <3>1 DEF LastInv, StatusOf
  <2>3. CASE alive' /\ pub' # pub
    <3>1. pending'
      BY <1>1, <2>3, Zenon DEF ControlStep, Woken
    <3> QED BY <3>1 DEF LastInv
  <2> QED BY <2>1, <2>2, <2>3
<1>2. ASSUME NEW x \in Writers, PropStep(x) PROVE LastInv'
  BY <1>2 DEF PropStep, PropRead, PropTruncate, PropWrite, vars, LastInv,
              StatusOf
<1>3. CASE MonitorStep
  BY <1>3 DEF MonitorStep, vars, LastInv, StatusOf
<1>4. CASE Sampled \/ ScriptRename
  BY <1>4 DEF Sampled, ScriptRename, vars, LastInv, StatusOf
<1> QED BY <1>1, <1>2, <1>3, <1>4 DEF PropNext

\* A file that shows a tunnel will be written again.
LEMMA ShownStep ==
    PropTypeOK /\ MadeInv /\ JobInv /\ ShownInv /\ PropNext => ShownInv'
<1> SUFFICES ASSUME PropTypeOK, MadeInv, JobInv, ShownInv, PropNext, alive',
                    prop' \in {"running", "standby"}
             PROVE  \/ \E t \in Tunnels : mgr'[t] \notin {"none", "writing"}
                    \/ last' \in {"running", "standby"}
                    \/ \E x \in Writers :
                         /\ job'[x].step # "none"
                         /\ job'[x].text \in {"disconnected", "empty"}
  BY DEF ShownInv
<1> USE NamesAssumption, MonitorAssumption
<1>0. alive
  BY DEF PropNext
<1>1. CASE ControlStep
  <2>1. prop' = prop /\ last' = last /\ Step
    BY <1>1 DEF ControlStep
  <2>2. ASSUME NEW t \in Tunnels, mgr[t] \notin {"none", "writing"},
               mgr'[t] \in {"none", "writing"}
        PROVE  job'[t].step # "none" /\ job'[t].text = "disconnected"
    <3>1. mgr'[t] = "writing"
      BY <2>1, <2>2, EndStep DEF PropTypeOK
    <3>2. Text(t) = "none" /\ Text(t)' = "disconnected" /\ t \in Writers
      BY <2>2, <3>1 DEF Text, Writers
    <3>3. job'[t] = [step |-> "read", text |-> "disconnected"]
      BY <1>1, <3>2 DEF ControlStep
    <3> QED BY <3>3
  <2>3. ASSUME NEW x \in Writers, job[x].step # "none"
        PROVE  job'[x] = job[x]
    <3>1. x # Monitor => Text(x) # "none"
      BY <2>3 DEF JobInv
    <3>2. x = Monitor => Text(x)' = "none"
      BY DEF Text
    <3> QED BY <1>1, <3>1, <3>2 DEF ControlStep
  <2> QED BY <1>0, <2>1, <2>2, <2>3 DEF ShownInv, Writers
<1>2. ASSUME NEW x \in Writers, PropStep(x)
      PROVE  \/ \E t \in Tunnels : mgr'[t] \notin {"none", "writing"}
             \/ last' \in {"running", "standby"}
             \/ \E y \in Writers :
                  /\ job'[y].step # "none"
                  /\ job'[y].text \in {"disconnected", "empty"}
  <2>1. UNCHANGED <<mgr, last>>
    BY <1>2 DEF PropStep, PropRead, PropTruncate, PropWrite, vars
  <2>2. CASE PropRead(x)
    <3>1. \A y \in Writers :
            /\ job[y].step # "none" /\ job[y].text \in {"disconnected", "empty"}
            => /\ job'[y].step # "none"
               /\ job'[y].text \in {"disconnected", "empty"}
      BY <2>2 DEF PropRead, PropTypeOK
    <3>2. prop' = prop
      BY <2>2 DEF PropRead
    <3> QED BY <1>0, <2>1, <3>1, <3>2 DEF ShownInv
  <2>3. CASE PropTruncate(x)
    BY <2>3 DEF PropTruncate
  <2>4. CASE PropWrite(x)
    <3>1. job[x].step # "none" /\ job[x].text \in {"running", "standby"}
      BY <2>4 DEF PropWrite
    <3>2. CASE x = Monitor
      BY <2>1, <3>1, <3>2 DEF JobInv
    <3>3. CASE x # Monitor
      <4>1. Text(x) \in {"running", "standby"}
        BY <3>1, <3>3 DEF JobInv
      <4>2. x \in Callers /\ pc[x] = "write"
        BY <4>1 DEF Text
      <4>3. tun[x] \in Tunnels /\ mgr[tun[x]] = "made"
        BY <4>2 DEF MadeInv
      <4> QED BY <2>1, <4>3
    <3> QED BY <3>2, <3>3
  <2> QED BY <1>2, <2>2, <2>3, <2>4 DEF PropStep
<1>3. CASE MonitorStep
  <2>1. mgr' = mgr /\ prop' = prop /\ job[Monitor].step = "none"
    BY <1>3 DEF MonitorStep, vars
  <2>2. \A y \in Writers \ {Monitor} : job'[y] = job[y]
    BY <1>3 DEF MonitorStep, PropTypeOK
  <2>3. last' \in {"running", "standby", "disconnected"}
    BY <1>3 DEF MonitorStep, StatusOf
  <2>4. CASE last' = "disconnected" /\ last # "disconnected"
    <3>1. job'[Monitor] = [step |-> "read", text |-> "disconnected"]
      BY <1>3, <2>4 DEF MonitorStep, PropTypeOK, Writers
    <3> QED BY <3>1 DEF Writers
  <2>5. CASE last' = "disconnected" /\ last = "disconnected"
    BY <1>0, <2>1, <2>2, <2>5 DEF ShownInv
  <2> QED BY <2>3, <2>4, <2>5
<1>4. CASE Sampled
  <2>1. UNCHANGED <<mgr, prop, job, last>>
    BY <1>4 DEF Sampled, vars
  <2> QED BY <1>0, <2>1 DEF ShownInv
<1>5. CASE ScriptRename
  BY <1>5 DEF ScriptRename
<1> QED BY <1>1, <1>2, <1>3, <1>4, <1>5 DEF PropNext

LEMMA PropInvariance == PropSpec => [](ControlInv /\ PropInv)
<1>1. PropInit => ControlInv /\ PropInv
  <2> SUFFICES ASSUME PropInit PROVE ControlInv /\ PropInv
    OBVIOUS
  <2>1. ControlInv
    BY InitInv DEF PropInit
  <2>2. ASSUME NEW x \in Writers
        PROVE  /\ Text(x) \in Status \cup {"none"}
               /\ x = Monitor => Text(x) = "none"
    BY NamesAssumption, MonitorAssumption DEF Text, Status
  <2>3. ASSUME NEW x \in Writers
        PROVE  job[x] = IF Text(x) = "none" THEN NoJob
                        ELSE [step |-> "read", text |-> Text(x)]
    BY DEF PropInit
  <2>4. job \in [Writers -> [step : {"none", "read", "trunc", "write"},
                             text : Status \cup {"empty"}]]
    BY <2>2 DEF PropInit, NoJob
  <2>5. PropTypeOK
    BY <2>1, <2>4 DEF PropInit, PropTypeOK, ControlInv
  <2>6. JobInv
    <3>1. ASSUME NEW x \in Writers, job[x].step # "none"
          PROVE  Text(x) # "none" /\ job[x].text = Text(x)
      <4>0. NoJob.step = "none"
        BY DEF NoJob
      <4>1. Text(x) # "none"
        BY <2>3, <3>1, <4>0
      <4>2. job[x] = [step |-> "read", text |-> Text(x)]
        BY <2>3, <4>1
      <4> QED BY <4>1, <4>2
    <3> QED BY <2>2, <3>1 DEF JobInv, Writers
  <2>7. LastInv /\ ShownInv
    BY DEF PropInit, LastInv, ShownInv
  <2> QED BY <2>1, <2>5, <2>6, <2>7 DEF PropInv
<1>2. ControlInv /\ PropInv /\ PropNext => PropInv'
  BY PropTypeStep, PropJobStep, LastStep, ShownStep DEF ControlInv, PropInv
<1>3. ControlInv /\ [Next]_vars => ControlInv'
  BY InvStep, InvStutter
<1>4. ControlInv /\ PropInv /\ UNCHANGED <<vars, propVars>>
      => ControlInv' /\ PropInv'
  <2> SUFFICES ASSUME ControlInv, PropInv, UNCHANGED <<vars, propVars>>
               PROVE  ControlInv' /\ PropInv'
    OBVIOUS
  <2>1. ControlInv'
    BY InvStutter
  <2>2. \A x \in Writers : Text(x)' = Text(x)
    BY DEF vars, callVars, Text
  <2>3. PropTypeOK' /\ LastInv' /\ ShownInv'
    BY <2>1 DEF vars, endVars, propVars, ControlInv, PropInv, PropTypeOK,
                LastInv, ShownInv, StatusOf
  <2>4. JobInv'
    BY <2>2 DEF propVars, PropInv, JobInv
  <2> QED BY <2>1, <2>3, <2>4 DEF PropInv
<1> QED BY <1>1, <1>2, <1>3, <1>4, PropRefines, PTL DEF PropSpec

\* The composition is an implementation of TunnelControl: what is proved of
\* Spec holds of it, too.
THEOREM PropImplements == PropSpec => Spec
<1>1. PropInit => Init
  BY DEF PropInit
<1>2. [PropNext]_<<vars, propVars>> => [Next]_vars
  BY PropRefines
<1> QED BY <1>1, <1>2, PTL DEF PropSpec, Spec

\* Once the last tunnel has ended and every one of the daemon's writers of
\* module.prop has finished, none of them has left a tunnel shown in the file,
\* however their reads, truncations and writes fell between each other and the
\* scripts' copies, and whatever the monitor remembered; unless State itself
\* still shows the tunnel that run's own start did not make.
THEOREM StoppedIsShownHolds == PropSpec => []StoppedIsShown
<1>1. ControlInv /\ PropInv => StoppedIsShown
  <2> SUFFICES ASSUME ControlInv, PropInv, alive, Stopped,
                      \A x \in Writers : job[x].step = "none",
                      ~pending, pub # Booted
               PROVE  prop \notin {"running", "standby"}
    BY DEF StoppedIsShown
  <2>1. pub = Quiet
    BY DEF ControlInv, QuietInv, Stopped
  <2>2. last \in {"disconnected", "empty"}
    BY <2>1 DEF PropInv, LastInv, StatusOf, Quiet
  <2> QED BY <2>2 DEF PropInv, ShownInv, Stopped
<1> QED BY PropInvariance, <1>1, PTL

-----------------------------------------------------------------------------
(* The State that the tunnel reports to.                                   *)

\* Every step keeps the types.
LEMMA StateTypeStep == StateTypeOK /\ [StateNext]_stateVars => StateTypeOK'
<1> SUFFICES ASSUME StateTypeOK, [StateNext]_stateVars PROVE StateTypeOK'
  OBVIOUS
<1> USE BoundAssumption DEF StateTypeOK, Versions
<1>1. ASSUME NEW x \in Setters, Mutate(x) PROVE StateTypeOK'
  BY <1>1 DEF Mutate
<1>2. ASSUME NEW x \in Setters, Broadcast(x) PROVE StateTypeOK'
  BY <1>2 DEF Broadcast, Notified
<1>3. ASSUME NEW c \in Clients, Connect(c) PROVE StateTypeOK'
  BY <1>3 DEF Connect, ClientAt
<1>4. ASSUME NEW c \in Clients, Fail(c) PROVE StateTypeOK'
  BY <1>4 DEF Fail, ClientAt
<1>5. ASSUME NEW c \in Clients, HandlerStep(c) PROVE StateTypeOK'
  <2>1. CASE Greet(c)
    BY <2>1 DEF Greet, ClientAt
  <2>2. CASE Subscribe(c)
    BY <2>2 DEF Subscribe, ClientAt
  <2>3. CASE Take(c)
    BY <2>3 DEF Take, ClientAt
  <2>4. CASE Read(c)
    BY <2>4 DEF Read, ClientAt, Fresh
  <2>5. CASE Send(c)
    BY <2>5 DEF Send, ClientAt
  <2>6. CASE Cleanup(c)
    BY <2>6 DEF Cleanup, ClientAt, Removed
  <2> QED BY <1>5, <2>1, <2>2, <2>3, <2>4, <2>5, <2>6 DEF HandlerStep
<1>6. CASE UNCHANGED stateVars
  BY <1>6 DEF stateVars
<1> QED BY <1>1, <1>2, <1>3, <1>4, <1>5, <1>6 DEF StateNext

\* The state is always well typed.
THEOREM StateTyping == StateSpec => []StateTypeOK
<1>1. StateInit => StateTypeOK
  BY BoundAssumption DEF StateInit, StateTypeOK, Versions
<1> QED BY <1>1, StateTypeStep, PTL DEF StateSpec

\* Subscribe and the deferred cleanup keep State.subs exact.
LEMMA SubsStep ==
    StateTypeOK /\ SubsAreListeners /\ [StateNext]_stateVars => SubsAreListeners'
<1> SUFFICES ASSUME StateTypeOK, SubsAreListeners, [StateNext]_stateVars
             PROVE  SubsAreListeners'
  OBVIOUS
<1> USE DEF StateTypeOK, SubsAreListeners
<1>1. ASSUME NEW x \in Setters, Mutate(x) \/ Broadcast(x)
      PROVE  SubsAreListeners'
  BY <1>1 DEF Mutate, Broadcast
<1>2. ASSUME NEW c \in Clients, Connect(c) \/ Fail(c)
      PROVE  SubsAreListeners'
  BY <1>2 DEF Connect, Fail, ClientAt
<1>3. ASSUME NEW c \in Clients, HandlerStep(c) PROVE SubsAreListeners'
  BY <1>3 DEF HandlerStep, Greet, Subscribe, Take, Read, Send, Cleanup,
              Removed, ClientAt
<1>4. CASE UNCHANGED stateVars
  BY <1>4 DEF stateVars
<1> QED BY <1>1, <1>2, <1>3, <1>4 DEF StateNext

\* State.subs holds the channels of the handlers that listen and of no other,
\* so no broadcast serves a client that has left.
THEOREM SubsAreListenersHolds == StateSpec => []SubsAreListeners
<1>1. StateInit => SubsAreListeners
  BY DEF StateInit, SubsAreListeners
<1> QED BY <1>1, SubsStep, StateTyping, PTL DEF StateSpec

\* A change is never forgotten between a setter, a channel and a snapshot.
LEMMA MissStep ==
    ASSUME BroadcastInv, [StateNext]_stateVars, NEW c \in Clients
    PROVE  MissInv(c)'
<1> USE DEF BroadcastInv, StateTypeOK, MissInv, OnItsWay
<1>1. ASSUME NEW x \in Setters, Mutate(x) PROVE MissInv(c)'
  <2>1. OnItsWay'
    BY <1>1 DEF Mutate
  <2> QED BY <2>1
<1>2. ASSUME NEW x \in Setters, Broadcast(x) PROVE MissInv(c)'
  <2>1. cpc'[c] \in {"listening", "sending"} => c \in chan'
    BY <1>2 DEF Broadcast, Notified, SubsAreListeners
  <2> QED BY <2>1
<1>3. ASSUME NEW d \in Clients, Connect(d) \/ Fail(d) PROVE MissInv(c)'
  BY <1>3 DEF Connect, Fail, ClientAt
<1>4. ASSUME NEW d \in Clients, HandlerStep(d) PROVE MissInv(c)'
  <2>1. CASE Greet(d)
    BY <2>1 DEF Greet, ClientAt
  <2>2. CASE Subscribe(d)
    BY <2>2 DEF Subscribe, ClientAt
  <2>3. CASE Take(d)
    BY <2>3 DEF Take, ClientAt
  <2>4. CASE Read(d)
    BY <2>4 DEF Read, ClientAt, Fresh
  <2>5. CASE Send(d)
    BY <2>5 DEF Send, ClientAt
  <2>6. CASE Cleanup(d)
    BY <2>6 DEF Cleanup, ClientAt
  <2> QED BY <1>4, <2>1, <2>2, <2>3, <2>4, <2>5, <2>6 DEF HandlerStep
<1>5. CASE UNCHANGED stateVars
  BY <1>5 DEF stateVars
<1> QED BY <1>1, <1>2, <1>3, <1>4, <1>5 DEF StateNext

\* Coalescing loses nothing: a client that waits with an empty channel was sent
\* every change made since it subscribed.
THEOREM NothingMissedHolds == StateSpec => []NothingMissed
<1>1. StateInit => BroadcastInv
  BY BoundAssumption
     DEF StateInit, BroadcastInv, StateTypeOK, Versions, SubsAreListeners, MissInv
<1>2. BroadcastInv /\ [StateNext]_stateVars => BroadcastInv'
  BY StateTypeStep, SubsStep, MissStep DEF BroadcastInv
<1>3. BroadcastInv => NothingMissed
  BY DEF BroadcastInv, StateTypeOK, MissInv, NothingMissed, Settled, OnItsWay
<1> QED BY <1>1, <1>2, <1>3, PTL DEF StateSpec

=============================================================================
