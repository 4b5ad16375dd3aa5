---------------------------- MODULE SSHPoolProofs ----------------------------
(***************************************************************************)
(* What TLAPS proves of SSHPool, for any number of slots and workers, any  *)
(* limit of the breaker and any bounds.                                    *)
(***************************************************************************)
EXTENDS SSHPool, FiniteSetTheorems, TLAPS

-----------------------------------------------------------------------------
(* Types.                                                                  *)

LEMMA FirstSlot == 1 \in Slots /\ 1 \in Sessions /\ Nil \notin Sessions
  BY SizeAssumption, BoundsAssumption DEF Slots, Sessions, Nil

LEMMA Sizes ==
  /\ PoolSize \in Int /\ PoolSize >= 1
  /\ BreakerLimit \in Int /\ BreakerLimit >= 1
  /\ MaxSleeper \in Int /\ MaxSleeper >= 0
  BY SizeAssumption, LimitAssumption, BoundsAssumption

\* Where an index may point, without the intervals the provers do badly with.
LEMMA Ranges ==
  /\ 1 \in 1..(PoolSize + 1)
  /\ 0 \in 0..(PoolSize - 1)
  /\ 0 \in 0..BreakerLimit
  /\ 0 \in 0..MaxSleeper
  /\ Off \in 0..Loaded /\ 1 \in 0..Loaded
  /\ \A s \in Slots :
       /\ s \in 0..Loaded
       /\ s # PoolSize => s + 1 \in Slots /\ s \in 0..(PoolSize - 1)
  BY Sizes DEF Off, Loaded, Slots

LEMMA InitTypeOK == Init => TypeOK
  <1> SUFFICES ASSUME Init PROVE TypeOK
    OBVIOUS
  <1>1. SlotTypes
    BY FirstSlot, Ranges DEF Init, SlotTypes
  <1>2. GoTypes
    <2>1. recent \in BOOLEAN /\ tripping \in BOOLEAN
      BY DEF Init
    <2>2. ensure \in [Ensures -> 0..Loaded]
      BY Ranges DEF Init
    <2>3. spawned \in [Slots -> Nat] /\ authing \in [Slots -> Nat]
      BY DEF Init
    <2>4. sleepers \in [Slots -> 0..MaxSleeper]
      BY Ranges DEF Init
    <2>5. QED
      BY <2>1, <2>2, <2>3, <2>4 DEF GoTypes
  <1>3. WorkerTypes
    BY FirstSlot DEF Init, WorkerTypes, WorkerPc
  <1>4. ManagerTypes
    <2>1. mslot \in Slots /\ mslot \in 1..(PoolSize + 1)
      BY FirstSlot, Ranges DEF Init
    <2>2. QED
      BY <2>1 DEF Init, ManagerTypes, MgrPc
  <1>5. QED
    BY <1>1, <1>2, <1>3, <1>4 DEF TypeOK

(* What the operations that several steps share do to the types.           *)

LEMMA EnsureCallType ==
  ASSUME TypeOK, EnsureCall
  PROVE  ensure' \in [Ensures -> 0..Loaded]
  BY SizeAssumption DEF TypeOK, GoTypes, EnsureCall, Loaded

LEMMA MarkBrokenType ==
  ASSUME TypeOK, NEW s \in Slots, MarkBroken(s)
  PROVE  /\ client' \in [Slots -> Sessions \cup {Nil}]
         /\ streams' \in [Slots -> Nat]
         /\ reconnecting' \in [Slots -> BOOLEAN]
         /\ link' \in [Sessions -> {"up", "lost", "closed"}]
         /\ spawned' \in [Slots -> Nat]
  BY DEF TypeOK, SlotTypes, GoTypes, MarkBroken, Shut, Respawn

LEMMA ReleaseType ==
  ASSUME TypeOK, NEW s \in Slots, Release(s)
  PROVE  streams' \in [Slots -> Nat]
  BY DEF TypeOK, SlotTypes, Release

LEMMA LeaveType ==
  ASSUME TypeOK, NEW w \in Workers, NEW pc \in WorkerPc, Leave(w, pc)
  PROVE  WorkerTypes'
  BY FirstSlot DEF TypeOK, WorkerTypes, Leave, Goto

LEMMA NextSlotType ==
  ASSUME TypeOK, mslot \in Slots, NEW h \in BOOLEAN, NextSlot(h)
  PROVE  ManagerTypes'
  BY SizeAssumption DEF TypeOK, ManagerTypes, NextSlot, MgrPc, Slots

LEMMA StepTypeOK == TypeOK /\ [Next]_vars => TypeOK'
  <1> SUFFICES ASSUME TypeOK, [Next]_vars PROVE TypeOK'
    OBVIOUS
  <1> USE DEF TypeOK, SlotTypes, GoTypes, WorkerTypes, ManagerTypes
  <1> USE DEF wrkVars, mgrVars, slotVars, goVars, ctxVars
  <1>1. CASE TunnelCancel
    BY <1>1 DEF TunnelCancel
  <1>2. ASSUME NEW n \in Sessions, TransportLost(n) PROVE TypeOK'
    BY <1>2 DEF TransportLost
  <1>3. CASE EnsureWindowEnds
    BY <1>3 DEF EnsureWindowEnds
  <1>4. ASSUME NEW e \in Ensures, EnsureStore(e) PROVE TypeOK'
    <2>1. ensure' \in [Ensures -> 0..Loaded]
      BY <1>4, SizeAssumption DEF EnsureStore, FirstVisit, Off, Loaded
    <2>2. QED
      BY <1>4, <2>1 DEF EnsureStore
  <1>5. ASSUME NEW e \in Ensures, EnsureVisit(e) PROVE TypeOK'
    <2>1. ensure' \in [Ensures -> 0..Loaded]
      BY <1>5, Ranges DEF EnsureVisit, NextVisit
    <2>2. reconnecting' \in [Slots -> BOOLEAN] /\ spawned' \in [Slots -> Nat]
      BY <1>5 DEF EnsureVisit, Need
    <2>3. QED
      BY <1>5, <2>1, <2>2 DEF EnsureVisit
  <1>6. ASSUME NEW s \in Slots, ReconnectAbandon(s) PROVE TypeOK'
    BY <1>6 DEF ReconnectAbandon
  <1>7. ASSUME NEW s \in Slots, ReconnectStart(s) PROVE TypeOK'
    BY <1>7 DEF ReconnectStart
  <1>8. ASSUME NEW s \in Slots, AuthOK(s) PROVE TypeOK'
    BY <1>8, LimitAssumption DEF AuthOK, Unused
  <1>9. ASSUME NEW s \in Slots, AuthFail(s) PROVE TypeOK'
    <2>1. fails' \in [Slots -> 0..BreakerLimit]
      BY <1>9, LimitAssumption DEF AuthFail
    <2>2. sleepers' \in [Slots -> 0..MaxSleeper] /\ tripping' \in BOOLEAN
      <3>1. CASE fails[s] + 1 >= BreakerLimit
        BY <1>9, <3>1 DEF AuthFail
      <3>2. CASE ~(fails[s] + 1 >= BreakerLimit)
        <4>1. sleepers[s] + 1 \in 0..MaxSleeper
          BY <1>9, <3>2, Sizes DEF AuthFail
        <4>2. QED
          BY <1>9, <3>2, <4>1 DEF AuthFail
      <3>3. QED
        BY <3>1, <3>2
    <2>3. authing' \in [Slots -> Nat] /\ reconnecting' \in [Slots -> BOOLEAN]
      BY <1>9 DEF AuthFail
    <2>4. QED
      BY <1>9, <2>1, <2>2, <2>3 DEF AuthFail
  <1>10. CASE TripBreaker
    BY <1>10 DEF TripBreaker
  <1>11. ASSUME NEW s \in Slots, BackoffWake(s) PROVE TypeOK'
    <2>1. sleepers' \in [Slots -> 0..MaxSleeper]
      BY <1>11, BoundsAssumption DEF BackoffWake
    <2>2. ensure' \in [Ensures -> 0..Loaded]
      BY <1>11, EnsureCallType DEF BackoffWake
    <2>3. QED
      BY <1>11, <2>1, <2>2 DEF BackoffWake
  <1>12. ASSUME NEW w \in Workers, CheckoutScan(w) PROVE TypeOK'
    BY <1>12 DEF CheckoutScan, Goto, LeastBusy, WorkerPc
  <1>13. ASSUME NEW w \in Workers, CheckoutTake(w) PROVE TypeOK'
    <2>1. streams' \in [Slots -> Nat]
      BY <1>13 DEF CheckoutTake
    <2>2. rr' \in 0..(PoolSize - 1)
      BY <1>13, Ranges DEF CheckoutTake
    <2>3. WorkerTypes'
      <3>1. CASE Healthy(wslot[w])
        BY <1>13, <3>1 DEF CheckoutTake, Goto, WorkerPc
      <3>2. CASE ~Healthy(wslot[w])
        BY <1>13, <3>2, LeaveType DEF CheckoutTake, WorkerPc
      <3>3. QED
        BY <3>1, <3>2
    <2>4. QED
      BY <1>13, <2>1, <2>2, <2>3 DEF CheckoutTake
  <1>14. ASSUME NEW w \in Workers, DialMiss(w) PROVE TypeOK'
    BY <1>14, EnsureCallType, LeaveType DEF DialMiss, WorkerPc
  <1>15. ASSUME NEW w \in Workers, DialOK(w) PROVE TypeOK'
    BY <1>15 DEF DialOK, Goto, WorkerPc
  <1>16. ASSUME NEW w \in Workers, DialFail(w) PROVE TypeOK'
    <2>1. streams' \in [Slots -> Nat]
      BY <1>16, ReleaseType DEF DialFail
    <2>2. WorkerTypes'
      BY <1>16, LeaveType DEF DialFail, Goto, WorkerPc
    <2>3. QED
      BY <1>16, <2>1, <2>2 DEF DialFail
  <1>17. ASSUME NEW w \in Workers, DialBroken(w) PROVE TypeOK'
    <2>1. WorkerTypes'
      BY <1>17, LeaveType DEF DialBroken, WorkerPc
    <2>2. MarkBroken(wslot[w]) /\ wslot[w] \in Slots
      BY <1>17 DEF DialBroken
    <2>3. QED
      BY <1>17, <2>1, <2>2, MarkBrokenType DEF DialBroken
  <1>18. ASSUME NEW w \in Workers, StreamClose(w) PROVE TypeOK'
    <2>1. streams' \in [Slots -> Nat]
      BY <1>18, ReleaseType DEF StreamClose
    <2>2. WorkerTypes'
      BY <1>18, LeaveType DEF StreamClose, WorkerPc
    <2>3. QED
      BY <1>18, <2>1, <2>2 DEF StreamClose
  <1>19. CASE RouteTick
    BY <1>19, EnsureCallType DEF RouteTick
  <1>20. CASE KeepAliveStart
    <2>1. ManagerTypes'
      BY <1>20, Ranges DEF KeepAliveStart, MgrPc
    <2>2. QED
      BY <1>20, <2>1 DEF KeepAliveStart
  <1>21. CASE KeepAliveEmpty
    <2>1. ManagerTypes'
      BY <1>21, NextSlotType DEF KeepAliveEmpty
    <2>2. ensure' \in [Ensures -> 0..Loaded]
      BY <1>21, EnsureCallType DEF KeepAliveEmpty
    <2>3. QED
      BY <1>21, <2>1, <2>2 DEF KeepAliveEmpty
  <1>22. CASE KeepAliveLive
    <2>1. ManagerTypes'
      BY <1>22, NextSlotType DEF KeepAliveLive, MgrPc
    <2>2. QED
      BY <1>22, <2>1 DEF KeepAliveLive
  <1>23. CASE KeepAliveDone
    <2>1. ManagerTypes'
      BY <1>23, NextSlotType DEF KeepAliveDone
    <2>2. QED
      BY <1>23, <2>1 DEF KeepAliveDone
  <1>24. CASE KeepAliveError
    BY <1>24 DEF KeepAliveError, MgrPc
  <1>25. CASE KeepAliveBroken
    <2>1. mslot \in Slots /\ MarkBroken(mslot)
      BY <1>25 DEF KeepAliveBroken
    <2>2. ManagerTypes'
      BY <1>25, <2>1, NextSlotType DEF KeepAliveBroken
    <2>3. QED
      BY <1>25, <2>1, <2>2, MarkBrokenType DEF KeepAliveBroken
  <1>26. CASE KeepAliveEnd
    <2>1. ManagerTypes'
      BY <1>26, FirstSlot, Ranges DEF KeepAliveEnd, MgrPc
    <2>2. ensure' \in [Ensures -> 0..Loaded]
      BY <1>26, EnsureCallType DEF KeepAliveEnd
    <2>3. QED
      BY <1>26, <2>1, <2>2 DEF KeepAliveEnd
  <1>27. CASE CloseBegin
    BY <1>27, FirstSlot, SizeAssumption DEF CloseBegin, MgrPc
  <1>28. CASE CloseSlot
    <2>1. ManagerTypes'
      BY <1>28, FirstSlot, SizeAssumption DEF CloseSlot, Slots, MgrPc
    <2>2. /\ client' \in [Slots -> Sessions \cup {Nil}]
          /\ streams' \in [Slots -> Nat]
          /\ link' \in [Sessions -> {"up", "lost", "closed"}]
      BY <1>28 DEF CloseSlot, Shut
    <2>3. QED
      BY <1>28, <2>1, <2>2 DEF CloseSlot
  <1>29. CASE UNCHANGED vars
    BY <1>29 DEF vars
  <1> HIDE DEF TypeOK
  <1>30. QED
    BY <1>1, <1>2, <1>3, <1>4, <1>5, <1>6, <1>7, <1>8, <1>9, <1>10, <1>11,
       <1>12, <1>13, <1>14, <1>15, <1>16, <1>17, <1>18, <1>19, <1>20, <1>21,
       <1>22, <1>23, <1>24, <1>25, <1>26, <1>27, <1>28, <1>29
    DEF Next, EnsureStep, AuthEnd, ReconnectStep, DialEnd, WorkerStep,
        KeepAliveStep, MgrStep

\* Every variable of the pool keeps its type: no counter of streams or of
\* goroutines goes below zero and no index leaves the array of slots.
THEOREM Typing == Spec => []TypeOK
  <1>1. Init => TypeOK
    BY InitTypeOK
  <1>2. TypeOK /\ [Next]_vars => TypeOK'
    BY StepTypeOK
  <1>3. QED
    BY <1>1, <1>2, PTL DEF Spec

-----------------------------------------------------------------------------
(* Sessions and reconnects.  Few actions touch them: the rest is one case. *)

ReconnectVars == <<client, reconnecting, spawned, authing, link>>

LEMMA ReconnectFrame ==
  ASSUME [Next]_vars
  PROVE  \/ \E e \in Ensures : EnsureVisit(e)
         \/ \E s \in Slots : ReconnectStep(s)
         \/ \E w \in Workers : DialBroken(w)
         \/ KeepAliveBroken
         \/ CloseSlot
         \/ \E n \in Sessions : TransportLost(n)
         \/ UNCHANGED ReconnectVars
  <1> USE DEF ReconnectVars, slotVars, goVars
  <1>1. CASE TunnelCancel \/ EnsureWindowEnds \/ TripBreaker \/ RouteTick
    BY <1>1 DEF TunnelCancel, EnsureWindowEnds, TripBreaker, RouteTick
  <1>2. ASSUME NEW e \in Ensures, EnsureStore(e) PROVE UNCHANGED ReconnectVars
    BY <1>2 DEF EnsureStore
  <1>3. ASSUME NEW s \in Slots, BackoffWake(s) PROVE UNCHANGED ReconnectVars
    BY <1>3 DEF BackoffWake
  <1>4. ASSUME NEW w \in Workers,
               \/ CheckoutScan(w) \/ CheckoutTake(w) \/ DialMiss(w)
               \/ DialEnd(w) \/ StreamClose(w)
        PROVE  UNCHANGED ReconnectVars
    BY <1>4 DEF CheckoutScan, CheckoutTake, DialMiss, DialEnd, DialOK, DialFail,
                StreamClose
  <1>5. CASE KeepAliveStart \/ KeepAliveEmpty \/ KeepAliveLive \/ KeepAliveDone
    BY <1>5 DEF KeepAliveStart, KeepAliveEmpty, KeepAliveLive, KeepAliveDone
  <1>6. CASE KeepAliveError \/ KeepAliveEnd \/ CloseBegin
    BY <1>6 DEF KeepAliveError, KeepAliveEnd, CloseBegin
  <1>7. CASE UNCHANGED vars
    BY <1>7 DEF vars
  <1> HIDE DEF ReconnectVars
  <1>8. QED
    BY <1>1, <1>2, <1>3, <1>4, <1>5, <1>6, <1>7
    DEF Next, EnsureStep, WorkerStep, KeepAliveStep, MgrStep

\* What markBroken does to a slot, in the terms of the invariants.
LEMMA MarkBrokenSessions ==
  ASSUME SessionInv, NEW s \in Slots, MarkBroken(s), UNCHANGED authing
  PROVE  (OneReconnect /\ EmptyWhileReconnecting /\ OpenSessionsOwned)'
  <1> USE DEF SessionInv, TypeOK, SlotTypes, GoTypes, MarkBroken, Shut, Respawn
  <1>1. OneReconnect'
    BY DEF OneReconnect
  <1>2. EmptyWhileReconnecting'
    BY DEF EmptyWhileReconnecting
  <1>3. OpenSessionsOwned'
    BY DEF OpenSessionsOwned
  <1>4. QED
    BY <1>1, <1>2, <1>3

LEMMA InitSessionInv == Init => SessionInv
  <1> SUFFICES ASSUME Init PROVE SessionInv
    OBVIOUS
  <1>1. OneReconnect
    <2> SUFFICES ASSUME NEW s \in Slots
                 PROVE  spawned[s] + authing[s] = IF reconnecting[s] THEN 1 ELSE 0
      BY DEF OneReconnect
    <2>1. authing[s] = 0 /\ spawned[s] = IF s = 1 THEN 0 ELSE 1
      BY DEF Init
    <2>2. reconnecting[s] <=> s # 1
      BY Zenon DEF Init
    <2>3. QED
      BY <2>1, <2>2
  <1>2. EmptyWhileReconnecting
    BY DEF Init, EmptyWhileReconnecting
  <1>3. OpenSessionsOwned
    BY FirstSlot DEF Init, OpenSessionsOwned
  <1>4. QED
    BY <1>1, <1>2, <1>3, InitTypeOK DEF SessionInv

LEMMA StepSessionInv == SessionInv /\ [Next]_vars => SessionInv'
  <1> SUFFICES ASSUME SessionInv, [Next]_vars
               PROVE (OneReconnect /\ EmptyWhileReconnecting /\ OpenSessionsOwned)'
    BY StepTypeOK DEF SessionInv
  <1> USE DEF SessionInv, TypeOK, SlotTypes, GoTypes
  <1>1. ASSUME NEW e \in Ensures, EnsureVisit(e)
        PROVE (OneReconnect /\ EmptyWhileReconnecting /\ OpenSessionsOwned)'
    <2>1. OneReconnect'
      <3> DEFINE s == ensure[e]
      <3>1. s \in Slots /\ UNCHANGED authing
        BY <1>1 DEF EnsureVisit
      <3>2. CASE Need(s)
        <4>1. ~reconnecting[s]
          BY <3>2 DEF Need
        <4>2. /\ reconnecting' = [reconnecting EXCEPT ![s] = TRUE]
              /\ spawned' = [spawned EXCEPT ![s] = @ + 1]
          BY <1>1, <3>1, <3>2 DEF EnsureVisit
        <4>3. QED
          BY <3>1, <4>1, <4>2 DEF OneReconnect
      <3>3. CASE ~Need(s)
        <4>1. UNCHANGED <<reconnecting, spawned>>
          BY <1>1, <3>1, <3>3 DEF EnsureVisit
        <4>2. QED
          BY <3>1, <4>1 DEF OneReconnect
      <3>4. QED
        BY <3>2, <3>3
    <2>2. EmptyWhileReconnecting'
      BY <1>1 DEF EnsureVisit, Need, EmptyWhileReconnecting
    <2>3. OpenSessionsOwned'
      BY <1>1 DEF EnsureVisit, OpenSessionsOwned
    <2>4. QED
      BY <2>1, <2>2, <2>3
  <1>2. ASSUME NEW s \in Slots, ReconnectAbandon(s)
        PROVE (OneReconnect /\ EmptyWhileReconnecting /\ OpenSessionsOwned)'
    BY <1>2 DEF ReconnectAbandon, OneReconnect, EmptyWhileReconnecting,
                OpenSessionsOwned
  <1>3. ASSUME NEW s \in Slots, ReconnectStart(s)
        PROVE (OneReconnect /\ EmptyWhileReconnecting /\ OpenSessionsOwned)'
    BY <1>3 DEF ReconnectStart, slotVars, OneReconnect, EmptyWhileReconnecting,
                OpenSessionsOwned
  <1>4. ASSUME NEW s \in Slots, AuthOK(s)
        PROVE (OneReconnect /\ EmptyWhileReconnecting /\ OpenSessionsOwned)'
    \* The goroutine that ends is the slot's only one, and the slot is empty.
    <2>1. reconnecting[s] /\ client[s] = Nil
      BY <1>4 DEF AuthOK, OneReconnect, EmptyWhileReconnecting
    <2>2. OneReconnect'
      BY <1>4, <2>1 DEF AuthOK, OneReconnect
    <2>3. EmptyWhileReconnecting'
      BY <1>4 DEF AuthOK, EmptyWhileReconnecting
    <2>4. OpenSessionsOwned'
      BY <1>4, <2>1, FirstSlot DEF AuthOK, Unused, OpenSessionsOwned
    <2>5. QED
      BY <2>2, <2>3, <2>4
  <1>5. ASSUME NEW s \in Slots, AuthFail(s)
        PROVE (OneReconnect /\ EmptyWhileReconnecting /\ OpenSessionsOwned)'
    BY <1>5 DEF AuthFail, OneReconnect, EmptyWhileReconnecting, OpenSessionsOwned
  <1>6. ASSUME NEW w \in Workers, DialBroken(w)
        PROVE (OneReconnect /\ EmptyWhileReconnecting /\ OpenSessionsOwned)'
    <2>1. wslot[w] \in Slots /\ MarkBroken(wslot[w]) /\ UNCHANGED authing
      BY <1>6 DEF DialBroken, WorkerTypes
    <2>2. QED
      BY <2>1, MarkBrokenSessions
  <1>7. CASE KeepAliveBroken
    <2>1. mslot \in Slots /\ MarkBroken(mslot) /\ UNCHANGED authing
      BY <1>7 DEF KeepAliveBroken, ManagerTypes
    <2>2. QED
      BY <2>1, MarkBrokenSessions
  <1>8. CASE CloseSlot
    BY <1>8 DEF CloseSlot, Shut, goVars, OneReconnect, EmptyWhileReconnecting,
                OpenSessionsOwned
  <1>9. ASSUME NEW n \in Sessions, TransportLost(n)
        PROVE (OneReconnect /\ EmptyWhileReconnecting /\ OpenSessionsOwned)'
    BY <1>9 DEF TransportLost, slotVars, goVars, OneReconnect,
                EmptyWhileReconnecting, OpenSessionsOwned
  <1>10. CASE UNCHANGED ReconnectVars
    BY <1>10 DEF ReconnectVars, OneReconnect, EmptyWhileReconnecting,
                 OpenSessionsOwned
  <1> HIDE DEF SessionInv
  <1>11. QED
    BY <1>1, <1>2, <1>3, <1>4, <1>5, <1>6, <1>7, <1>8, <1>9, <1>10,
       ReconnectFrame
    DEF ReconnectStep, AuthEnd

LEMMA SessionInvariant == Spec => []SessionInv
  <1>1. QED
    BY InitSessionInv, StepSessionInv, PTL DEF Spec

\* A slot has exactly one reconnectSlot goroutine while its flag is set and
\* none while it is not, for pools of any size.
THEOREM OneReconnectHolds == Spec => []OneReconnect
  <1>1. SessionInv => OneReconnect
    BY DEF SessionInv
  <1>2. QED
    BY <1>1, SessionInvariant, PTL

\* A slot under reconnection is empty.
THEOREM EmptyWhileReconnectingHolds == Spec => []EmptyWhileReconnecting
  <1>1. SessionInv => EmptyWhileReconnecting
    BY DEF SessionInv
  <1>2. QED
    BY <1>1, SessionInvariant, PTL

\* No open session is out of the reach of Close and markBroken.
THEOREM OpenSessionsOwnedHolds == Spec => []OpenSessionsOwned
  <1>1. SessionInv => OpenSessionsOwned
    BY DEF SessionInv
  <1>2. QED
    BY <1>1, SessionInvariant, PTL

-----------------------------------------------------------------------------
(* The pool implements the ledger of its sessions.                         *)

OpenNow == {n \in Sessions : link[n] # "closed"}

LEMMA ShutGivesUp ==
  ASSUME SessionInv, NEW s \in Slots, Shut(s)
  PROVE  Ledger!GiveUp(s) \/ UNCHANGED <<client, OpenNow>>
  <1> USE DEF SessionInv, TypeOK, SlotTypes, Shut
  <1>1. CASE client[s] = Nil
    <2>1. client' = client
      BY <1>1
    <2>2. link' = link
      BY <1>1, FirstSlot
    <2>3. QED
      BY <2>1, <2>2 DEF OpenNow
  <1>2. CASE client[s] # Nil
    <2>1. OpenNow' = OpenNow \ {client[s]}
      BY <1>2 DEF OpenNow
    <2>2. QED
      BY <1>2, <2>1 DEF Ledger!GiveUp, OpenNow
  <1>3. QED
    BY <1>1, <1>2

LEMMA LedgerInit == Init => Ledger!Init
  <1> SUFFICES ASSUME Init PROVE Ledger!Init
    OBVIOUS
  <1>1. client \in [Slots -> Sessions \cup {Nil}]
    BY InitTypeOK DEF TypeOK, SlotTypes
  <1>2. \A s \in Slots : client[s] = IF s = 1 THEN 1 ELSE Nil
    BY DEF Init
  <1>3. OpenNow = {1}
    BY FirstSlot DEF Init, OpenNow
  <1>4. {client[s] : s \in Slots} \ {Nil} = {1}
    BY <1>2, FirstSlot
  <1>5. QED
    BY <1>1, <1>2, <1>3, <1>4 DEF Ledger!Init, OpenNow

LEMMA LedgerStep ==
  SessionInv /\ [Next]_vars => [Ledger!Next]_<<client, OpenNow>>
  <1> SUFFICES ASSUME SessionInv, [Next]_vars
               PROVE  Ledger!Next \/ UNCHANGED <<client, OpenNow>>
    OBVIOUS
  <1> USE DEF SessionInv, TypeOK, SlotTypes, GoTypes
  <1>1. ASSUME NEW e \in Ensures, EnsureVisit(e)
        PROVE  UNCHANGED <<client, OpenNow>>
    BY <1>1 DEF EnsureVisit, OpenNow
  <1>2. ASSUME NEW s \in Slots,
               ReconnectAbandon(s) \/ ReconnectStart(s) \/ AuthFail(s)
        PROVE  UNCHANGED <<client, OpenNow>>
    BY <1>2 DEF ReconnectAbandon, ReconnectStart, AuthFail, slotVars, OpenNow
  <1>3. ASSUME NEW s \in Slots, AuthOK(s) PROVE Ledger!Next
    <2>1. client[s] = Nil
      BY <1>3 DEF AuthOK, OneReconnect, EmptyWhileReconnecting
    <2>2. PICK n \in Unused : /\ client' = [client EXCEPT ![s] = n]
                              /\ link' = [link EXCEPT ![n] = "up"]
      BY <1>3 DEF AuthOK
    <2>3. n \in Sessions /\ n \notin OpenNow
      BY <2>2 DEF Unused, OpenNow
    <2>4. OpenNow' = OpenNow \cup {n}
      BY <2>2, <2>3 DEF OpenNow
    <2>5. Ledger!Acquire(s, n)
      BY <2>1, <2>2, <2>3, <2>4 DEF Ledger!Acquire, OpenNow
    <2>6. QED
      BY <2>3, <2>5 DEF Ledger!Next
  <1>4. ASSUME NEW w \in Workers, DialBroken(w)
        PROVE  Ledger!Next \/ UNCHANGED <<client, OpenNow>>
    <2>1. wslot[w] \in Slots /\ Shut(wslot[w])
      BY <1>4 DEF DialBroken, MarkBroken, WorkerTypes
    <2>2. QED
      BY <2>1, ShutGivesUp DEF Ledger!Next
  <1>5. CASE KeepAliveBroken
    <2>1. mslot \in Slots /\ Shut(mslot)
      BY <1>5 DEF KeepAliveBroken, MarkBroken, ManagerTypes
    <2>2. QED
      BY <2>1, ShutGivesUp DEF Ledger!Next
  <1>6. CASE CloseSlot
    <2>1. mslot \in Slots /\ Shut(mslot)
      BY <1>6 DEF CloseSlot, ManagerTypes
    <2>2. QED
      BY <2>1, ShutGivesUp DEF Ledger!Next
  <1>7. ASSUME NEW n \in Sessions, TransportLost(n)
        PROVE  UNCHANGED <<client, OpenNow>>
    BY <1>7 DEF TransportLost, slotVars, OpenNow
  <1>8. CASE UNCHANGED ReconnectVars
    BY <1>8 DEF ReconnectVars, OpenNow
  <1> HIDE DEF SessionInv
  <1>9. QED
    BY <1>1, <1>2, <1>3, <1>4, <1>5, <1>6, <1>7, <1>8, ReconnectFrame
    DEF ReconnectStep, AuthEnd

\* Every behaviour of the pool is a behaviour of the ledger: a slot takes a
\* session only when it holds none, and gives it up exactly by closing it.
THEOREM PoolKeepsLedger == Spec => LedgerKept
  <1>1. Init => Ledger!Init
    BY LedgerInit
  <1>2. SessionInv /\ [Next]_vars => [Ledger!Next]_<<client, OpenNow>>
    BY LedgerStep
  <1>3. QED
    BY <1>1, <1>2, SessionInvariant, PTL
    DEF Spec, LedgerKept, Ledger!Spec, OpenNow

-----------------------------------------------------------------------------
(* Streams.                                                                *)

StreamVars == <<streams, wpc, wslot>>

LEMMA StreamFrame ==
  ASSUME [Next]_vars
  PROVE  \/ \E s \in Slots : AuthOK(s)
         \/ \E w \in Workers : WorkerStep(w)
         \/ KeepAliveBroken
         \/ CloseSlot
         \/ UNCHANGED StreamVars
  <1> USE DEF StreamVars, slotVars, wrkVars
  <1>1. CASE TunnelCancel \/ EnsureWindowEnds \/ TripBreaker \/ RouteTick
    BY <1>1 DEF TunnelCancel, EnsureWindowEnds, TripBreaker, RouteTick
  <1>2. ASSUME NEW e \in Ensures, EnsureStep(e) PROVE UNCHANGED StreamVars
    BY <1>2 DEF EnsureStep, EnsureStore, EnsureVisit
  <1>3. ASSUME NEW s \in Slots,
               \/ BackoffWake(s) \/ ReconnectAbandon(s)
               \/ ReconnectStart(s) \/ AuthFail(s)
        PROVE  UNCHANGED StreamVars
    BY <1>3 DEF BackoffWake, ReconnectAbandon, ReconnectStart, AuthFail
  <1>4. ASSUME NEW n \in Sessions, TransportLost(n) PROVE UNCHANGED StreamVars
    BY <1>4 DEF TransportLost
  <1>5. CASE KeepAliveStart \/ KeepAliveEmpty \/ KeepAliveLive \/ KeepAliveDone
    BY <1>5 DEF KeepAliveStart, KeepAliveEmpty, KeepAliveLive, KeepAliveDone
  <1>6. CASE KeepAliveError \/ KeepAliveEnd \/ CloseBegin
    BY <1>6 DEF KeepAliveError, KeepAliveEnd, CloseBegin
  <1>7. CASE UNCHANGED vars
    BY <1>7 DEF vars
  <1> HIDE DEF StreamVars
  <1>8. QED
    BY <1>1, <1>2, <1>3, <1>4, <1>5, <1>6, <1>7
    DEF Next, ReconnectStep, AuthEnd, KeepAliveStep, MgrStep

LEMMA HoldersFinite ==
  ASSUME NEW s \in Slots
  PROVE  /\ IsFiniteSet(Holders(s)) /\ Cardinality(Holders(s)) \in Nat
         /\ IsFiniteSet(Holders(s)') /\ Cardinality(Holders(s)') \in Nat
  <1>1. Holders(s) \in SUBSET Workers /\ Holders(s)' \in SUBSET Workers
    BY DEF Holders
  <1>2. QED
    BY <1>1, WorkersAssumption, FS_Subset, FS_CardinalityType

\* A slot whose counter is reset, under whatever streams there are.
LEMMA ResetBounded ==
  ASSUME TypeOK, StreamsHeld, NEW s \in Slots,
         streams' = [streams EXCEPT ![s] = 0],
         \A t \in Slots : Holders(t)' = Holders(t)
  PROVE  StreamsHeld'
  BY HoldersFinite DEF TypeOK, SlotTypes, StreamsHeld

\* A worker that holds slot s lets it go and releases it.
LEMMA ReleaseBounded ==
  ASSUME TypeOK, StreamsHeld, NEW w \in Workers, NEW s \in Slots,
         w \in Holders(s), Release(s),
         \A t \in Slots : Holders(t)' = Holders(t) \ {w}
  PROVE  StreamsHeld'
  <1> SUFFICES ASSUME NEW t \in Slots
               PROVE  streams'[t] <= Cardinality(Holders(t)')
    BY DEF StreamsHeld
  <1>1. streams[t] \in Nat /\ streams[t] <= Cardinality(Holders(t))
    BY DEF TypeOK, SlotTypes, StreamsHeld
  <1>2. CASE t = s
    <2>1. Cardinality(Holders(s)') = Cardinality(Holders(s)) - 1
      BY HoldersFinite, FS_RemoveElement
    <2>2. streams'[s] = IF streams[s] > 0 THEN streams[s] - 1 ELSE streams[s]
      BY DEF TypeOK, SlotTypes, Release
    <2>3. QED
      BY <1>1, <1>2, <2>1, <2>2, HoldersFinite
  <1>3. CASE t # s
    <2>1. w \notin Holders(t)
      BY <1>3 DEF Holders
    <2>2. Holders(t)' = Holders(t)
      BY <2>1
    <2>3. streams'[t] = streams[t]
      BY <1>3 DEF TypeOK, SlotTypes, Release
    <2>4. QED
      BY <1>1, <2>2, <2>3
  <1>4. QED
    BY <1>2, <1>3

LEMMA LeaveHolders ==
  ASSUME TypeOK, NEW w \in Workers, NEW pc, pc \notin {"dialing", "open"},
         wpc' = [wpc EXCEPT ![w] = pc],
         \A v \in Workers \ {w} : wslot'[v] = wslot[v]
  PROVE  \A t \in Slots : Holders(t)' = Holders(t) \ {w}
  BY DEF TypeOK, WorkerTypes, Holders

LEMMA StepStreamsHeld ==
  TypeOK /\ StreamsHeld /\ [Next]_vars => StreamsHeld'
  <1> SUFFICES ASSUME TypeOK, StreamsHeld, [Next]_vars PROVE StreamsHeld'
    OBVIOUS
  <1> USE DEF TypeOK, SlotTypes, WorkerTypes
  <1>1. ASSUME NEW s \in Slots, AuthOK(s) PROVE StreamsHeld'
    <2>1. \A t \in Slots : Holders(t)' = Holders(t)
      BY <1>1 DEF AuthOK, wrkVars, Holders
    <2>2. QED
      BY <1>1, <2>1, ResetBounded DEF AuthOK
  <1>2. ASSUME NEW w \in Workers, CheckoutScan(w) PROVE StreamsHeld'
    <2>1. wpc[w] = "idle" /\ wpc'[w] \in {"missed", "picked"}
      BY <1>2 DEF CheckoutScan, Goto
    <2>2. \A v \in Workers \ {w} : wpc'[v] = wpc[v] /\ wslot'[v] = wslot[v]
      BY <1>2 DEF CheckoutScan, Goto
    <2>3. \A t \in Slots : Holders(t)' = Holders(t)
      BY <2>1, <2>2 DEF Holders
    <2>4. QED
      BY <1>2, <2>3 DEF CheckoutScan, slotVars, StreamsHeld
  <1>3. ASSUME NEW w \in Workers, CheckoutTake(w) PROVE StreamsHeld'
    <2> DEFINE s == wslot[w]
    <2>1. wpc[w] = "picked" /\ s \in Slots
      BY <1>3 DEF CheckoutTake
    <2>2. CASE Healthy(s)
      <3>1. /\ streams' = [streams EXCEPT ![s] = @ + 1]
            /\ wpc' = [wpc EXCEPT ![w] = "dialing"]
            /\ wslot' = wslot
        BY <1>3, <2>2 DEF CheckoutTake, Goto
      <3>2. Holders(s)' = Holders(s) \cup {w} /\ w \notin Holders(s)
        BY <2>1, <3>1 DEF Holders
      <3>3. \A t \in Slots \ {s} : Holders(t)' = Holders(t)
        BY <2>1, <3>1 DEF Holders
      <3>4. Cardinality(Holders(s)') = Cardinality(Holders(s)) + 1
        BY <2>1, <3>2, HoldersFinite, FS_AddElement
      <3>5. QED
        BY <2>1, <3>1, <3>3, <3>4, HoldersFinite DEF StreamsHeld
    <2>3. CASE ~Healthy(s)
      <3>1. Leave(w, "missed") /\ UNCHANGED streams
        BY <1>3, <2>3 DEF CheckoutTake
      <3>2. \A t \in Slots : Holders(t)' = Holders(t) \ {w}
        BY <3>1, LeaveHolders DEF Leave, Goto
      <3>3. \A t \in Slots : Holders(t)' = Holders(t)
        BY <2>1, <3>2 DEF Holders
      <3>4. QED
        BY <3>1, <3>3 DEF StreamsHeld
    <2>4. QED
      BY <2>2, <2>3
  <1>4. ASSUME NEW w \in Workers, DialMiss(w) PROVE StreamsHeld'
    <2>1. \A t \in Slots : Holders(t)' = Holders(t) \ {w}
      BY <1>4, LeaveHolders DEF DialMiss, Leave, Goto
    <2>2. \A t \in Slots : Holders(t)' = Holders(t)
      BY <1>4, <2>1 DEF DialMiss, Holders
    <2>3. QED
      BY <1>4, <2>2 DEF DialMiss, slotVars, StreamsHeld
  <1>5. ASSUME NEW w \in Workers, DialOK(w) PROVE StreamsHeld'
    <2>1. \A t \in Slots : Holders(t)' = Holders(t)
      BY <1>5 DEF DialOK, Goto, Holders
    <2>2. QED
      BY <1>5, <2>1 DEF DialOK, slotVars, StreamsHeld
  <1>6. ASSUME NEW w \in Workers, DialFail(w) PROVE StreamsHeld'
    <2>1. w \in Holders(wslot[w]) /\ Release(wslot[w])
      BY <1>6 DEF DialFail, Holders
    <2>2. \A t \in Slots : Holders(t)' = Holders(t) \ {w}
      BY <1>6, LeaveHolders DEF DialFail, Leave, Goto
    <2>3. QED
      BY <2>1, <2>2, ReleaseBounded
  <1>7. ASSUME NEW w \in Workers, DialBroken(w) PROVE StreamsHeld'
    <2>1. \A t \in Slots : Holders(t)' = Holders(t) \ {w}
      BY <1>7, LeaveHolders DEF DialBroken, Leave, Goto
    <2>2. \A t \in Slots : Holders(t)' = Holders(t)
      BY <1>7, <2>1 DEF DialBroken, Holders
    <2>3. QED
      BY <1>7, <2>2, ResetBounded DEF DialBroken, MarkBroken
  <1>8. ASSUME NEW w \in Workers, StreamClose(w) PROVE StreamsHeld'
    <2>1. \A t \in Slots : Holders(t)' = Holders(t) \ {w}
      BY <1>8, LeaveHolders DEF StreamClose, Leave, Goto
    <2>2. CASE wpc[w] = "open"
      <3>1. w \in Holders(wslot[w]) /\ Release(wslot[w])
        BY <1>8, <2>2 DEF StreamClose, Holders
      <3>2. QED
        BY <2>1, <3>1, ReleaseBounded
    <2>3. CASE wpc[w] # "open"
      <3>1. \A t \in Slots : Holders(t)' = Holders(t)
        BY <1>8, <2>1, <2>3 DEF StreamClose, Holders
      <3>2. QED
        BY <1>8, <2>3, <3>1 DEF StreamClose, StreamsHeld
    <2>4. QED
      BY <2>2, <2>3
  <1>9. CASE KeepAliveBroken
    <2>1. \A t \in Slots : Holders(t)' = Holders(t)
      BY <1>9 DEF KeepAliveBroken, wrkVars, Holders
    <2>2. QED
      BY <1>9, <2>1, ResetBounded DEF KeepAliveBroken, MarkBroken, ManagerTypes
  <1>10. CASE CloseSlot
    <2>1. \A t \in Slots : Holders(t)' = Holders(t)
      BY <1>10 DEF CloseSlot, wrkVars, Holders
    <2>2. QED
      BY <1>10, <2>1, ResetBounded DEF CloseSlot, ManagerTypes
  <1>11. CASE UNCHANGED StreamVars
    BY <1>11 DEF StreamVars, StreamsHeld, Holders
  <1> HIDE DEF TypeOK
  <1>12. QED
    BY <1>1, <1>2, <1>3, <1>4, <1>5, <1>6, <1>7, <1>8, <1>9, <1>10, <1>11,
       StreamFrame
    DEF WorkerStep, DialEnd

\* The counter of a slot never exceeds the streams dialled or open on it.
THEOREM StreamsBoundedHolds == Spec => []StreamsBounded
  <1>1. Init => StreamsHeld
    BY HoldersFinite DEF Init, StreamsHeld
  <1>2. TypeOK /\ StreamsHeld /\ [Next]_vars => StreamsHeld'
    BY StepStreamsHeld
  <1>3. TypeOK /\ StreamsHeld => StreamsBounded
    BY DEF TypeOK, SlotTypes, StreamsBounded
  <1>4. QED
    BY <1>1, <1>2, <1>3, Typing, PTL DEF Spec

-----------------------------------------------------------------------------
(* The counters, as PooledStreams has them.                                *)

HoldsNow == [w \in Workers |->
               IF wpc[w] \in {"dialing", "open"} THEN wslot[w] ELSE Nil]
ClosingNow == {w \in Workers : wpc[w] = "closedOnce"}

\* Where the other workers are does not change.
OthersStay(w) == \A v \in Workers \ {w} : wpc'[v] = wpc[v] /\ wslot'[v] = wslot[v]

LEMMA LeaveStays ==
  ASSUME TypeOK, NEW w \in Workers, NEW pc, Leave(w, pc)
  PROVE  OthersStay(w) /\ wpc'[w] = pc
  BY DEF TypeOK, WorkerTypes, Leave, Goto, OthersStay

\* A worker that has no stream before nor after a step.
LEMMA NoStream ==
  ASSUME NEW w \in Workers, OthersStay(w),
         wpc[w] \notin {"dialing", "open", "closedOnce"},
         wpc'[w] \notin {"dialing", "open", "closedOnce"}
  PROVE  UNCHANGED <<HoldsNow, ClosingNow>>
  <1>1. UNCHANGED HoldsNow
    BY DEF OthersStay, HoldsNow
  <1>2. UNCHANGED ClosingNow
    BY DEF OthersStay, ClosingNow
  <1>3. QED
    BY <1>1, <1>2

LEMMA ResetIs ==
  ASSUME NEW s \in Slots, streams' = [streams EXCEPT ![s] = 0],
         UNCHANGED <<HoldsNow, ClosingNow>>
  PROVE  Streams!Next
  <1>1. Streams!Reset(s)
    BY DEF Streams!Reset, HoldsNow, ClosingNow
  <1>2. QED
    BY <1>1 DEF Streams!Next

\* A worker gives its stream back, to close it once more or not.
LEMMA GiveBackIs ==
  ASSUME TypeOK, NEW w \in Workers, OthersStay(w), Release(wslot[w]),
         wpc[w] \in {"dialing", "open"},
         wpc'[w] \notin {"dialing", "open"}
  PROVE  Streams!Next
  <1>1. wslot[w] \in Slots /\ wslot[w] # Nil
    BY FirstSlot DEF TypeOK, WorkerTypes, Slots, Nil
  <1>2. HoldsNow[w] = wslot[w]
    BY DEF HoldsNow
  <1>3. HoldsNow' = [HoldsNow EXCEPT ![w] = Nil]
    BY DEF HoldsNow, OthersStay
  <1>4. ClosingNow' \in {ClosingNow, ClosingNow \cup {w}}
    <2>1. CASE wpc'[w] = "closedOnce"
      <3>1. ClosingNow' = ClosingNow \cup {w}
        BY <2>1 DEF ClosingNow, OthersStay
      <3>2. QED
        BY <3>1
    <2>2. CASE wpc'[w] # "closedOnce"
      <3>1. ClosingNow' = ClosingNow
        BY <2>2 DEF ClosingNow, OthersStay
      <3>2. QED
        BY <3>1
    <2>3. QED
      BY <2>1, <2>2
  <1>5. streams' = [streams EXCEPT ![HoldsNow[w]] = IF @ > 0 THEN @ - 1 ELSE @]
    BY <1>2 DEF Release
  <1>6. Streams!GiveBack(w)
    BY <1>1, <1>2, <1>3, <1>4, <1>5 DEF Streams!GiveBack, HoldsNow, ClosingNow
  <1>7. QED
    BY <1>6 DEF Streams!Next

LEMMA TakeIs ==
  ASSUME TypeOK, NEW w \in Workers, CheckoutTake(w)
  PROVE  Streams!Next \/ UNCHANGED <<HoldsNow, ClosingNow, streams>>
  <1>1. wpc[w] = "picked" /\ wslot[w] \in Slots
    BY DEF TypeOK, WorkerTypes, CheckoutTake
  <1>2. CASE Healthy(wslot[w])
    <2>1. /\ streams' = [streams EXCEPT ![wslot[w]] = @ + 1]
          /\ wpc' = [wpc EXCEPT ![w] = "dialing"]
          /\ wslot' = wslot
      BY <1>2 DEF CheckoutTake, Goto
    <2>2. wpc'[w] = "dialing" /\ OthersStay(w)
      BY <2>1 DEF TypeOK, WorkerTypes, OthersStay
    <2>3. HoldsNow[w] = Nil /\ w \notin ClosingNow
      BY <1>1 DEF HoldsNow, ClosingNow
    <2>4. HoldsNow' = [HoldsNow EXCEPT ![w] = wslot[w]]
      BY <2>1, <2>2 DEF HoldsNow, OthersStay
    <2>5. ClosingNow' = ClosingNow
      BY <1>1, <2>2 DEF ClosingNow, OthersStay
    <2>6. PICK s \in Slots : s = wslot[w]
      BY <1>1
    <2>7. Streams!Take(w, s)
      BY <2>1, <2>3, <2>4, <2>5, <2>6 DEF Streams!Take, HoldsNow, ClosingNow
    <2>8. QED
      BY <2>7 DEF Streams!Next
  <1>3. CASE ~Healthy(wslot[w])
    <2>1. Leave(w, "missed") /\ UNCHANGED streams
      BY <1>3 DEF CheckoutTake
    <2>2. OthersStay(w) /\ wpc'[w] = "missed"
      BY <2>1, LeaveStays
    <2>3. QED
      BY <1>1, <2>1, <2>2, NoStream
  <1>4. QED
    BY <1>2, <1>3

LEMMA StreamsStep ==
  TypeOK /\ [Next]_vars
  => Streams!Next \/ UNCHANGED <<HoldsNow, ClosingNow, streams>>
  <1> SUFFICES ASSUME TypeOK, [Next]_vars
               PROVE  Streams!Next \/ UNCHANGED <<HoldsNow, ClosingNow, streams>>
    OBVIOUS
  <1>1. ASSUME NEW s \in Slots, AuthOK(s) PROVE Streams!Next
    <2>1. UNCHANGED <<HoldsNow, ClosingNow>>
      BY <1>1 DEF AuthOK, wrkVars, HoldsNow, ClosingNow
    <2>2. QED
      BY <1>1, <2>1, ResetIs DEF AuthOK
  <1>2. ASSUME NEW w \in Workers, CheckoutScan(w)
        PROVE  UNCHANGED <<HoldsNow, ClosingNow, streams>>
    <2>1. wpc[w] = "idle" /\ wpc'[w] \in {"missed", "picked"}
      BY <1>2 DEF CheckoutScan, Goto, TypeOK, WorkerTypes
    <2>2. OthersStay(w)
      BY <1>2 DEF CheckoutScan, Goto, TypeOK, WorkerTypes, OthersStay
    <2>3. UNCHANGED streams
      BY <1>2 DEF CheckoutScan, slotVars
    <2>4. QED
      BY <2>1, <2>2, <2>3, NoStream
  <1>3. ASSUME NEW w \in Workers, DialMiss(w)
        PROVE  UNCHANGED <<HoldsNow, ClosingNow, streams>>
    <2>1. wpc[w] = "missed" /\ Leave(w, "idle") /\ UNCHANGED streams
      BY <1>3 DEF DialMiss, slotVars
    <2>2. OthersStay(w) /\ wpc'[w] = "idle"
      BY <2>1, LeaveStays
    <2>3. QED
      BY <2>1, <2>2, NoStream
  <1>4. ASSUME NEW w \in Workers, DialOK(w)
        PROVE  UNCHANGED <<HoldsNow, ClosingNow, streams>>
    <2>1. /\ wpc[w] = "dialing" /\ wpc' = [wpc EXCEPT ![w] = "open"]
          /\ UNCHANGED <<wslot, streams>>
      BY <1>4 DEF DialOK, Goto, slotVars
    <2>2. UNCHANGED HoldsNow
      BY <2>1 DEF HoldsNow, TypeOK, WorkerTypes
    <2>3. UNCHANGED ClosingNow
      BY <2>1 DEF ClosingNow, TypeOK, WorkerTypes
    <2>4. QED
      BY <2>1, <2>2, <2>3
  <1>5. ASSUME NEW w \in Workers, DialFail(w) PROVE Streams!Next
    <2>1. wpc[w] = "dialing" /\ Release(wslot[w])
      BY <1>5 DEF DialFail
    <2>2. CASE Leave(w, "idle")
      <3>1. OthersStay(w) /\ wpc'[w] = "idle"
        BY <2>2, LeaveStays
      <3>2. QED
        BY <2>1, <3>1, GiveBackIs
    <2>3. CASE Goto(w, "breaking") /\ UNCHANGED wslot
      <3>1. OthersStay(w) /\ wpc'[w] = "breaking"
        BY <2>3 DEF Goto, OthersStay, TypeOK, WorkerTypes
      <3>2. QED
        BY <2>1, <3>1, GiveBackIs
    <2>4. QED
      BY <1>5, <2>2, <2>3 DEF DialFail
  <1>6. ASSUME NEW w \in Workers, DialBroken(w) PROVE Streams!Next
    <2>1. /\ wpc[w] = "breaking" /\ wslot[w] \in Slots /\ Leave(w, "idle")
          /\ streams' = [streams EXCEPT ![wslot[w]] = 0]
      BY <1>6 DEF DialBroken, MarkBroken, TypeOK, WorkerTypes
    <2>2. OthersStay(w) /\ wpc'[w] = "idle"
      BY <2>1, LeaveStays
    <2>3. UNCHANGED <<HoldsNow, ClosingNow>>
      BY <2>1, <2>2, NoStream
    <2>4. QED
      BY <2>1, <2>3, ResetIs
  <1>7. ASSUME NEW w \in Workers, StreamClose(w) PROVE Streams!Next
    <2>1. CASE wpc[w] = "open"
      <3>1. Release(wslot[w]) /\ Leave(w, "closedOnce")
        BY <1>7, <2>1 DEF StreamClose
      <3>2. OthersStay(w) /\ wpc'[w] = "closedOnce"
        BY <3>1, LeaveStays
      <3>3. QED
        BY <2>1, <3>1, <3>2, GiveBackIs
    <2>2. CASE wpc[w] = "closedOnce"
      <3>1. UNCHANGED streams /\ Leave(w, "idle")
        BY <1>7, <2>2 DEF StreamClose
      <3>2. OthersStay(w) /\ wpc'[w] = "idle"
        BY <3>1, LeaveStays
      <3>3. w \in ClosingNow /\ ClosingNow' = ClosingNow \ {w}
        BY <2>2, <3>2 DEF ClosingNow, OthersStay
      <3>4. UNCHANGED HoldsNow
        BY <2>2, <3>2 DEF HoldsNow, OthersStay
      <3>5. Streams!CloseAgain(w)
        BY <3>1, <3>3, <3>4 DEF Streams!CloseAgain, HoldsNow, ClosingNow
      <3>6. QED
        BY <3>5 DEF Streams!Next
    <2>3. QED
      BY <1>7, <2>1, <2>2 DEF StreamClose
  <1>8. CASE KeepAliveBroken
    <2>1. mslot \in Slots /\ streams' = [streams EXCEPT ![mslot] = 0]
      BY <1>8 DEF KeepAliveBroken, MarkBroken, TypeOK, ManagerTypes
    <2>2. UNCHANGED <<HoldsNow, ClosingNow>>
      BY <1>8 DEF KeepAliveBroken, wrkVars, HoldsNow, ClosingNow
    <2>3. QED
      BY <2>1, <2>2, ResetIs
  <1>9. CASE CloseSlot
    <2>1. mslot \in Slots /\ streams' = [streams EXCEPT ![mslot] = 0]
      BY <1>9 DEF CloseSlot, TypeOK, ManagerTypes
    <2>2. UNCHANGED <<HoldsNow, ClosingNow>>
      BY <1>9 DEF CloseSlot, wrkVars, HoldsNow, ClosingNow
    <2>3. QED
      BY <2>1, <2>2, ResetIs
  <1>10. CASE UNCHANGED StreamVars
    BY <1>10 DEF StreamVars, HoldsNow, ClosingNow
  <1>11. QED
    BY <1>1, <1>2, <1>3, <1>4, <1>5, <1>6, <1>7, <1>8, <1>9, <1>10, TakeIs,
       StreamFrame
    DEF WorkerStep, DialEnd

\* However dials, losses, reconnects, scans and Close interleave, a counter
\* goes up and down only with a stream that is taken and first given back, and
\* to zero with the session: the second Close of a stream never reaches it.
THEOREM StreamsCountedHolds == Spec => StreamsCounted
  <1>1. Init => Streams!Init
    <2> SUFFICES ASSUME Init PROVE Streams!Init
      OBVIOUS
    <2>1. \A w \in Workers : wpc[w] = "idle"
      BY DEF Init
    <2>2. streams = [s \in Slots |-> 0]
      BY DEF Init
    <2>3. QED
      BY <2>1, <2>2 DEF Streams!Init
  <1>2. TypeOK /\ [Next]_vars => [Streams!Next]_<<HoldsNow, ClosingNow, streams>>
    BY StreamsStep
  <1>3. QED
    BY <1>1, <1>2, Typing, PTL
    DEF Spec, StreamsCounted, Streams!Spec, HoldsNow, ClosingNow

=============================================================================
