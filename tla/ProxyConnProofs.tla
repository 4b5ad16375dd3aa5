-------------------------- MODULE ProxyConnProofs --------------------------
(***************************************************************************)
(* For any room between the ends, however much they send: the client can   *)
(* read the whole response, and the stream is given back once.             *)
(*                                                                         *)
(* PipeInv is inductive.  Its parts say where the handler is (PhaseInv),   *)
(* what the channel done holds (DoneInv) and where the server's buffers    *)
(* are (WholeInv); each has a lemma with one case for every action.        *)
(***************************************************************************)
EXTENDS ProxyConn, TLAPS

\* Every step keeps the types: no end holds more than was sent.
LEMMA TypeStep ==
    TypeOK /\ WholeInv /\ Next => TypeOK'
<1> SUFFICES ASSUME TypeOK, WholeInv, Next
             PROVE  TypeOK'
  OBVIOUS
<1> USE RoomAssumption DEF TypeOK, ends, data, chans, ghosts, WholeInv, Held,
        PumpPc
<1>1. CASE Handshake
  BY <1>1 DEF Handshake
<1>2. CASE Dial
  BY <1>2 DEF Dial
<1>3. CASE Active
  <2>1. fired' = FALSE
    BY <1>3 DEF Active
  <2>2. fired' \in BOOLEAN
    BY <2>1, Zenon
  <2> QED BY <1>3, <2>2 DEF Active
<1>4. CASE FirstDone
  BY <1>4 DEF FirstDone
<1>5. CASE SecondDone
  BY <1>5 DEF SecondDone, CloseBoth, Release
<1>6. CASE GraceEnds
  BY <1>6 DEF GraceEnds, CloseBoth, Release
<1>7. CASE Idle
  <2>1. fired' = FALSE
    BY <1>7 DEF Idle
  <2>2. fired' \in BOOLEAN
    BY <2>1, Zenon
  <2> QED BY <1>7, <2>2 DEF Idle, CloseBoth, Release
<1>8. CASE Return
  BY <1>8 DEF Return, Release
<1>9. CASE Fires
  BY <1>9 DEF Fires
<1>10. CASE UpReads
  BY <1>10 DEF UpReads, Tell
<1>11. CASE UpWrites
  BY <1>11 DEF UpWrites
<1>12. CASE UpEnds
  BY <1>12 DEF UpEnds
<1>13. CASE UpDone
  BY <1>13 DEF UpDone, DoneRoom
<1>14. CASE DownReads
  BY <1>14 DEF DownReads, Tell
<1>15. CASE DownWrites
  BY <1>15 DEF DownWrites
<1>16. CASE DownEnds
  BY <1>16 DEF DownEnds
<1>17. CASE DownDone
  BY <1>17 DEF DownDone, DoneRoom
<1>18. CASE ClientSends
  <2>1. reset' \in BOOLEAN
    <3>1. reset' = reset \/ reset' = TRUE
      BY <1>18, Zenon DEF ClientSends
    <3> QED BY <3>1, Zenon
  <2>2. inUp' \in 0..Room /\ toClient' \in 0..Room
    BY <1>18 DEF ClientSends
  <2> QED BY <1>18, <2>1, <2>2 DEF ClientSends
<1>19. CASE ClientReads
  BY <1>19 DEF ClientReads
<1>20. CASE ClientEnds
  BY <1>20 DEF ClientEnds
<1>21. CASE ServerSends
  BY <1>21 DEF ServerSends
<1>22. CASE ServerReads
  BY <1>22 DEF ServerReads
<1>23. CASE ServerEnds
  BY <1>23 DEF ServerEnds
<1>24. CASE ServerAnswers
  BY <1>24 DEF ServerAnswers
<1> QED
  BY <1>1, <1>2, <1>3, <1>4, <1>5, <1>6, <1>7, <1>8, <1>9, <1>10, <1>11,
     <1>12, <1>13, <1>14, <1>15, <1>16, <1>17, <1>18, <1>19, <1>20, <1>21,
     <1>22, <1>23, <1>24
     DEF Next, Loop, UpPump, DownPump, Peers

\* The stream is open, and not given back, while it is piped.
LEMMA PhaseStep ==
    TypeOK /\ PhaseInv /\ Next => PhaseInv'
<1> SUFFICES ASSUME TypeOK, PhaseInv, Next
             PROVE  PhaseInv'
  OBVIOUS
<1> USE RoomAssumption DEF PhaseInv, ReleasedOnce, TypeOK, ends, data, chans, ghosts
<1>1. CASE Handshake
  BY <1>1 DEF Handshake
<1>2. CASE Dial
  BY <1>2 DEF Dial
<1>3. CASE Active
  BY <1>3 DEF Active
<1>4. CASE FirstDone
  BY <1>4 DEF FirstDone
<1>5. CASE SecondDone
  BY <1>5 DEF SecondDone, CloseBoth, Release
<1>6. CASE GraceEnds
  BY <1>6 DEF GraceEnds, CloseBoth, Release
<1>7. CASE Idle
  BY <1>7 DEF Idle, CloseBoth, Release
<1>8. CASE Return
  BY <1>8 DEF Return, Release
<1>9. CASE Fires
  BY <1>9 DEF Fires
<1>10. CASE UpReads
  BY <1>10 DEF UpReads, Tell
<1>11. CASE UpWrites
  BY <1>11 DEF UpWrites
<1>12. CASE UpEnds
  BY <1>12 DEF UpEnds
<1>13. CASE UpDone
  BY <1>13 DEF UpDone, DoneRoom
<1>14. CASE DownReads
  BY <1>14 DEF DownReads, Tell
<1>15. CASE DownWrites
  BY <1>15 DEF DownWrites
<1>16. CASE DownEnds
  BY <1>16 DEF DownEnds
<1>17. CASE DownDone
  BY <1>17 DEF DownDone, DoneRoom
<1>18. CASE ClientSends
  BY <1>18 DEF ClientSends
<1>19. CASE ClientReads
  BY <1>19 DEF ClientReads
<1>20. CASE ClientEnds
  BY <1>20 DEF ClientEnds
<1>21. CASE ServerSends
  BY <1>21 DEF ServerSends
<1>22. CASE ServerReads
  BY <1>22 DEF ServerReads
<1>23. CASE ServerEnds
  BY <1>23 DEF ServerEnds
<1>24. CASE ServerAnswers
  BY <1>24 DEF ServerAnswers
<1> QED
  BY <1>1, <1>2, <1>3, <1>4, <1>5, <1>6, <1>7, <1>8, <1>9, <1>10, <1>11,
     <1>12, <1>13, <1>14, <1>15, <1>16, <1>17, <1>18, <1>19, <1>20, <1>21,
     <1>22, <1>23, <1>24
     DEF Next, Loop, UpPump, DownPump, Peers

\* No end of a pump is lost or counted twice.
LEMMA DoneStep ==
    TypeOK /\ PhaseInv /\ DoneInv /\ Next => DoneInv'
<1> SUFFICES ASSUME TypeOK, PhaseInv, DoneInv, Next
             PROVE  DoneInv'
  OBVIOUS
<1> USE RoomAssumption DEF DoneInv, Ended, PhaseInv, TypeOK, ends, data, chans, ghosts,
        PumpPc
<1>1. CASE Handshake
  BY <1>1 DEF Handshake
<1>2. CASE Dial
  BY <1>2 DEF Dial
<1>3. CASE Active
  BY <1>3 DEF Active
<1>4. CASE FirstDone
  BY <1>4 DEF FirstDone
<1>5. CASE SecondDone
  BY <1>5 DEF SecondDone, CloseBoth, Release
<1>6. CASE GraceEnds
  BY <1>6 DEF GraceEnds, CloseBoth, Release
<1>7. CASE Idle
  BY <1>7 DEF Idle, CloseBoth, Release
<1>8. CASE Return
  BY <1>8 DEF Return, Release
<1>9. CASE Fires
  BY <1>9 DEF Fires
<1>10. CASE UpReads
  BY <1>10 DEF UpReads, Tell
<1>11. CASE UpWrites
  BY <1>11 DEF UpWrites
<1>12. CASE UpEnds
  BY <1>12 DEF UpEnds
<1>13. CASE UpDone
  BY <1>13 DEF UpDone, DoneRoom
<1>14. CASE DownReads
  BY <1>14 DEF DownReads, Tell
<1>15. CASE DownWrites
  BY <1>15 DEF DownWrites
<1>16. CASE DownEnds
  BY <1>16 DEF DownEnds
<1>17. CASE DownDone
  BY <1>17 DEF DownDone, DoneRoom
<1>18. CASE ClientSends
  BY <1>18 DEF ClientSends
<1>19. CASE ClientReads
  BY <1>19 DEF ClientReads
<1>20. CASE ClientEnds
  BY <1>20 DEF ClientEnds
<1>21. CASE ServerSends
  BY <1>21 DEF ServerSends
<1>22. CASE ServerReads
  BY <1>22 DEF ServerReads
<1>23. CASE ServerEnds
  BY <1>23 DEF ServerEnds
<1>24. CASE ServerAnswers
  BY <1>24 DEF ServerAnswers
<1> QED
  BY <1>1, <1>2, <1>3, <1>4, <1>5, <1>6, <1>7, <1>8, <1>9, <1>10, <1>11,
     <1>12, <1>13, <1>14, <1>15, <1>16, <1>17, <1>18, <1>19, <1>20, <1>21,
     <1>22, <1>23, <1>24
     DEF Next, Loop, UpPump, DownPump, Peers

\* Closing both ends loses what the client has not read only if it resets.
LEMMA CloseKeeps ==
    ASSUME TypeOK, NEW why, CloseBoth(why)
    PROVE  /\ toClient' \in Nat /\ toClient' <= toClient
           /\ ~reset' => toClient' = toClient
<1>1. toClient' \in {toClient, IF inUp > 0 THEN 0 ELSE toClient}
  BY DEF CloseBoth
<1>2. reset' = (inUp > 0)
  BY DEF CloseBoth
<1>3. toClient \in Nat /\ inUp \in Nat
  BY RoomAssumption DEF TypeOK
<1>4. CASE inUp > 0
  <2>1. reset'
    BY <1>2, <1>4, Zenon
  <2>2. toClient' = toClient \/ toClient' = 0
    BY <1>1, <1>4
  <2> QED BY <1>3, <2>1, <2>2
<1>5. CASE ~(inUp > 0)
  <2>1. toClient' = toClient
    BY <1>1, <1>5
  <2> QED BY <1>3, <2>1
<1> QED BY <1>4, <1>5

\* Both ends are closed, the down pump having ended, for no want of time.
LEMMA CloseWhole ==
    ASSUME TypeOK, PhaseInv, WholeInv, pc \in {"pipe", "grace"}, NEW why,
           CloseBoth(why), why \in {"idle", "grace", "both"},
           why = "both" => down = "ended",
           why = "grace" => first = "up" \/ down = "ended"
    PROVE  WholeInv'
<1>1. ~shut
  BY DEF PhaseInv
<1>2. toClient \in Nat /\ inDown \in Nat /\ owed \in Nat
  BY RoomAssumption DEF TypeOK
<1>3. /\ inDown' = inDown /\ owed' = owed /\ down' = down /\ client' = client
      /\ server' = server /\ first' = first /\ how' = why /\ shut'
  BY DEF CloseBoth
<1>4. Held' <= owed' /\ (~reset' => Held' = Held)
  <2>1. toClient' \in Nat /\ toClient' <= toClient
    BY CloseKeeps
  <2>2. Held' <= Held /\ Held \in Nat /\ Held' \in Nat
    <3> DEFINE w == IF down = "writing" THEN 1 ELSE 0
    <3>1. w \in Nat /\ Held = toClient + inDown + w
      BY DEF Held
    <3>2. Held' = toClient' + inDown + w
      BY <1>3 DEF Held
    <3>3. \A c, d, i, v \in Nat :
            d <= c => /\ d + i + v <= c + i + v
                      /\ c + i + v \in Nat /\ d + i + v \in Nat
      OBVIOUS
    <3> HIDE DEF w
    <3>4. /\ toClient' + inDown + w <= toClient + inDown + w
          /\ toClient + inDown + w \in Nat
          /\ toClient' + inDown + w \in Nat
      BY <1>2, <2>1, <3>1, <3>3
    <3> QED BY <3>1, <3>2, <3>4, Zenon
  <2>3. Held <= owed
    BY DEF WholeInv
  <2>4. ASSUME ~reset' PROVE Held' = Held
    <3>1. toClient' = toClient
      BY <2>4, CloseKeeps
    <3> QED BY <1>3, <3>1 DEF Held
  <2> QED BY <1>2, <1>3, <2>2, <2>3, <2>4
<1>5. ASSUME why # "idle", ~(why = "grace" /\ first = "up")
      PROVE  /\ why \in {"both", "grace"} /\ down' = "ended"
             /\ client' # "gone" => Drained' /\ (~reset' => owed' = Held')
  <2>1. down = "ended"
    BY <1>5
  <2>2. client # "gone" => Drained /\ owed = Held
    BY <1>1, <2>1 DEF WholeInv
  <2>3. Drained' <=> Drained
    BY <1>3 DEF Drained
  <2> QED BY <1>3, <1>4, <1>5, <2>1, <2>2, <2>3
<1> QED BY <1>3, <1>4, <1>5 DEF WholeInv

\* No buffer of the server's is lost before both ends are closed.
LEMMA WholeStep ==
    TypeOK /\ PhaseInv /\ DoneInv /\ WholeInv /\ Next => WholeInv'
<1> SUFFICES ASSUME TypeOK, PhaseInv, DoneInv, WholeInv, Next
             PROVE  WholeInv'
  OBVIOUS
<1> USE RoomAssumption DEF WholeInv, Held, Drained, DoneInv, Ended, PhaseInv,
        TypeOK, ends, data, chans, ghosts, PumpPc
<1>1. CASE Handshake
  BY <1>1 DEF Handshake
<1>2. CASE Dial
  BY <1>2 DEF Dial
<1>3. CASE Active
  BY <1>3 DEF Active
<1>4. CASE FirstDone
  BY <1>4 DEF FirstDone
<1>5. CASE SecondDone
  <2>1. done = 1 /\ Ended = 2 /\ down = "ended"
    BY <1>5 DEF SecondDone
  <2> QED BY <1>5, <2>1, CloseWhole DEF SecondDone
<1>6. CASE GraceEnds
  <2>1. first = "up" \/ down = "ended"
    BY <1>6 DEF GraceEnds
  <2> QED BY <1>6, <2>1, CloseWhole DEF GraceEnds
<1>7. CASE Idle
  <2>1. pc = "pipe" /\ CloseBoth("idle")
    BY <1>7 DEF Idle
  <2> QED BY <2>1, CloseWhole
<1>8. CASE Return
  BY <1>8 DEF Return, Release
<1>9. CASE Fires
  BY <1>9 DEF Fires
<1>10. CASE UpReads
  BY <1>10 DEF UpReads, Tell
<1>11. CASE UpWrites
  BY <1>11 DEF UpWrites
<1>12. CASE UpEnds
  BY <1>12 DEF UpEnds
<1>13. CASE UpDone
  BY <1>13 DEF UpDone, DoneRoom
<1>14. CASE DownReads
  BY <1>14 DEF DownReads, Tell
<1>15. CASE DownWrites
  BY <1>15 DEF DownWrites
<1>16. CASE DownEnds
  BY <1>16 DEF DownEnds
<1>17. CASE DownDone
  BY <1>17 DEF DownDone, DoneRoom
<1>18. CASE ClientSends
  BY <1>18 DEF ClientSends
<1>19. CASE ClientReads
  BY <1>19 DEF ClientReads
<1>20. CASE ClientEnds
  BY <1>20 DEF ClientEnds
<1>21. CASE ServerSends
  BY <1>21 DEF ServerSends
<1>22. CASE ServerReads
  BY <1>22 DEF ServerReads
<1>23. CASE ServerEnds
  BY <1>23 DEF ServerEnds
<1>24. CASE ServerAnswers
  BY <1>24 DEF ServerAnswers
<1> QED
  BY <1>1, <1>2, <1>3, <1>4, <1>5, <1>6, <1>7, <1>8, <1>9, <1>10, <1>11,
     <1>12, <1>13, <1>14, <1>15, <1>16, <1>17, <1>18, <1>19, <1>20, <1>21,
     <1>22, <1>23, <1>24
     DEF Next, Loop, UpPump, DownPump, Peers

\* Every state the system reaches satisfies the invariant.
LEMMA Invariance == Spec => []PipeInv
<1>1. Init => PipeInv
  <2> SUFFICES ASSUME Init PROVE PipeInv
    OBVIOUS
  <2> USE RoomAssumption DEF Init
  <2>1. TypeOK
    <3>1. shut \in BOOLEAN /\ fired \in BOOLEAN /\ reset \in BOOLEAN
      BY Zenon
    <3> QED BY <3>1 DEF TypeOK, PumpPc
  <2>2. PhaseInv /\ DoneInv
    BY DEF PhaseInv, ReleasedOnce, DoneInv, Ended
  <2>3. WholeInv
    BY DEF WholeInv, Held, Drained
  <2> QED BY <2>1, <2>2, <2>3 DEF PipeInv
<1>2. PipeInv /\ Next => PipeInv'
  BY TypeStep, PhaseStep, DoneStep, WholeStep DEF PipeInv
<1>3. PipeInv /\ UNCHANGED vars => PipeInv'
  <2> SUFFICES ASSUME PipeInv, UNCHANGED vars PROVE PipeInv'
    OBVIOUS
  <2> USE DEF vars, ends, data, chans, ghosts, PipeInv
  <2>1. TypeOK'
    BY DEF TypeOK
  <2>2. PhaseInv'
    BY DEF PhaseInv, ReleasedOnce
  <2>3. DoneInv'
    BY DEF DoneInv, Ended
  <2>4. WholeInv'
    BY DEF WholeInv, Held, Drained
  <2> QED BY <2>1, <2>2, <2>3, <2>4
<1> QED BY <1>1, <1>2, <1>3, PTL DEF Spec

\* The types hold; in particular neither channel ever holds more than its room.
THEOREM Typing == Spec => []TypeOK
<1>1. PipeInv => TypeOK
  BY DEF PipeInv
<1> QED BY Invariance, <1>1, PTL

\* pipeBoth cuts no response short, however much the server sends and
\* whatever the pumps, the client and the idle timer do.
THEOREM WholeResponseHolds == Spec => []WholeResponse
<1>1. PipeInv => WholeResponse
  <2> SUFFICES ASSUME PipeInv, pc \in {"returning", "ended"},
                      how \in {"both", "grace"},
                      ~(how = "grace" /\ first = "up"), client # "gone", ~reset
               PROVE  owed = toClient
    BY DEF WholeResponse
  <2>1. shut
    BY DEF PipeInv, PhaseInv
  <2>2. Drained /\ owed = Held /\ down = "ended"
    BY <2>1 DEF PipeInv, WholeInv
  <2> QED BY <2>2 DEF Drained, Held, PipeInv, TypeOK
<1> QED BY Invariance, <1>1, PTL

\* The pool's stream is given back exactly once, on every path.
THEOREM ReleasedOnceHolds == Spec => []ReleasedOnce
<1>1. PipeInv => ReleasedOnce
  BY DEF PipeInv, PhaseInv
<1> QED BY Invariance, <1>1, PTL

-----------------------------------------------------------------------------
(* What the pool sees of it.                                               *)

PoolHolds == [u \in {1} |-> IF pc \in {"pipe", "grace"} THEN 1 ELSE 0]
PoolClosing == {u \in {1} : pc = "returning"}
PoolCount == [s \in {1} |-> IF server = "none" THEN 0 ELSE 1 - released]

\* A step at which the handler neither takes nor closes the stream.
LEMMA QuietStep ==
  ASSUME pc' = pc \/ {pc, pc'} \subseteq {"handshake", "dial", "ended"}
                  \/ {pc, pc'} \subseteq {"pipe", "grace"},
         server' = "none" <=> server = "none",
         released' = released
  PROVE  UNCHANGED <<PoolHolds, PoolClosing, PoolCount>>
<1>1. pc' \in {"pipe", "grace"} <=> pc \in {"pipe", "grace"}
  OBVIOUS
<1>2. pc' = "returning" <=> pc = "returning"
  OBVIOUS
<1>3. UNCHANGED PoolHolds
  BY <1>1 DEF PoolHolds
<1>4. UNCHANGED PoolClosing
  BY <1>2 DEF PoolClosing
<1>5. UNCHANGED PoolCount
  BY DEF PoolCount
<1> QED BY <1>3, <1>4, <1>5

\* The step that closes both ends is the one that gives the stream back.
LEMMA CloseGivesBack ==
  ASSUME PipeInv, NEW why, CloseBoth(why), pc \in {"pipe", "grace"}
  PROVE  Pool!GiveBack(1)
<1>1. server # "none" /\ released = 0
  BY DEF PipeInv, PhaseInv
<1>2. released' = 1 /\ pc' = "returning" /\ server' = server
  BY <1>1 DEF CloseBoth, Release
<1>3. PoolHolds = [u \in {1} |-> 1] /\ PoolHolds' = [u \in {1} |-> 0]
  BY <1>2 DEF PoolHolds
<1>4. PoolClosing = {} /\ PoolClosing' = {1}
  BY <1>2 DEF PoolClosing
<1>5. PoolCount = [s \in {1} |-> 1] /\ PoolCount' = [s \in {1} |-> 0]
  BY <1>1, <1>2 DEF PoolCount
<1>6. /\ PoolHolds[1] # 0
      /\ PoolHolds' = [PoolHolds EXCEPT ![1] = 0]
  BY <1>3
<1>7. PoolCount' = [PoolCount EXCEPT ![1] = IF @ > 0 THEN @ - 1 ELSE @]
  BY <1>5
<1>8. PoolHolds[1] = 1
  BY <1>3
<1> QED BY <1>4, <1>6, <1>7, <1>8
        DEF Pool!GiveBack, PoolHolds, PoolClosing, PoolCount

LEMMA PoolStep ==
  PipeInv /\ [Next]_vars
  => Pool!Next \/ UNCHANGED <<PoolHolds, PoolClosing, PoolCount>>
<1> SUFFICES ASSUME PipeInv, [Next]_vars
             PROVE  Pool!Next \/ UNCHANGED <<PoolHolds, PoolClosing, PoolCount>>
  OBVIOUS
<1>1. CASE Handshake \/ FirstDone
  BY <1>1, QuietStep DEF Handshake, FirstDone, ends
<1>2. CASE Dial
  <2>1. /\ pc = "dial" /\ server = "none" /\ released = 0
        /\ released' = released
    BY <1>2 DEF Dial, PipeInv, PhaseInv
  <2>2. CASE pc' = "ended" /\ UNCHANGED server
    BY <2>1, <2>2, QuietStep
  <2>3. CASE pc' = "pipe" /\ server' = "open"
    <3>1. PoolHolds = [u \in {1} |-> 0] /\ PoolHolds' = [u \in {1} |-> 1]
      BY <2>1, <2>3 DEF PoolHolds
    <3>2. PoolClosing = {} /\ PoolClosing' = {}
      BY <2>1, <2>3 DEF PoolClosing
    <3>3. PoolCount = [s \in {1} |-> 0] /\ PoolCount' = [s \in {1} |-> 1]
      BY <2>1, <2>3 DEF PoolCount
    <3>4. /\ PoolHolds[1] = 0
          /\ PoolHolds' = [PoolHolds EXCEPT ![1] = 1]
          /\ PoolCount' = [PoolCount EXCEPT ![1] = @ + 1]
      BY <3>1, <3>3
    <3>5. Pool!Take(1, 1)
      BY <3>2, <3>4 DEF Pool!Take, PoolHolds, PoolClosing, PoolCount
    <3> QED BY <3>5 DEF Pool!Next
  <2> QED BY <1>2, <2>2, <2>3 DEF Dial
<1>3. CASE Idle \/ SecondDone \/ GraceEnds
  <2>1. /\ pc \in {"pipe", "grace"}
        /\ CloseBoth("idle") \/ CloseBoth("both") \/ CloseBoth("grace")
    BY <1>3 DEF Idle, SecondDone, GraceEnds
  <2>2. Pool!GiveBack(1)
    BY <2>1, CloseGivesBack
  <2> QED BY <2>2 DEF Pool!Next
<1>4. CASE Return
  <2>1. /\ pc = "returning" /\ pc' = "ended" /\ released = 1 /\ released' = 1
        /\ server' = server
    BY <1>4 DEF Return, Release, ends, PipeInv, PhaseInv
  <2>2. PoolClosing = {1} /\ PoolClosing' = {}
    BY <2>1 DEF PoolClosing
  <2>3. UNCHANGED PoolHolds
    BY <2>1 DEF PoolHolds
  <2>4. UNCHANGED PoolCount
    BY <2>1 DEF PoolCount
  <2>5. Pool!CloseAgain(1)
    BY <2>2, <2>3, <2>4
    DEF Pool!CloseAgain, PoolHolds, PoolClosing, PoolCount
  <2> QED BY <2>5 DEF Pool!Next
<1>5. CASE Active \/ Fires
  BY <1>5, QuietStep DEF Active, Fires, ends
<1>6. CASE UpPump \/ DownPump
  <2>1. pc' = pc /\ server' = server /\ released' = released
    BY <1>6 DEF UpPump, UpReads, UpWrites, UpEnds, UpDone, DownPump, DownReads,
                DownWrites, DownEnds, DownDone, ends
  <2> QED BY <2>1, QuietStep
<1>7. CASE ClientSends \/ ClientReads \/ ClientEnds \/ ServerSends \/ ServerReads
  BY <1>7, QuietStep
  DEF ClientSends, ClientReads, ClientEnds, ServerSends, ServerReads, ends
<1>8. CASE ServerEnds \/ ServerAnswers
  BY <1>8, QuietStep DEF ServerEnds, ServerAnswers
<1>9. CASE UNCHANGED vars
  BY <1>9, QuietStep DEF vars, ends
<1> QED BY <1>1, <1>2, <1>3, <1>4, <1>5, <1>6, <1>7, <1>8, <1>9
        DEF Next, Loop, Peers

\* A connection uses the pool as the workers of SSHPool do: it takes at most
\* one stream, whichever way it ends its first close gives the stream back,
\* and the second one (the handler's defer) changes nothing.
THEOREM StreamReturnedHolds == Spec => StreamReturned
<1>1. Init => Pool!Init
  <2> SUFFICES ASSUME Init PROVE Pool!Init
    OBVIOUS
  <2>1. pc = "handshake" /\ server = "none"
    BY DEF Init
  <2> QED BY <2>1 DEF Pool!Init
<1>2. PipeInv /\ [Next]_vars
      => [Pool!Next]_<<PoolHolds, PoolClosing, PoolCount>>
  BY PoolStep
<1> QED BY <1>1, <1>2, Invariance, PTL
        DEF Spec, StreamReturned, Pool!Spec, PoolHolds, PoolClosing, PoolCount

=============================================================================
