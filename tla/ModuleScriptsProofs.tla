------------------------- MODULE ModuleScriptsProofs -------------------------
(***************************************************************************)
(* Proofs about ModuleScripts: as long as the commands of sshcustom.sh     *)
(* come one after the other there is at most one daemon that was not told  *)
(* to end, which the pid file names, and after a stop there is none, and   *)
(* no rule but of one that was ending.                                     *)
(***************************************************************************)
EXTENDS ModuleScripts, FiniteSetTheorems, TLAPS

(***************************************************************************)
(* The order of stop_runtime and net_clean.sh.                             *)
(***************************************************************************)
LEMMA Order ==
  ASSUME NEW c
  PROVE  /\ After(c, "watchdog") = "daemon"
         /\ After(c, "daemon") = "clean"
         /\ After(c, "clean") \in {"check", "end"}
         /\ kind[c] = "stop" => After(c, "clean") = "end"
<1> DEFINE At(l) == CHOOSE i \in 1 .. 3 : Sweep[i] = l
<1>1. Sweep[1] = "watchdog" /\ Sweep[2] = "daemon" /\ Sweep[3] = "clean"
  BY DEF Sweep
<1>2. \A i \in 1 .. 3 : i = 1 \/ i = 2 \/ i = 3
  OBVIOUS
<1>3. At("watchdog") = 1 /\ At("daemon") = 2 /\ At("clean") = 3
  BY <1>1
<1>4. \A l : After(c, l) =
        IF At(l) < 3 THEN Sweep[At(l) + 1]
        ELSE IF kind[c] \in {"start", "resume"} THEN "check" ELSE "end"
  BY DEF After
<1> HIDE DEF At
<1>5. After(c, "watchdog") = "daemon" /\ After(c, "daemon") = "clean"
  BY <1>1, <1>3, <1>4
<1>6. After(c, "clean") =
        IF kind[c] \in {"start", "resume"} THEN "check" ELSE "end"
  BY <1>3, <1>4
<1> QED
  BY <1>5, <1>6

(***************************************************************************)
(* The beginning of a command, and the counters, keep their types.         *)
(***************************************************************************)
LEMMA BegunTypes ==
  ASSUME TypeOK, NEW c \in Commands, NEW k \in Kinds,
         NEW w \in Watchdogs \cup {Nil}, Begun(c, k, w)
  PROVE  /\ kind' \in [Commands -> Kinds]
         /\ caller' \in [Commands -> Watchdogs \cup {Nil}]
         /\ mixed' \in BOOLEAN /\ crossed' \in BOOLEAN
<1>1. mixed' \in BOOLEAN /\ crossed' \in BOOLEAN
  BY Zenon DEF Begun
<1>2. kind' \in [Commands -> Kinds]
  BY DEF Begun, TypeOK
<1>3. caller' \in [Commands -> Watchdogs \cup {Nil}]
  BY DEF Begun, TypeOK
<1> QED
  BY <1>1, <1>2, <1>3

LEMMA AskedTypes ==
  ASSUME TypeOK, NEW k \in Kinds, AskedFor(k)
  PROVE  asked' \in {"start", "stop"} /\ nasked' \in 0 .. MaxAsked
BY ScriptsAssumption DEF AskedFor, TypeOK

(***************************************************************************)
(* Types.                                                                  *)
(***************************************************************************)
LEMMA TypeStep ==
  ASSUME ScriptsInv, [Next]_vars
  PROVE  TypeOK'
<1> USE DEF ScriptsInv
<1>1. ASSUME NEW c \in Commands, StartModule(c)
      PROVE  TypeOK'
  <2>1. "start" \in Kinds
    BY DEF Kinds
  <2>2. Begun(c, "start", Nil) /\ AskedFor("start")
    BY <1>1 DEF StartModule
  <2>3. /\ kind' \in [Commands -> Kinds]
        /\ caller' \in [Commands -> Watchdogs \cup {Nil}]
        /\ mixed' \in BOOLEAN /\ crossed' \in BOOLEAN
        /\ asked' \in {"start", "stop"} /\ nasked' \in 0 .. MaxAsked
    BY <2>1, <2>2, BegunTypes, AskedTypes
  <2> QED
    BY <1>1, <2>3 DEF StartModule, Begun, Goto, TypeOK, system
<1>2. ASSUME NEW c \in Commands, StopModule(c)
      PROVE  TypeOK'
  <2>1. "stop" \in Kinds
    BY DEF Kinds
  <2>2. Begun(c, "stop", Nil) /\ AskedFor("stop")
    BY <1>2 DEF StopModule
  <2>3. /\ kind' \in [Commands -> Kinds]
        /\ caller' \in [Commands -> Watchdogs \cup {Nil}]
        /\ mixed' \in BOOLEAN /\ crossed' \in BOOLEAN
        /\ asked' \in {"start", "stop"} /\ nasked' \in 0 .. MaxAsked
    BY <2>1, <2>2, BegunTypes, AskedTypes
  <2> QED
    BY <1>2, <2>3 DEF StopModule, Begun, Goto, TypeOK, system
<1>3. ASSUME NEW c \in Commands, StartIdle(c)
      PROVE  TypeOK'
  <2>1. "idle" \in Kinds
    BY DEF Kinds
  <2>2. Begun(c, "idle", Nil) /\ AskedFor("idle")
    BY <1>3 DEF StartIdle
  <2>3. /\ kind' \in [Commands -> Kinds]
        /\ caller' \in [Commands -> Watchdogs \cup {Nil}]
        /\ mixed' \in BOOLEAN /\ crossed' \in BOOLEAN
        /\ asked' \in {"start", "stop"} /\ nasked' \in 0 .. MaxAsked
    BY <2>1, <2>2, BegunTypes, AskedTypes
  <2> QED
    BY <1>3, <2>3 DEF StartIdle, Begun, Goto, TypeOK, system
<1>4. ASSUME NEW c \in Commands, NetworkPause(c)
      PROVE  TypeOK'
  <2>1. "pause" \in Kinds
    BY DEF Kinds
  <2>2. Begun(c, "pause", Nil) /\ AskedFor("pause")
    BY <1>4 DEF NetworkPause
  <2>3. /\ kind' \in [Commands -> Kinds]
        /\ caller' \in [Commands -> Watchdogs \cup {Nil}]
        /\ mixed' \in BOOLEAN /\ crossed' \in BOOLEAN
        /\ asked' \in {"start", "stop"} /\ nasked' \in 0 .. MaxAsked
    BY <2>1, <2>2, BegunTypes, AskedTypes
  <2> QED
    BY <1>4, <2>3 DEF NetworkPause, Begun, Goto, TypeOK, system
<1>5. ASSUME NEW c \in Commands, StopWatchdog(c)
      PROVE  TypeOK'
  BY <1>5, Order DEF StopWatchdog, KillWatchdog, Goto, TypeOK, system,
     history
<1>6. ASSUME NEW c \in Commands, StopDaemon(c)
      PROVE  TypeOK'
  BY <1>6, Order DEF StopDaemon, KillNamed, Goto, TypeOK, history
<1>7. ASSUME NEW c \in Commands, NetClean(c)
      PROVE  TypeOK'
  BY <1>7, Order DEF NetClean, Goto, TypeOK, files, history
<1>8. ASSUME NEW c \in Commands, Check(c)
      PROVE  TypeOK'
  BY <1>8 DEF Check, Success, Goto, TypeOK, files, system, history
<1>9. ASSUME NEW c \in Commands, Launch(c)
      PROVE  TypeOK'
  BY <1>9 DEF Launch, Replaced, KillNamed, Goto, TypeOK, history
<1>10. ASSUME NEW c \in Commands, Spawn(c)
      PROVE  TypeOK'
  BY <1>10 DEF Spawn, NewDaemon, Any, Goto, TypeOK, history
<1>11. ASSUME NEW c \in Commands, Await(c)
      PROVE  TypeOK'
  BY <1>11 DEF Await, Success, Failure, Goto, TypeOK, system, history
<1>12. ASSUME NEW c \in Commands, Relieve(c)
      PROVE  TypeOK'
  BY <1>12 DEF Relieve, KillWatchdog, Goto, TypeOK, system, history
<1>13. ASSUME NEW c \in Commands, Guard(c)
      PROVE  TypeOK'
  BY <1>13 DEF Guard, NewWatchdog, Any, Goto, TypeOK, system, history
<1>14. ASSUME NEW c \in Commands, Fail(c)
      PROVE  TypeOK'
  BY <1>14 DEF Fail, Goto, TypeOK, system
<1>15. ASSUME NEW c \in Commands, End(c)
      PROVE  TypeOK'
  BY <1>15 DEF End, Goto, TypeOK, Kinds, files, system, history
<1>16. ASSUME NEW w \in Watchdogs, Announce(w)
      PROVE  TypeOK'
  BY <1>16 DEF Announce, To, TypeOK, system, script, history
<1>17. ASSUME NEW w \in Watchdogs, Leave(w)
      PROVE  TypeOK'
  BY <1>17 DEF Leave, To, TypeOK, system, script, history
<1>18. ASSUME NEW w \in Watchdogs, Notice(w)
      PROVE  TypeOK'
  BY <1>18 DEF Notice, To, TypeOK, system, script, history
<1>19. ASSUME NEW w \in Watchdogs, NoResume(w)
      PROVE  TypeOK'
  BY <1>19 DEF NoResume, TypeOK, files, system, script, history
<1>20. ASSUME NEW w \in Watchdogs, NEW c \in Commands, NetworkResume(w, c)
      PROVE  TypeOK'
  BY <1>20 DEF NetworkResume, Begun, Goto, TypeOK, Kinds, system
<1>21. ASSUME Redirect
      PROVE  TypeOK'
  BY <1>21 DEF Redirect, TypeOK, files, script, history
<1>22. ASSUME DaemonEnds
      PROVE  TypeOK'
  <2>1. nlost' \in 0 .. MaxEvents
    BY <1>22, ScriptsAssumption DEF DaemonEnds, TypeOK
  <2> QED
    BY <1>22, <2>1 DEF DaemonEnds, TypeOK, files, script
<1>23. ASSUME Reboot
      PROVE  TypeOK'
  <2>1. nlost' \in 0 .. MaxEvents
    BY <1>23, ScriptsAssumption DEF Reboot, TypeOK
  <2>2. kind' \in [Commands -> Kinds]
    BY <1>23 DEF Reboot, Kinds
  <2> QED
    BY <1>23, <2>1, <2>2 DEF Reboot, TypeOK, files
<1>25. ASSUME NEW c \in Commands, Missing(c)
      PROVE  TypeOK'
  BY <1>25 DEF Missing, Failure, Goto, TypeOK, files, system, history
<1>26. ASSUME DyingEnds
      PROVE  TypeOK'
  BY <1>26 DEF DyingEnds, TypeOK, files, script, history
<1>24. ASSUME UNCHANGED vars
      PROVE  TypeOK'
  BY <1>24 DEF TypeOK, vars, files, system, script, history
<1> QED
  BY <1>1, <1>2, <1>3, <1>4, <1>5, <1>6, <1>7, <1>8, <1>9, <1>10, <1>11,
     <1>12, <1>13, <1>14, <1>15, <1>16, <1>17, <1>18, <1>19, <1>20, <1>21,
     <1>22, <1>23, <1>24, <1>25, <1>26 DEF Next, Ask, Step, WatchdogStep

(***************************************************************************)
(* One command at a time.                                                  *)
(***************************************************************************)
LEMMA AloneStep ==
  ASSUME ScriptsInv, [Next]_vars
  PROVE  AloneInv'
<1> USE DEF ScriptsInv
<1>1. ASSUME NEW c \in Commands, StartModule(c)
      PROVE  AloneInv'
  BY <1>1 DEF StartModule, Begun, Goto, AloneInv, TypeOK
<1>2. ASSUME NEW c \in Commands, StopModule(c)
      PROVE  AloneInv'
  BY <1>2 DEF StopModule, Begun, Goto, AloneInv, TypeOK
<1>3. ASSUME NEW c \in Commands, StartIdle(c)
      PROVE  AloneInv'
  <2>1. \A d \in Commands \ {c} : pc'[d] = pc[d]
    BY <1>3 DEF StartIdle, Goto, TypeOK
  <2>2. ~mixed' => \A d \in Commands : pc[d] = "off"
    BY <1>3 DEF StartIdle, Begun
  <2> QED
    BY <2>1, <2>2 DEF AloneInv
<1>4. ASSUME NEW c \in Commands, NetworkPause(c)
      PROVE  AloneInv'
  BY <1>4 DEF NetworkPause, Begun, Goto, AloneInv, TypeOK
<1>5. ASSUME NEW c \in Commands, StopWatchdog(c)
      PROVE  AloneInv'
  BY <1>5 DEF StopWatchdog, Goto, AloneInv, history
<1>6. ASSUME NEW c \in Commands, StopDaemon(c)
      PROVE  AloneInv'
  BY <1>6 DEF StopDaemon, Goto, AloneInv, history
<1>7. ASSUME NEW c \in Commands, NetClean(c)
      PROVE  AloneInv'
  BY <1>7 DEF NetClean, Goto, AloneInv, history
<1>8. ASSUME NEW c \in Commands, Check(c)
      PROVE  AloneInv'
  BY <1>8 DEF Check, Goto, AloneInv, TypeOK, history
<1>9. ASSUME NEW c \in Commands, Launch(c)
      PROVE  AloneInv'
  BY <1>9 DEF Launch, Goto, AloneInv, history
<1>10. ASSUME NEW c \in Commands, Spawn(c)
      PROVE  AloneInv'
  BY <1>10 DEF Spawn, Goto, AloneInv, history
<1>11. ASSUME NEW c \in Commands, Await(c)
      PROVE  AloneInv'
  BY <1>11 DEF Await, Goto, AloneInv, TypeOK, history
<1>12. ASSUME NEW c \in Commands, Relieve(c)
      PROVE  AloneInv'
  BY <1>12 DEF Relieve, Goto, AloneInv, history
<1>13. ASSUME NEW c \in Commands, Guard(c)
      PROVE  AloneInv'
  BY <1>13 DEF Guard, Goto, AloneInv, history
<1>14. ASSUME NEW c \in Commands, Fail(c)
      PROVE  AloneInv'
  BY <1>14 DEF Fail, Goto, AloneInv
<1>15. ASSUME NEW c \in Commands, End(c)
      PROVE  AloneInv'
  BY <1>15 DEF End, Goto, AloneInv, history
<1>16. ASSUME NEW w \in Watchdogs, Announce(w)
      PROVE  AloneInv'
  BY <1>16 DEF Announce, To, AloneInv, script, history
<1>17. ASSUME NEW w \in Watchdogs, Leave(w)
      PROVE  AloneInv'
  BY <1>17 DEF Leave, To, AloneInv, script, history
<1>18. ASSUME NEW w \in Watchdogs, Notice(w)
      PROVE  AloneInv'
  BY <1>18 DEF Notice, To, AloneInv, script, history
<1>19. ASSUME NEW w \in Watchdogs, NoResume(w)
      PROVE  AloneInv'
  BY <1>19 DEF NoResume, AloneInv, script, history
<1>20. ASSUME NEW w \in Watchdogs, NEW c \in Commands, NetworkResume(w, c)
      PROVE  AloneInv'
  BY <1>20 DEF NetworkResume, Begun, Goto, AloneInv, TypeOK
<1>21. ASSUME Redirect
      PROVE  AloneInv'
  BY <1>21 DEF Redirect, AloneInv, script, history
<1>22. ASSUME DaemonEnds
      PROVE  AloneInv'
  BY <1>22 DEF DaemonEnds, AloneInv, script
<1>23. ASSUME Reboot
      PROVE  AloneInv'
  BY <1>23 DEF Reboot, AloneInv
<1>25. ASSUME NEW c \in Commands, Missing(c)
      PROVE  AloneInv'
  BY <1>25 DEF Missing, Goto, AloneInv, history
<1>26. ASSUME DyingEnds
      PROVE  AloneInv'
  BY <1>26 DEF DyingEnds, AloneInv, script, history
<1>24. ASSUME UNCHANGED vars
      PROVE  AloneInv'
  BY <1>24 DEF AloneInv, vars, script, history
<1> QED
  BY <1>1, <1>2, <1>3, <1>4, <1>5, <1>6, <1>7, <1>8, <1>9, <1>10, <1>11,
     <1>12, <1>13, <1>14, <1>15, <1>16, <1>17, <1>18, <1>19, <1>20, <1>21,
     <1>22, <1>23, <1>24, <1>25, <1>26 DEF Next, Ask, Step, WatchdogStep

(***************************************************************************)
(* The pid file names the daemon that runs.                                *)
(***************************************************************************)
LEMMA FileStep ==
  ASSUME ScriptsInv, [Next]_vars
  PROVE  FileInv'
<1> USE DEF ScriptsInv
<1>1. ASSUME NEW c \in Commands, StartModule(c)
      PROVE  FileInv'
  BY <1>1 DEF StartModule, Begun, Goto, FileInv, TypeOK, system
<1>2. ASSUME NEW c \in Commands, StopModule(c)
      PROVE  FileInv'
  BY <1>2 DEF StopModule, Begun, Goto, FileInv, TypeOK, system
<1>3. ASSUME NEW c \in Commands, StartIdle(c)
      PROVE  FileInv'
  BY <1>3 DEF StartIdle, Begun, Goto, FileInv, TypeOK, system
<1>4. ASSUME NEW c \in Commands, NetworkPause(c)
      PROVE  FileInv'
  BY <1>4 DEF NetworkPause, Begun, Goto, FileInv, TypeOK, system
<1>5. ASSUME NEW c \in Commands, StopWatchdog(c)
      PROVE  FileInv'
  BY <1>5, Order DEF StopWatchdog, Goto, FileInv, system, history
<1>6. ASSUME NEW c \in Commands, StopDaemon(c)
      PROVE  FileInv'
  BY <1>6, Order DEF StopDaemon, KillNamed, Goto, FileInv, AloneInv,
     history
<1>7. ASSUME NEW c \in Commands, NetClean(c)
      PROVE  FileInv'
  BY <1>7, Order DEF NetClean, Goto, FileInv, files, history
<1>8. ASSUME NEW c \in Commands, Check(c)
      PROVE  FileInv'
  BY <1>8 DEF Check, Success, Goto, FileInv, TypeOK, files, system,
     history
<1>9. ASSUME NEW c \in Commands, Launch(c)
      PROVE  FileInv'
  BY <1>9 DEF Launch, Replaced, KillNamed, Goto, FileInv, AloneInv,
     history
<1>10. ASSUME NEW c \in Commands, Spawn(c)
      PROVE  FileInv'
  BY <1>10 DEF Spawn, Goto, FileInv, AloneInv, TypeOK, history
<1>11. ASSUME NEW c \in Commands, Await(c)
      PROVE  FileInv'
  BY <1>11 DEF Await, Success, Failure, Goto, FileInv, AloneInv, TypeOK, system,
     history
<1>12. ASSUME NEW c \in Commands, Relieve(c)
      PROVE  FileInv'
  BY <1>12 DEF Relieve, Goto, FileInv, system, history
<1>13. ASSUME NEW c \in Commands, Guard(c)
      PROVE  FileInv'
  BY <1>13 DEF Guard, Goto, FileInv, system, history
<1>14. ASSUME NEW c \in Commands, Fail(c)
      PROVE  FileInv'
  BY <1>14 DEF Fail, Goto, FileInv, system
<1>15. ASSUME NEW c \in Commands, End(c)
      PROVE  FileInv'
  BY <1>15 DEF End, Goto, FileInv, files, system, history
<1>16. ASSUME NEW w \in Watchdogs, Announce(w)
      PROVE  FileInv'
  BY <1>16 DEF Announce, To, FileInv, system, script, history
<1>17. ASSUME NEW w \in Watchdogs, Leave(w)
      PROVE  FileInv'
  BY <1>17 DEF Leave, To, FileInv, system, script, history
<1>18. ASSUME NEW w \in Watchdogs, Notice(w)
      PROVE  FileInv'
  BY <1>18 DEF Notice, To, FileInv, system, script, history
<1>19. ASSUME NEW w \in Watchdogs, NoResume(w)
      PROVE  FileInv'
  BY <1>19 DEF NoResume, FileInv, files, system, script, history
<1>20. ASSUME NEW w \in Watchdogs, NEW c \in Commands, NetworkResume(w, c)
      PROVE  FileInv'
  BY <1>20 DEF NetworkResume, Begun, Goto, FileInv, TypeOK, system
<1>21. ASSUME Redirect
      PROVE  FileInv'
  BY <1>21 DEF Redirect, FileInv, files, script, history
<1>22. ASSUME DaemonEnds
      PROVE  FileInv'
  BY <1>22 DEF DaemonEnds, FileInv, files, script
<1>23. ASSUME Reboot
      PROVE  FileInv'
  BY <1>23 DEF Reboot, FileInv
<1>25. ASSUME NEW c \in Commands, Missing(c)
      PROVE  FileInv'
  BY <1>25 DEF Missing, Failure, Goto, FileInv, TypeOK, files, system,
     history
<1>26. ASSUME DyingEnds
      PROVE  FileInv'
  BY <1>26 DEF DyingEnds, FileInv, files, script, history
<1>24. ASSUME UNCHANGED vars
      PROVE  FileInv'
  BY <1>24 DEF FileInv, vars, files, system, script, history
<1> QED
  BY <1>1, <1>2, <1>3, <1>4, <1>5, <1>6, <1>7, <1>8, <1>9, <1>10, <1>11,
     <1>12, <1>13, <1>14, <1>15, <1>16, <1>17, <1>18, <1>19, <1>20, <1>21,
     <1>22, <1>23, <1>24, <1>25, <1>26 DEF Next, Ask, Step, WatchdogStep

(***************************************************************************)
(* What is left while a stop is under way, and after it.                   *)
(***************************************************************************)
LEMMA StopStep ==
  ASSUME ScriptsInv, [Next]_vars
  PROVE  StopInv'
<1> USE DEF ScriptsInv
<1>1. ASSUME NEW c \in Commands, StartModule(c)
      PROVE  StopInv'
  BY <1>1 DEF StartModule, AskedFor, StopInv
<1>2. ASSUME NEW c \in Commands, StopModule(c)
      PROVE  StopInv'
  BY <1>2 DEF StopModule, Begun, Goto, StopInv, TypeOK
<1>3. ASSUME NEW c \in Commands, StartIdle(c)
      PROVE  StopInv'
  BY <1>3 DEF StartIdle, AskedFor, StopInv
<1>4. ASSUME NEW c \in Commands, NetworkPause(c)
      PROVE  StopInv'
  BY <1>4 DEF NetworkPause, AskedFor, StopInv
<1>5. ASSUME NEW c \in Commands, StopWatchdog(c)
      PROVE  StopInv'
  BY <1>5, Order DEF StopWatchdog, Goto, StopInv, history
<1>6. ASSUME NEW c \in Commands, StopDaemon(c)
      PROVE  StopInv'
  BY <1>6, Order DEF StopDaemon, KillNamed, Goto, StopInv, history
<1>7. ASSUME NEW c \in Commands, NetClean(c)
      PROVE  StopInv'
  BY <1>7, Order DEF NetClean, Goto, StopInv, files, history
<1>8. ASSUME NEW c \in Commands, Check(c)
      PROVE  StopInv'
  BY <1>8 DEF Check, StopInv, files, history
<1>9. ASSUME NEW c \in Commands, Launch(c)
      PROVE  StopInv'
  BY <1>9 DEF Launch, StopInv, history
<1>10. ASSUME NEW c \in Commands, Spawn(c)
      PROVE  StopInv'
  BY <1>10 DEF Spawn, StopInv, history
<1>11. ASSUME NEW c \in Commands, Await(c)
      PROVE  StopInv'
  BY <1>11 DEF Await, StopInv, history
<1>12. ASSUME NEW c \in Commands, Relieve(c)
      PROVE  StopInv'
  BY <1>12 DEF Relieve, StopInv, history
<1>13. ASSUME NEW c \in Commands, Guard(c)
      PROVE  StopInv'
  BY <1>13 DEF Guard, StopInv, history
<1>14. ASSUME NEW c \in Commands, Fail(c)
      PROVE  StopInv'
  BY <1>14 DEF Fail, StopInv
<1>15. ASSUME NEW c \in Commands, End(c)
      PROVE  StopInv'
  BY <1>15 DEF End, Goto, StopInv, files, system, history
<1>16. ASSUME NEW w \in Watchdogs, Announce(w)
      PROVE  StopInv'
  BY <1>16 DEF Announce, To, StopInv, system, script, history
<1>17. ASSUME NEW w \in Watchdogs, Leave(w)
      PROVE  StopInv'
  BY <1>17 DEF Leave, To, StopInv, system, script, history
<1>18. ASSUME NEW w \in Watchdogs, Notice(w)
      PROVE  StopInv'
  BY <1>18 DEF Notice, To, StopInv, history
<1>19. ASSUME NEW w \in Watchdogs, NoResume(w)
      PROVE  StopInv'
  BY <1>19 DEF NoResume, StopInv, files, system, script, history
<1>20. ASSUME NEW w \in Watchdogs, NEW c \in Commands, NetworkResume(w, c)
      PROVE  StopInv'
  BY <1>20 DEF NetworkResume, StopInv
<1>21. ASSUME Redirect
      PROVE  StopInv'
  BY <1>21 DEF Redirect, StopInv, files, script, history
<1>22. ASSUME DaemonEnds
      PROVE  StopInv'
  BY <1>22 DEF DaemonEnds, StopInv, files, script
<1>23. ASSUME Reboot
      PROVE  StopInv'
  BY <1>23 DEF Reboot, StopInv, files
<1>25. ASSUME NEW c \in Commands, Missing(c)
      PROVE  StopInv'
  BY <1>25 DEF Missing, StopInv, files, system, history
<1>26. ASSUME DyingEnds
      PROVE  StopInv'
  BY <1>26 DEF DyingEnds, StopInv, files, script, history
<1>24. ASSUME UNCHANGED vars
      PROVE  StopInv'
  BY <1>24 DEF StopInv, vars, files, system, script, history
<1> QED
  BY <1>1, <1>2, <1>3, <1>4, <1>5, <1>6, <1>7, <1>8, <1>9, <1>10, <1>11,
     <1>12, <1>13, <1>14, <1>15, <1>16, <1>17, <1>18, <1>19, <1>20, <1>21,
     <1>22, <1>23, <1>24, <1>25, <1>26 DEF Next, Ask, Step, WatchdogStep

(***************************************************************************)
(* ScriptsInv is an invariant, and the properties follow.                  *)
(***************************************************************************)
LEMMA Invariance == Spec => []ScriptsInv
<1>1. Init => ScriptsInv
  <2>1. Init => TypeOK
    <3>1. 0 \in 0 .. MaxAsked /\ 0 \in 0 .. MaxEvents
      BY ScriptsAssumption
    <3>2. "stop" \in Kinds
      BY DEF Kinds
    <3>3. Init => /\ watch \in [Watchdogs ->
                                {"off", "boot", "loop", "resume", "wait"}]
                  /\ kind \in [Commands -> Kinds]
                  /\ pc \in [Commands ->
                             {"off", "watchdog", "daemon", "clean", "check",
                              "launch", "spawn", "await", "relieve", "guard",
                              "fail", "end"}]
                  /\ pid \in [Commands -> Daemons \cup {Nil}]
                  /\ caller \in [Commands -> Watchdogs \cup {Nil}]
      BY <3>2 DEF Init
    <3> QED
      BY <3>1, <3>2, <3>3 DEF Init, TypeOK
  <2>2. Init => AloneInv /\ FileInv /\ StopInv
    BY DEF Init, AloneInv, FileInv, StopInv
  <2> QED
    BY <2>1, <2>2 DEF ScriptsInv
<1>2. ScriptsInv /\ [Next]_vars => ScriptsInv'
  BY TypeStep, AloneStep, FileStep, StopStep DEF ScriptsInv
<1> QED
  BY <1>1, <1>2, PTL DEF Spec

(***************************************************************************)
(* Every variable has its type in every state of the specification.        *)
(***************************************************************************)
THEOREM Typing == Spec => []TypeOK
<1>1. ScriptsInv => TypeOK
  BY DEF ScriptsInv
<1> QED
  BY <1>1, Invariance, PTL

(***************************************************************************)
(* As long as start, start-idle, stop, pause and resume (sshcustom.sh)     *)
(* come one after the other there is at most one daemon that was not told  *)
(* to end, also while start_daemon replaces one without waiting for it;    *)
(* and when no command is under way it is the one run/daemon.pid names.    *)
(***************************************************************************)
THEOREM OneDaemonHolds == Spec => []OneDaemon
<1>1. ASSUME ScriptsInv, ~mixed
      PROVE  daemons \subseteq {pidFile} /\ Cardinality(daemons) <= 1
  <2>1. daemons \subseteq {pidFile}
    BY <1>1 DEF ScriptsInv, FileInv
  <2>2. IsFiniteSet({pidFile}) /\ Cardinality({pidFile}) = 1
    BY FS_Singleton
  <2>3. Cardinality(daemons) <= Cardinality({pidFile})
    BY <2>1, <2>2, FS_Subset
  <2> QED
    BY <2>1, <2>2, <2>3
<1>2. ScriptsInv => OneDaemon
  BY <1>1 DEF OneDaemon
<1> QED
  BY <1>2, Invariance, PTL

(***************************************************************************)
(* After a stop (stop_module, boot_reset) nothing is left that lasts: no   *)
(* daemon that was not told to end, no rule but one that an ending daemon  *)
(* installed after the cleanup, and no watchdog that brings them back.     *)
(***************************************************************************)
THEOREM StopStopsHolds == Spec => []StopStops
<1>1. ScriptsInv => StopStops
  BY DEF ScriptsInv, StopInv, StopStops, Quiet
<1> QED
  BY <1>1, Invariance, PTL

=============================================================================
