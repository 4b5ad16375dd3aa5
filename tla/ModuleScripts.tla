---------------------------- MODULE ModuleScripts ----------------------------
(***************************************************************************)
(* The module's shell scripts (sshcustom.sh, sshcustom_watchdog.sh, and    *)
(* service.sh and action.sh that call them): who starts and stops the      *)
(* daemon, and who notices that it is gone.                                *)
(*                                                                         *)
(* A command is a process of sshcustom.sh: start, stop (also boot-reset),  *)
(* start-idle, network-pause, or the network-resume a watchdog calls and   *)
(* waits for.  Nothing keeps two commands from running at once: they meet  *)
(* in the marker "enabled", the two pid files, the watchdog's token and    *)
(* killall.  The daemon may end at any time, and the device may be         *)
(* rebooted.                                                               *)
(*                                                                         *)
(* A process that kill_pid_file kills is gone when it returns, for it      *)
(* waits; a daemon that killall tells to end goes on for up to 5 s (run    *)
(* shuts its API down first) and may yet install rules.  What only the     *)
(* user sees (logs, the marker network_paused) is left out, and so is      *)
(* module.prop, which is in ModuleProp.  A definition named Mut... is the  *)
(* next one with a plausible bug.                                          *)
(***************************************************************************)
EXTENDS Naturals, FiniteSets

CONSTANTS
    Commands,   \* processes of sshcustom.sh
    Watchdogs,  \* pids of sshcustom_watchdog.sh
    Daemons,    \* pids of sshcustomd
    Nil,        \* no process
    MaxAsked,   \* BOUND on the commands asked for
    MaxEvents   \* BOUND: with so many commands asked for, daemons that have
                \* ended by themselves and reboots, no more of these two

ASSUME ScriptsAssumption ==
    /\ Nil \notin Commands \cup Watchdogs \cup Daemons
    /\ MaxAsked \in Nat /\ MaxEvents \in Nat

Kinds == {"start", "stop", "idle", "pause", "resume"}

VARIABLES
    enabled,   \* run/enabled exists
    pidFile,   \* run/daemon.pid, or Nil
    wdFile,    \* run/watchdog.pid, or Nil
    token,     \* the watchdog whose token is in run/watchdog.token, or Nil
    daemons,   \* the daemons that run and were not told to end
    dying,     \* those that killall has told to end and that still run
    rules,     \* iptables rules of a daemon are in place
    stray,     \* they were installed when all daemons were dying and no two
               \* commands had been under way at once (history)
    watch,     \* watchdog -> where it is
    kind,      \* command -> which one it is
    pc,        \* command -> where it is
    pid,       \* command -> the daemon it has launched, or Nil
    caller,    \* command -> the watchdog that waits for it, or Nil
    asked,     \* the last command the user or the boot service gave was a stop,
               \* or another one (history)
    mixed,     \* two commands have been under way at once (history)
    crossed,   \* two that were asked for have been under way at once (history)
    lost,      \* a launch has failed, or a reboot, since the last start
               \* (history)
    nasked,    \* how many commands were asked for
    nlost      \* how many daemons have ended by themselves, and reboots

files == <<enabled, pidFile, wdFile, token>>
system == <<daemons, dying, rules, stray>>
script == <<kind, pc, pid, caller>>
history == <<asked, mixed, crossed, lost, nasked, nlost>>
vars == <<files, system, watch, script, history>>

TypeOK ==
    /\ enabled \in BOOLEAN /\ rules \in BOOLEAN /\ stray \in BOOLEAN
    /\ pidFile \in Daemons \cup {Nil}
    /\ daemons \subseteq Daemons /\ dying \subseteq Daemons
    /\ wdFile \in Watchdogs \cup {Nil} /\ token \in Watchdogs \cup {Nil}
    /\ watch \in [Watchdogs -> {"off", "boot", "loop", "resume", "wait"}]
    /\ kind \in [Commands -> Kinds]
    /\ pc \in [Commands -> {"off", "watchdog", "daemon", "clean", "check",
                            "launch", "spawn", "await", "relieve", "guard",
                            "fail", "end"}]
    /\ pid \in [Commands -> Daemons \cup {Nil}]
    /\ caller \in [Commands -> Watchdogs \cup {Nil}]
    /\ asked \in {"start", "stop"}
    /\ mixed \in BOOLEAN /\ crossed \in BOOLEAN /\ lost \in BOOLEAN
    /\ nasked \in 0..MaxAsked /\ nlost \in 0..MaxEvents

\* The device has booted, the scripts have not run.
Init ==
    /\ enabled = FALSE /\ pidFile = Nil /\ wdFile = Nil /\ token = Nil
    /\ daemons = {} /\ dying = {} /\ rules = FALSE /\ stray = FALSE
    /\ watch = [w \in Watchdogs |-> "off"]
    /\ kind = [c \in Commands |-> "stop"]
    /\ pc = [c \in Commands |-> "off"]
    /\ pid = [c \in Commands |-> Nil]
    /\ caller = [c \in Commands |-> Nil]
    /\ asked = "stop" /\ mixed = FALSE /\ crossed = FALSE /\ lost = FALSE
    /\ nasked = 0 /\ nlost = 0

-----------------------------------------------------------------------------
(* Processes.                                                              *)

Goto(c, l) == pc' = [pc EXCEPT ![c] = l]

\* The order of stop_runtime and net_clean.sh, after which a daemon is started
\* or the command ends.
MutSweep == <<"watchdog", "clean", "daemon">>
Sweep == <<"watchdog", "daemon", "clean">>
After(c, l) ==
    LET i == CHOOSE i \in 1..3 : Sweep[i] = l
    IN  IF i < 3 THEN Sweep[i + 1]
        ELSE IF kind[c] \in {"start", "resume"} THEN "check" ELSE "end"

\* The process the pid file names is alive.
MutIsRunning == pidFile # Nil
IsRunning == pidFile \in daemons \cup dying
Alive(w) == w # Nil /\ watch[w] # "off"

\* A new process: which one makes no difference.
Used == {wdFile, token} \cup {caller[c] : c \in Commands}
NewWatchdog == {w \in Watchdogs \ Used : watch[w] = "off"}
NewDaemon ==
    Daemons \ (daemons \cup dying \cup {pidFile} \cup {pid[c] : c \in Commands})
Any(S) == CHOOSE x \in S : TRUE

\* kill_pid_file for the watchdog: the one that is named is killed, also when
\* it waits for this very command.
KillWatchdog ==
    /\ watch' = [w \in Watchdogs |-> IF w = wdFile THEN "off" ELSE watch[w]]
    /\ wdFile' = Nil

\* killall: the other processes `gone' takes away are still there.
KillNamed(gone) ==
    /\ daemons' = {}
    /\ dying' = (daemons \cup dying) \ gone

-----------------------------------------------------------------------------
(* The beginning of a command.                                             *)

Begun(c, k, w) ==
    /\ pc[c] = "off" /\ c = Any({d \in Commands : pc[d] = "off"})
    /\ kind' = [kind EXCEPT ![c] = k]
    /\ caller' = [caller EXCEPT ![c] = w]
    /\ mixed' = (mixed \/ \E d \in Commands : pc[d] # "off")
    /\ crossed' = (crossed \/ /\ k # "resume"
                              /\ \E d \in Commands :
                                   pc[d] # "off" /\ kind[d] # "resume")
    /\ UNCHANGED <<pidFile, wdFile, token, system, pid, nlost>>

AskedFor(k) ==
    /\ nasked < MaxAsked
    /\ asked' = IF k = "stop" THEN "stop" ELSE "start"
    /\ nasked' = nasked + 1

StartModule(c) ==
    /\ Begun(c, "start", Nil)
    /\ AskedFor("start")
    /\ enabled' = TRUE
    /\ lost' = FALSE
    /\ Goto(c, "watchdog")
    /\ UNCHANGED watch

\* stop_module and boot_reset.
StopModule(c) ==
    /\ Begun(c, "stop", Nil)
    /\ AskedFor("stop")
    /\ enabled' = FALSE
    /\ Goto(c, "watchdog")
    /\ UNCHANGED <<watch, lost>>

\* The daemon may be running and its API not answer.
StartIdle(c) ==
    /\ Begun(c, "idle", Nil)
    /\ AskedFor("idle")
    /\ \/ IsRunning /\ Goto(c, "end")
       \/ Goto(c, "check")
    /\ UNCHANGED <<enabled, watch, lost>>

NetworkPause(c) ==
    /\ enabled
    /\ Begun(c, "pause", Nil)
    /\ AskedFor("pause")
    /\ Goto(c, "daemon")
    /\ UNCHANGED <<enabled, watch, lost>>

\* A watchdog calls network-resume, which looks at the marker again.
NetworkResume(w, c) ==
    /\ watch[w] = "resume" /\ enabled
    /\ Begun(c, "resume", w)
    /\ watch' = [watch EXCEPT ![w] = "wait"]
    /\ Goto(c, "watchdog")
    /\ UNCHANGED <<enabled, asked, nasked, lost>>

NoResume(w) ==
    /\ watch[w] = "resume" /\ ~enabled
    /\ watch' = [watch EXCEPT ![w] = "loop"]
    /\ UNCHANGED <<files, system, script, history>>

-----------------------------------------------------------------------------
(* The steps of the commands.                                              *)

StopWatchdog(c) ==
    /\ pc[c] = "watchdog"
    /\ KillWatchdog
    /\ Goto(c, After(c, "watchdog"))
    /\ UNCHANGED <<enabled, pidFile, token, system, kind, pid, caller,
                   history>>

\* kill_pid_file for the daemon, which is waited for, and killall.
StopDaemon(c) ==
    /\ pc[c] = "daemon"
    /\ KillNamed({pidFile})
    /\ pidFile' = Nil
    /\ Goto(c, After(c, "daemon"))
    /\ UNCHANGED <<enabled, wdFile, token, rules, stray, watch, kind, pid,
                   caller, history>>

\* net_clean.sh
NetClean(c) ==
    /\ pc[c] = "clean"
    /\ rules' = FALSE /\ stray' = FALSE
    /\ Goto(c, After(c, "clean"))
    /\ UNCHANGED <<files, daemons, dying, watch, kind, pid, caller, history>>

\* start_daemon: a daemon whose API answers is left alone.
Success(c) == IF kind[c] = "idle" THEN "end" ELSE "relieve"
Check(c) ==
    /\ pc[c] = "check"
    /\ \/ IsRunning /\ Goto(c, Success(c))
       \/ Goto(c, "launch")
    /\ UNCHANGED <<files, system, watch, kind, pid, caller, history>>

\* The daemon there is, is told to end but not waited for: a second passes.
MutReplaced == UNCHANGED <<daemons, dying>>
Replaced == KillNamed({})
Launch(c) ==
    /\ pc[c] = "launch"
    /\ pidFile' = Nil /\ Replaced
    /\ Goto(c, "spawn")
    /\ UNCHANGED <<enabled, wdFile, token, rules, stray, watch, kind, pid,
                   caller, history>>

\* A file it needs is missing.
Failure(c) == IF kind[c] = "idle" THEN "end" ELSE "fail"
Missing(c) ==
    /\ pc[c] = "spawn"
    /\ Goto(c, Failure(c))
    /\ UNCHANGED <<files, system, watch, kind, pid, caller, history>>

Spawn(c) ==
    /\ pc[c] = "spawn" /\ NewDaemon # {}
    /\ daemons' = daemons \cup {Any(NewDaemon)}
    /\ pidFile' = Any(NewDaemon)
    /\ pid' = [pid EXCEPT ![c] = Any(NewDaemon)]
    /\ Goto(c, "await")
    /\ UNCHANGED <<enabled, wdFile, token, dying, rules, stray, watch, kind,
                   caller, history>>

Await(c) ==
    /\ pc[c] = "await"
    /\ pid' = [pid EXCEPT ![c] = Nil]
    /\ \/ /\ pid[c] \in daemons \cup dying
          /\ Goto(c, Success(c))
          /\ UNCHANGED pidFile
       \/ /\ pid[c] \notin daemons \cup dying
          /\ pidFile' = Nil
          /\ Goto(c, Failure(c))
    /\ UNCHANGED <<enabled, wdFile, token, system, watch, kind, caller,
                   history>>

\* start_watchdog: the watchdog there is, and then a new one.
Relieve(c) ==
    /\ pc[c] = "relieve"
    /\ KillWatchdog
    /\ Goto(c, "guard")
    /\ UNCHANGED <<enabled, pidFile, token, system, kind, pid, caller,
                   history>>

Hired(c) == TRUE
Guard(c) ==
    /\ pc[c] = "guard" /\ NewWatchdog # {}
    /\ \/ /\ Hired(c)
          /\ watch' = [watch EXCEPT ![Any(NewWatchdog)] = "boot"]
          /\ wdFile' = Any(NewWatchdog)
       \/ ~Hired(c) /\ UNCHANGED <<watch, wdFile>>
    /\ Goto(c, "end")
    /\ UNCHANGED <<enabled, pidFile, token, system, kind, pid, caller,
                   history>>

\* A start that fails takes its marker back; a resume leaves it, and the
\* watchdog that called it has been killed by StopWatchdog.
Fail(c) ==
    /\ pc[c] = "fail"
    /\ enabled' = (enabled /\ kind[c] # "start")
    /\ lost' = TRUE
    /\ Goto(c, "end")
    /\ UNCHANGED <<pidFile, wdFile, token, system, watch, kind, pid, caller,
                   asked, mixed, crossed, nasked, nlost>>

End(c) ==
    /\ pc[c] = "end"
    /\ watch' = [w \in Watchdogs |->
                   IF w = caller[c] /\ watch[w] = "wait" THEN "loop"
                   ELSE watch[w]]
    /\ caller' = [caller EXCEPT ![c] = Nil]
    /\ kind' = [kind EXCEPT ![c] = "stop"]
    /\ Goto(c, "off")
    /\ UNCHANGED <<files, system, pid, history>>

Step(c) ==
    \/ StopWatchdog(c) \/ StopDaemon(c) \/ NetClean(c) \/ Check(c)
    \/ Launch(c) \/ Missing(c) \/ Spawn(c) \/ Await(c) \/ Relieve(c)
    \/ Guard(c) \/ Fail(c) \/ End(c)

Ask(c) == StartModule(c) \/ StopModule(c) \/ StartIdle(c) \/ NetworkPause(c)

-----------------------------------------------------------------------------
(* A watchdog.                                                             *)

To(w, l) ==
    /\ watch' = [watch EXCEPT ![w] = l]
    /\ UNCHANGED <<enabled, pidFile, wdFile, system, script, history>>

Announce(w) == watch[w] = "boot" /\ token' = w /\ To(w, "loop")

MutCurrent(w) == TRUE
Current(w) == token = w

Leave(w) ==
    /\ watch[w] = "loop" /\ ~(enabled /\ Current(w))
    /\ To(w, "off") /\ UNCHANGED token

\* There is a route and the daemon does not run.  Without a route it waits.
Notice(w) ==
    /\ watch[w] = "loop" /\ enabled /\ Current(w) /\ ~IsRunning
    /\ To(w, "resume") /\ UNCHANGED token

WatchdogStep(w) ==
    \/ Announce(w) \/ Leave(w) \/ Notice(w) \/ NoResume(w)
    \/ \E c \in Commands : NetworkResume(w, c)

-----------------------------------------------------------------------------
(* The daemon, and the device.                                             *)

\* A tunnel is up.  A daemon that was told to end may be in the middle of
\* installing its rules.
Redirect ==
    /\ daemons \cup dying # {} /\ ~rules
    /\ rules' = TRUE
    /\ stray' = (daemons = {} /\ ~mixed)
    /\ UNCHANGED <<files, daemons, dying, watch, script, history>>

\* A daemon ends by itself: its rules stay.
DaemonEnds ==
    /\ nasked + nlost < MaxEvents
    /\ \E d \in daemons : daemons' = daemons \ {d}
    /\ nlost' = nlost + 1
    /\ UNCHANGED <<files, dying, rules, stray, watch, script, asked, mixed,
                   crossed, lost, nasked>>

\* One that was told to end has ended.
DyingEnds ==
    /\ \E d \in dying : dying' = dying \ {d}
    /\ UNCHANGED <<files, daemons, rules, stray, watch, script, history>>

\* All processes and rules are gone, the files of run/ stay.
Reboot ==
    /\ nasked + nlost < MaxEvents
    /\ daemons' = {} /\ dying' = {} /\ rules' = FALSE /\ stray' = FALSE
    /\ watch' = [w \in Watchdogs |-> "off"]
    /\ pc' = [c \in Commands |-> "off"]
    /\ pid' = [c \in Commands |-> Nil]
    /\ caller' = [c \in Commands |-> Nil]
    /\ kind' = [c \in Commands |-> "stop"]
    /\ mixed' = FALSE /\ crossed' = FALSE /\ lost' = TRUE
    /\ nlost' = nlost + 1
    /\ UNCHANGED <<files, asked, nasked>>

Next ==
    \/ \E c \in Commands : Ask(c) \/ Step(c)
    \/ \E w \in Watchdogs : WatchdogStep(w)
    \/ Redirect \/ DaemonEnds \/ DyingEnds \/ Reboot

Spec == Init /\ [][Next]_vars

\* Processes are scheduled, there is a route again whenever it was lost, and a
\* daemon that was told to end does, run's wait for its API being limited.
Fairness ==
    /\ \A c \in Commands : WF_vars(Step(c))
    /\ \A w \in Watchdogs : WF_vars(WatchdogStep(w))
    /\ WF_vars(DyingEnds)

FairSpec == Spec /\ Fairness

-----------------------------------------------------------------------------
(* As long as the commands, network-resume included, come one after the    *)
(* other.                                                                  *)

Quiet == \A c \in Commands : pc[c] = "off"

\* There is one daemon at most that was not told to end, and when no command is
\* under way it is the one the pid file names, so that a later stop finds it.
\* (start_daemon replaces a daemon whose API does not answer without waiting for
\* its end, so for some seconds there may be others, which are ending.)
OneDaemon ==
    ~mixed => /\ Cardinality(daemons) <= 1
              /\ Quiet => daemons \subseteq {pidFile}

\* After a stop nothing is left that lasts: no daemon but those that are ending,
\* no rule, unless one of these installed it since, and no watchdog brings them
\* back.
StopStops ==
    ~mixed /\ Quiet /\ asked = "stop" => daemons = {} /\ (rules => stray)

\* Why these two hold, as one inductive invariant.  Commands that come one after
\* the other are never two at once.
AloneInv ==
    ~mixed => \A c, d \in Commands : pc[c] # "off" /\ pc[d] # "off" => c = d

\* A daemon that runs is the one the pid file names, and the command that waits
\* for it knows it; a command launches one when all there are were told to end.
FileInv ==
    ~mixed =>
      /\ daemons \subseteq {pidFile}
      /\ \A c \in Commands :
           /\ pc[c] = "spawn" => daemons = {}
           /\ pc[c] = "await" => pidFile = pid[c]

\* After a stop the marker is gone, so no watchdog calls network-resume, and
\* what the stop has passed is gone: the daemon first, then its rules.
StopInv ==
    asked = "stop" =>
      /\ ~enabled
      /\ ~mixed =>
           /\ \A c \in Commands : pc[c] # "off" =>
                /\ kind[c] = "stop"
                /\ pc[c] \in {"watchdog", "daemon", "clean", "end"}
           /\ \/ \E c \in Commands : pc[c] \in {"watchdog", "daemon"}
              \/ daemons = {}
           /\ \/ \E c \in Commands : pc[c] \in {"watchdog", "daemon", "clean"}
              \/ rules => stray

ScriptsInv == TypeOK /\ AloneInv /\ FileInv /\ StopInv

\* A daemon that ends while the module is enabled is launched again.
Restored ==
    enabled /\ daemons = {}
    ~> daemons # {} \/ ~enabled \/ lost \/ mixed

-----------------------------------------------------------------------------
(* However the commands overlap.                                           *)

\* When no more commands run the watchdogs have agreed on one: of those that
\* were started side by side all but one leave.
OneWatchdog ==
    <>[]Quiet => <>[](\A v, w \in Watchdogs : Alive(v) /\ Alive(w) => v = w)

\* action.sh:23, "Result: SSHCustom module stopped.": when the commands asked
\* for came one after the other, the last was a stop and none is under way, no
\* daemon runs, but for one that is ending, whatever the watchdog did.
ModuleStopped == ~crossed /\ Quiet /\ asked = "stop" => daemons = {}

=============================================================================
