---------------------------- MODULE TunnelControl ----------------------------
(***************************************************************************)
(* How the tunnel is started, stopped and shown (main.go): the closures    *)
(* startTunnel and stopTunnel, called from goroutines of the control API   *)
(* and, at boot, from run; connectionManager, one goroutine for every      *)
(* tunnel started; and the daemon's own end.  They share an atomic flag,   *)
(* the variable tunnelCancel, State, two listening ports and the iptables  *)
(* rules, and no lock orders them.                                         *)
(*                                                                         *)
(* Abstractions: of State, the fields that say whether a tunnel runs;      *)
(* Connected and SSHAuthenticated are one, since every writer but the      *)
(* daemon's end sets both.  The file module.prop, which these goroutines   *)
(* also write, is added by ModuleProp; the SSH pool is in SSHPool.  The    *)
(* rules are one bit, set by each command that adds some and reset by a    *)
(* cleaning; IptablesRules takes the commands, and their failures, apart.  *)
(* Times are nondeterministic waits.                                       *)
(*                                                                         *)
(* A definition named Mut... is the next one with a plausible bug.         *)
(***************************************************************************)
EXTENDS Naturals, FiniteSets

CONSTANTS
    Callers,   \* goroutines of requests that start or stop, and run's own
    Tunnels,   \* BOUND on the tunnels that exist at the same time
    Nil        \* no tunnel

ASSUME NamesAssumption ==
    /\ Callers \cap Tunnels = {}
    /\ Nil \notin Tunnels

VARIABLES
    running,     \* tunnelRunning
    cancelFn,    \* the tunnel tunnelCancel ends, or Nil
    cancelled,   \* the tunnels whose context was cancelled by stopTunnel
    signalled,   \* run's context is done: every tunnel's is, too
    alive,       \* the process has not ended
    mgr,         \* tunnel -> where its connectionManager is
    tport,       \* the tunnel that listens on the transparent port, or Nil
    sport,       \* the tunnel that listens on the SOCKS port, or Nil
    rules,       \* iptables rules, all or part of them, are installed
    pub,         \* State: running, conn, phase, and since: that a tunnel
                 \* has a time at which it was started
    pc,          \* caller -> where it is
    kind,        \* caller -> what it was asked
    tun          \* caller -> the tunnel it is starting, or Nil

ctlVars == <<running, cancelFn, cancelled>>
endVars == <<signalled, alive>>
netVars == <<tport, sport, rules>>
callVars == <<pc, kind, tun>>
vars == <<ctlVars, endVars, mgr, netVars, pub, callVars>>

MgrPc == {"none", "made", "loop", "route", "paused", "auth", "backoff",
          "socks", "listen", "clear", "apply", "rest", "undo", "up",
          "unrule", "unsocks", "gap", "returned", "stored", "writing"}
CallPc == {"idle", "load", "store", "make", "show", "write",
           "sload", "cancel", "wait", "clean", "sshow", "swrite"}

TypeOK ==
    /\ running \in BOOLEAN
    /\ cancelFn \in Tunnels \cup {Nil}
    /\ cancelled \subseteq Tunnels
    /\ signalled \in BOOLEAN /\ alive \in BOOLEAN
    /\ mgr \in [Tunnels -> MgrPc]
    /\ tport \in Tunnels \cup {Nil} /\ sport \in Tunnels \cup {Nil}
    /\ rules \in BOOLEAN
    /\ pub \in [running : BOOLEAN, conn : BOOLEAN, since : BOOLEAN,
                phase : {"idle", "active", "paused", "stopped"}]
    /\ pc \in [Callers -> CallPc]
    /\ kind \in [Callers -> {"start", "stop", "restart", "boot"}]
    /\ tun \in [Callers -> Tunnels \cup {Nil}]

\* What State shows of no tunnel, and what run lets it show before it calls
\* startTunnel.
Quiet  == [running |-> FALSE, conn |-> FALSE, since |-> FALSE, phase |-> "idle"]
Booted == [running |-> TRUE, conn |-> FALSE, since |-> FALSE, phase |-> "active"]

\* Without --idle run calls startTunnel; with it, it only writes module.prop, as
\* a stop does at its end.  Requests are served meanwhile.
Init ==
    /\ running = FALSE /\ cancelFn = Nil /\ cancelled = {}
    /\ signalled = FALSE /\ alive = TRUE
    /\ mgr = [t \in Tunnels |-> "none"]
    /\ tport = Nil /\ sport = Nil /\ rules = FALSE
    /\ tun = [c \in Callers |-> Nil]
    /\ \E b \in Callers :
         /\ kind = [c \in Callers |-> IF c = b THEN "boot" ELSE "stop"]
         /\ \/ /\ pc = [c \in Callers |-> IF c = b THEN "load" ELSE "idle"]
               /\ pub = Booted
            \/ /\ pc = [c \in Callers |-> IF c = b THEN "swrite" ELSE "idle"]
               /\ pub = Quiet

\* State.set
Publish(p) == pub' = p

-----------------------------------------------------------------------------
(* The callers.                                                            *)

Goto(c, l) == pc' = [pc EXCEPT ![c] = l]

\* The goroutine ends.
Finish(c) == Goto(c, "idle") /\ kind' = [kind EXCEPT ![c] = "stop"]

\* A request, or the goroutine of a request accepted before.  A restart begins
\* as a stop.
Call(c) ==
    /\ pc[c] = "idle"
    /\ \E k \in {"start", "stop"} :
         /\ kind' = [kind EXCEPT ![c] = k]
         /\ Goto(c, IF k = "start" THEN "load" ELSE "sload")
    /\ UNCHANGED <<ctlVars, endVars, mgr, netVars, pub, tun>>

\* tunnelRunning.Load()
MutBusy == FALSE
Busy == running

\* startTunnel returns at once when a tunnel is running.
StartSkipped(c) ==
    /\ pc[c] = "load"
    /\ Busy
    /\ Finish(c)
    /\ UNCHANGED <<ctlVars, endVars, mgr, netVars, pub, tun>>

\* It finds no profile, at boot too: a request may have deleted the one run
\* found.  Only LastError and LastEvent are set.
StartNoProfile(c) ==
    /\ pc[c] = "load"
    /\ ~Busy
    /\ Finish(c)
    /\ UNCHANGED <<ctlVars, endVars, mgr, netVars, pub, tun>>

\* From here on a start is a start, whoever asked for it.
StartLoad(c) ==
    /\ pc[c] = "load"
    /\ ~Busy
    /\ Goto(c, "store")
    /\ kind' = [kind EXCEPT ![c] = "start"]
    /\ UNCHANGED <<ctlVars, endVars, mgr, netVars, pub, tun>>

StartStore(c) ==
    /\ pc[c] = "store"
    /\ running' = TRUE
    /\ Goto(c, "make")
    /\ UNCHANGED <<cancelFn, cancelled, endVars, mgr, netVars, pub, kind,
                   tun>>

\* A new context; the function that cancels it replaces the one before.
MutAssigned(t) == cancelFn
Assigned(t) == t
StartMake(c) ==
    /\ pc[c] = "make"
    /\ \E t \in Tunnels :
         /\ mgr[t] = "none"
         /\ mgr' = [mgr EXCEPT ![t] = "made"]
         /\ tun' = [tun EXCEPT ![c] = t]
         /\ cancelFn' = Assigned(t)
    /\ Goto(c, "show")
    /\ UNCHANGED <<running, cancelled, endVars, netVars, pub, kind>>

StartShow(c) ==
    /\ pc[c] = "show"
    /\ Publish([pub EXCEPT !.running = TRUE, !.since = TRUE,
                           !.phase = "active"])
    /\ Goto(c, "write")
    /\ UNCHANGED <<ctlVars, endVars, mgr, netVars, kind, tun>>

\* module.prop is written, then the goroutine of connectionManager starts.
StartGo(c) ==
    /\ pc[c] = "write"
    /\ mgr' = [mgr EXCEPT ![tun[c]] = "loop"]
    /\ tun' = [tun EXCEPT ![c] = Nil]
    /\ Finish(c)
    /\ UNCHANGED <<ctlVars, endVars, netVars, pub>>

\* stopTunnel returns to a request that asked for a stop, or for a restart, which
\* goes on half a second later.
AfterStop(c) ==
    \/ Finish(c)
    \/ /\ kind[c] = "stop"
       /\ kind' = [kind EXCEPT ![c] = "restart"]
       /\ Goto(c, "load")

StopLoad(c) ==
    /\ pc[c] = "sload"
    /\ IF running THEN Goto(c, "cancel") /\ UNCHANGED kind ELSE AfterStop(c)
    /\ UNCHANGED <<ctlVars, endVars, mgr, netVars, pub, tun>>

\* The function tunnelCancel holds now, if any, is called.
Called == {cancelFn} \ {Nil}
StopCancel(c) ==
    /\ pc[c] = "cancel"
    /\ cancelled' = cancelled \cup Called
    /\ Goto(c, "wait")
    /\ UNCHANGED <<running, cancelFn, endVars, mgr, netVars, pub, kind, tun>>

\* tunnelRunning is seen false, or 3 s have passed.
StopWaited(c) ==
    /\ pc[c] = "wait"
    /\ Goto(c, "clean")
    /\ UNCHANGED <<ctlVars, endVars, mgr, netVars, pub, kind, tun>>

\* net_clean.sh
StopClean(c) ==
    /\ pc[c] = "clean"
    /\ rules' = FALSE
    /\ Goto(c, "sshow")
    /\ UNCHANGED <<ctlVars, endVars, mgr, tport, sport, pub, kind, tun>>

StopShow(c) ==
    /\ pc[c] = "sshow"
    /\ Publish(Quiet)
    /\ Goto(c, "swrite")
    /\ UNCHANGED <<ctlVars, endVars, mgr, netVars, kind, tun>>

StopEnd(c) ==
    /\ pc[c] = "swrite"
    /\ AfterStop(c)
    /\ UNCHANGED <<ctlVars, endVars, mgr, netVars, pub, tun>>

StartStep(c) ==
    \/ StartSkipped(c) \/ StartNoProfile(c) \/ StartLoad(c) \/ StartStore(c)
    \/ StartMake(c) \/ StartShow(c) \/ StartGo(c)
StopStep(c) ==
    \/ StopLoad(c) \/ StopCancel(c) \/ StopWaited(c) \/ StopClean(c)
    \/ StopShow(c) \/ StopEnd(c)

-----------------------------------------------------------------------------
(* connectionManager and the goroutine that runs it.                       *)

Done(t) == t \in cancelled \/ signalled     \* the context of t is done

MgrGoto(t, l) == mgr' = [mgr EXCEPT ![t] = l]

\* From one of `from' to `to', nothing else changes.
MgrMove(t, from, to) ==
    /\ mgr[t] \in from
    /\ MgrGoto(t, to)
    /\ UNCHANGED <<ctlVars, endVars, netVars, pub, callVars>>

\* The same, with a change of State.
MgrShow(t, from, p, to) ==
    /\ mgr[t] \in from
    /\ MgrGoto(t, to)
    /\ Publish(p)
    /\ UNCHANGED <<ctlVars, endVars, netVars, callVars>>

\* The context is looked at between attempts and during every sleep.
MutWaiting == {"loop", "paused", "backoff"}
Waiting == {"loop", "paused", "backoff", "gap"}
MgrReturn(t) == Done(t) /\ MgrMove(t, Waiting, "returned")

\* The context has not been seen done where it is looked at.
MutAwake(t) == t \notin cancelled
Awake(t) == ~Done(t)

\* The route is read.
MgrRoute(t) == Awake(t) /\ MgrMove(t, {"loop"}, "route")

\* The route decides: pause, or a new attempt.
MgrPause(t) ==
    MgrShow(t, {"route"}, [pub EXCEPT !.conn = FALSE, !.phase = "paused"],
            "paused")
MgrAttempt(t) ==
    MgrShow(t, {"route"}, [pub EXCEPT !.conn = FALSE, !.phase = "active"],
            "auth")

\* A pause, a backoff or the gap after a lost route is over.
MgrWake(t) == Awake(t) /\ MgrMove(t, {"paused", "backoff", "gap"}, "loop")

\* attemptSSHAuth returns, whether the context is done or not.
MgrAuthFail(t) ==
    MgrShow(t, {"auth"}, [pub EXCEPT !.phase = "active"], "backoff")
MgrAuthOK(t) ==
    MgrShow(t, {"auth"}, [pub EXCEPT !.conn = TRUE, !.phase = "active"],
            "socks")

\* startSocksIfEnabled: the port is taken, or another tunnel, another program
\* or the configuration stands in the way.
MgrSocks(t) ==
    /\ mgr[t] = "socks"
    /\ MgrGoto(t, "listen")
    /\ \/ sport = Nil /\ sport' = t
       \/ UNCHANGED sport
    /\ UNCHANGED <<ctlVars, endVars, tport, rules, pub, callVars>>

\* startTransparentIfEnabled, likewise.
MgrListen(t) ==
    /\ mgr[t] = "listen"
    /\ \/ tport = Nil /\ tport' = t /\ MgrGoto(t, "clear")
       \/ UNCHANGED tport /\ MgrGoto(t, "up")
    /\ UNCHANGED <<ctlVars, endVars, sport, rules, pub, callVars>>

\* Whatever rules there are are removed.
MgrClean(t, from, to) ==
    /\ mgr[t] = from
    /\ rules' = FALSE
    /\ MgrGoto(t, to)
    /\ UNCHANGED <<ctlVars, endVars, tport, sport, pub, callVars>>

\* Before new ones are installed, the old ones are removed.
MgrClear(t) == MgrClean(t, "clear", "apply")

\* Some of the new ones are installed.
MgrApply(t) ==
    /\ mgr[t] \in {"apply", "rest"}
    /\ rules' = TRUE
    /\ MgrGoto(t, "rest")
    /\ UNCHANGED <<ctlVars, endVars, tport, sport, pub, callVars>>

\* They all are; or one fails: the port is closed, and what there is removed.
MgrApplied(t) == MgrMove(t, {"rest"}, "up")
MgrApplyFails(t) ==
    /\ mgr[t] \in {"apply", "rest"}
    /\ tport' = Nil
    /\ MgrGoto(t, "undo")
    /\ UNCHANGED <<ctlVars, endVars, sport, rules, pub, callVars>>
MgrUndo(t) == MgrClean(t, "undo", "up")

\* KeepAlive has counted the healthy sessions.
MgrKeepAlive(t) ==
    \E b \in BOOLEAN : MgrShow(t, {"up"}, [pub EXCEPT !.conn = b], "up")

\* stopActive, when the context is done or the route is lost or has changed:
\* the transparent port is closed, its rules are removed, the SOCKS port and
\* the pool are closed.
MutUnlisten == "unsocks"
Unlisten == "unrule"
MgrClose(t) ==
    /\ mgr[t] = "up"
    /\ IF tport = t THEN tport' = Nil /\ MgrGoto(t, Unlisten)
                    ELSE UNCHANGED tport /\ MgrGoto(t, "unsocks")
    /\ UNCHANGED <<ctlVars, endVars, sport, rules, pub, callVars>>

MgrUnrule(t) == MgrClean(t, "unrule", "unsocks")

MutFreed(t) == sport
Freed(t) == IF sport = t THEN Nil ELSE sport
MgrUnsocks(t) ==
    /\ mgr[t] = "unsocks"
    /\ sport' = Freed(t)
    /\ MgrGoto(t, "gap")
    /\ UNCHANGED <<ctlVars, endVars, tport, rules, pub, callVars>>

\* connectionManager has returned: the flag, State and module.prop follow.
MgrStored(t) ==
    /\ mgr[t] = "returned"
    /\ running' = FALSE
    /\ MgrGoto(t, "stored")
    /\ UNCHANGED <<cancelFn, cancelled, endVars, netVars, pub, callVars>>

MutShown == [pub EXCEPT !.running = FALSE]
Shown == Quiet
MgrShown(t) ==
    /\ mgr[t] = "stored"
    /\ MgrGoto(t, "writing")
    /\ Publish(Shown)
    /\ UNCHANGED <<ctlVars, endVars, netVars, callVars>>

\* The goroutine ends; a call of the function that cancelled its context does
\* nothing any more.
MgrEnd(t) ==
    /\ mgr[t] = "writing"
    /\ MgrGoto(t, "none")
    /\ cancelled' = cancelled \ {t}
    /\ cancelFn' = IF cancelFn = t THEN Nil ELSE cancelFn
    /\ UNCHANGED <<running, endVars, netVars, pub, callVars>>

\* What the goroutine does by itself, and what it also waits for.
MgrRun(t) ==
    \/ MgrReturn(t) \/ MgrRoute(t) \/ MgrPause(t) \/ MgrAttempt(t)
    \/ MgrWake(t) \/ MgrSocks(t) \/ MgrListen(t) \/ MgrClear(t)
    \/ MgrApply(t) \/ MgrApplied(t) \/ MgrApplyFails(t) \/ MgrUndo(t)
    \/ MgrUnrule(t) \/ MgrUnsocks(t) \/ MgrStored(t) \/ MgrShown(t)
    \/ MgrEnd(t)
MgrStep(t) ==
    \/ MgrRun(t) \/ MgrAuthFail(t) \/ MgrAuthOK(t)
    \/ MgrKeepAlive(t) \/ MgrClose(t)

-----------------------------------------------------------------------------
(* The daemon's end: the signal; then run shuts the API down, shows STOPPED *)
(* and returns, which ends every goroutine where it is.                     *)

Signal ==
    /\ ~signalled
    /\ signalled' = TRUE
    /\ UNCHANGED <<ctlVars, alive, mgr, netVars, pub, callVars>>

Exit ==
    /\ signalled
    /\ alive' = FALSE
    /\ pub' = [pub EXCEPT !.running = FALSE, !.conn = FALSE,
                          !.phase = "stopped"]
    /\ UNCHANGED <<ctlVars, signalled, mgr, netVars, callVars>>

Step ==
    \/ \E c \in Callers : Call(c) \/ StartStep(c) \/ StopStep(c)
    \/ \E t \in Tunnels : MgrStep(t)
    \/ Signal
    \/ Exit

Next == alive /\ Step

Spec == Init /\ [][Next]_vars

-----------------------------------------------------------------------------
(* Whatever the calls, however they overlap.                               *)

\* No tunnel exists.
Stopped == \A t \in Tunnels : mgr[t] = "none"

\* When the last tunnel has ended, State says so: the several writers of State
\* (starts, stops, the managers and the goroutines that outlive them) leave no
\* "running" or "connected" behind, whichever of them is last.  Only what run
\* claims before any tunnel was started may still be there (BootIsCorrected).
StoppedIsPublished == alive /\ Stopped => pub \in {Quiet, Booted}

\* The rules redirect the device's traffic to the transparent port only while
\* a tunnel listens there or is about to remove them: no failed Apply, lost
\* route, stop or second tunnel leaves the device redirected to nobody.
RulesHaveOwner ==
    rules => \E t \in Tunnels : \/ tport = t /\ mgr[t] \in {"rest", "up"}
                                \/ mgr[t] \in {"undo", "unrule"}

\* A tunnel that has ended listens nowhere: a port that outlived its tunnel
\* would leave every later tunnel without SOCKS or transparent proxy.
StoppedFrees == \A t \in Tunnels : mgr[t] = "none" => tport # t /\ sport # t

\* What the proofs add: a caller that starts a tunnel has it to itself, a port
\* or the rules belong to a tunnel at the right place, the flag is set only for
\* a tunnel that exists or is about to, and State is left quiet by the last
\* writer.
MadeInv ==
    \A c \in Callers :
        pc[c] \in {"show", "write"}
        => /\ tun[c] \in Tunnels /\ mgr[tun[c]] = "made"
           /\ \A d \in Callers \ {c} :
                pc[d] \in {"show", "write"} => tun[d] # tun[c]
PortInv ==
    \A t \in Tunnels :
        /\ tport = t => mgr[t] \in {"clear", "apply", "rest", "up"}
        /\ sport = t
           => mgr[t] \in {"listen", "clear", "apply", "rest", "undo", "up",
                          "unrule", "unsocks"}
        /\ mgr[t] \in {"clear", "apply", "rest"} => tport = t
RunningInv ==
    running => \/ \E c \in Callers : pc[c] = "make"
               \/ \E t \in Tunnels :
                    mgr[t] \notin {"none", "stored", "writing"}
QuietInv ==
    alive /\ (\A t \in Tunnels : mgr[t] \in {"none", "writing"})
    => pub \in {Quiet, Booted}
ControlInv ==
    TypeOK /\ MadeInv /\ PortInv /\ RulesHaveOwner /\ RunningInv /\ QuietInv

\* How far connectionManager is from its end.
MgrRank ==
    [none |-> 0, writing |-> 1, stored |-> 2, returned |-> 3,
     gap |-> 4, backoff |-> 4, paused |-> 4, unsocks |-> 5, unrule |-> 6,
     up |-> 7, undo |-> 8, rest |-> 9, apply |-> 10, clear |-> 11,
     listen |-> 12, socks |-> 13, auth |-> 14, route |-> 15, loop |-> 16,
     made |-> 17]

\* A tunnel whose context is done never goes back: from wherever the stop or
\* the signal finds it, every move brings it nearer to its end.
CancelledDescends ==
    [][\A t \in Tunnels :
         Done(t) /\ mgr[t] # "none" /\ mgr'[t] # mgr[t]
         => MgrRank[mgr'[t]] < MgrRank[mgr[t]]]_vars

\* Nor does it wait for anybody: every wait of connectionManager looks at the
\* context, but for the handshake, which may go unanswered.  (A tunnel that is
\* made is started by its caller.)
CancelledMoves ==
    \A t \in Tunnels :
        Done(t) /\ mgr[t] \notin {"none", "made", "auth"}
        => ENABLED (MgrRun(t) \/ MgrClose(t))

-----------------------------------------------------------------------------
(* What needs the calls to come one after the other (one caller).          *)

\* From its start to the moment the flag is reset, a tunnel is the only one.
Live(t) == mgr[t] \notin {"none", "stored", "writing"}
OneTunnel == \A t, u \in Tunnels : Live(t) /\ Live(u) => t = u

\* main.go:1041: "tunnel start/stop/restart is controlled via the API": every
\* tunnel not yet cancelled is the one the next stop cancels.
StopReaches ==
    \A t \in Tunnels : Live(t) /\ ~Done(t) => cancelFn = t

\* What the proofs add: the flag and tunnelCancel are those of the tunnel that
\* lives, a caller that has seen the flag down finds none, and one that has
\* cancelled finds none that is not on its way out.
OneAtATime ==
    \A c, d \in Callers : pc[c] # "idle" /\ pc[d] # "idle" => c = d
SerialInv ==
    /\ \A t \in Tunnels : Live(t) => running /\ cancelFn = t
    /\ \A c \in Callers :
         /\ pc[c] \in {"store", "make"} => \A t \in Tunnels : ~Live(t)
         /\ pc[c] = "make" => running
         /\ pc[c] \in {"wait", "clean"}
            => \A t \in Tunnels : Live(t) => Done(t)

\* A tunnel is made only when there is none; only a tunnel that was told to
\* end does, after it has given its port and the device's traffic back; and
\* until it is told, nobody takes away the rules of one that listens.
LiveNow == {t \in Tunnels : Live(t)}
ToldNow == {t \in LiveNow : Done(t)}
Promise == INSTANCE TunnelPromise
             WITH live <- LiveNow, told <- ToldNow, port <- tport # Nil
PromiseKept == Promise!Spec

\* What its proof adds: connectionManager returns only to a tunnel that was told.
ReturnedInv == \A t \in Tunnels : mgr[t] = "returned" => Done(t)

-----------------------------------------------------------------------------
(* What the documents say and the code does not do.                        *)

\* main.go:2782: State says "transparent TCP proxy active" of a tunnel that has
\* the port and its rules.  With two callers a net_clean.sh that comes late, or
\* the end of an earlier tunnel, removes them.
UpIsRuled ==
    \A t \in Tunnels :
        mgr[t] = "up" /\ tport = t /\ ~Done(t) => rules

\* main.go:1086: State says "cannot start tunnel: no profile selected"; it also
\* goes on saying that one is starting when run's own start finds no profile.
BootIsCorrected ==
    alive /\ Stopped /\ (\A c \in Callers : pc[c] = "idle") => pub = Quiet

\* CHANGELOG.md:39: restart "operates on the tunnel": a restart of a running
\* tunnel ends with a start that is not skipped.
RestartRestarts ==
    [][\A c \in Callers : StartSkipped(c) => kind[c] # "restart"]_vars

\* net_clean.sh:3: the daemon "does its own cleanup in iptables.Cleanup()
\* during shutdown": a daemon that was told to end leaves no rules.
ShutdownCleans == ~alive => ~rules

=============================================================================
