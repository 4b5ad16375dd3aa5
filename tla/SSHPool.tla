------------------------------- MODULE SSHPool -------------------------------
(***************************************************************************)
(* The SSH session pool of sshcustomd (type SSHPool, main.go): a fixed     *)
(* array of slots, each holding at most one SSH session, shared by         *)
(*   - the workers, one per proxied connection, that call Dial and later   *)
(*     Close the stream they got;                                          *)
(*   - the manager, connectionManager's loop: route ticks, KeepAlive and   *)
(*     Close;                                                              *)
(*   - the goroutines of reconnectSlot, which fill an empty slot, and the  *)
(*     backoff goroutines they leave behind when they fail.                *)
(* The model runs from the moment newSSHPool returns to the time after     *)
(* Close.  Every critical section of a slot's mutex is one step.           *)
(*                                                                         *)
(* Abstractions: delays are nondeterministic waits, so retryDelay is left  *)
(* out; an error is only "transport broken" or not; a session's identity   *)
(* is a number that is used again when nothing refers to it any more.      *)
(*                                                                         *)
(* A definition named Mut... is the next one with a plausible bug: nothing *)
(* uses it, and PROJECT.json names the property it would break.            *)
(***************************************************************************)
EXTENDS Integers, FiniteSets

CONSTANTS
    PoolSize,       \* len(p.items)
    Workers,        \* connections being proxied at the same time
    BreakerLimit,   \* consecutive failures that trip the breaker (8)
    MaxSession,     \* BOUND on the identities of sessions
    MaxEnsure,      \* BOUND on the calls of EnsureAsync under way
    MaxSleeper      \* BOUND on the backoff goroutines of a slot asleep

ASSUME SizeAssumption == PoolSize \in Nat \ {0}
ASSUME WorkersAssumption == IsFiniteSet(Workers)
ASSUME LimitAssumption == BreakerLimit \in Nat \ {0}
ASSUME BoundsAssumption ==
    /\ MaxSession \in Nat \ {0}
    /\ MaxEnsure \in Nat
    /\ MaxSleeper \in Nat

Slots    == 1..PoolSize
Sessions == 1..MaxSession
Ensures  == 1..MaxEnsure
Nil      == 0                \* no session
Off      == 0                \* this EnsureAsync is not running
Loaded   == PoolSize + 1     \* it has read lastEnsure, not yet stored it

VARIABLES
    client,        \* slot -> session or Nil           (pooledSSH.client)
    streams,       \* slot -> number                   (pooledSSH.streams)
    reconnecting,  \* slot -> BOOLEAN                  (pooledSSH.reconnecting)
    fails,         \* slot -> 0..BreakerLimit          (pooledSSH.consecFails)
    rr,            \* index checkout starts from       (SSHPool.rr)
    closed,        \* SSHPool.closed
    poolDone,      \* SSHPool.ctx is cancelled
    tunnelDone,    \* the context of the tunnel is cancelled
    recent,        \* lastEnsure is less than 500 ms old
    ensure,        \* EnsureAsync call -> Off, Loaded or the slot it visits
    spawned,       \* slot -> reconnectSlot goroutines not yet started
    authing,       \* slot -> reconnectSlot goroutines in attemptSSHAuth
    tripping,      \* a failed goroutine is about to call p.cancel
    sleepers,      \* slot -> backoff goroutines asleep
    link,          \* session -> "up", "lost" or "closed"
    wpc,           \* worker -> where it is
    wslot,         \* worker -> the slot it uses
    wsess,         \* worker -> the session it uses
    mpc,           \* where connectionManager is, in KeepAlive or Close
    mslot,         \* the slot it visits
    msess,         \* the session KeepAlive probes
    mhealthy       \* KeepAlive has counted a healthy slot

slotVars == <<client, streams, reconnecting, fails>>
goVars   == <<ensure, spawned, authing, tripping, sleepers, recent>>
ctxVars  == <<closed, poolDone, tunnelDone>>
wrkVars  == <<wpc, wslot, wsess>>
mgrVars  == <<mpc, mslot, msess, mhealthy>>
vars     == <<slotVars, goVars, ctxVars, rr, link, wrkVars, mgrVars>>

WorkerPc == {"idle", "picked", "missed", "dialing", "breaking", "open",
             "closedOnce"}
MgrPc    == {"loop", "visit", "probe", "break", "closing", "gone"}

SlotTypes ==
    /\ client \in [Slots -> Sessions \cup {Nil}]
    /\ streams \in [Slots -> Nat]
    /\ reconnecting \in [Slots -> BOOLEAN]
    /\ fails \in [Slots -> 0..BreakerLimit]
    /\ link \in [Sessions -> {"up", "lost", "closed"}]
    /\ rr \in 0..(PoolSize - 1)
    /\ closed \in BOOLEAN /\ poolDone \in BOOLEAN /\ tunnelDone \in BOOLEAN

GoTypes ==
    /\ recent \in BOOLEAN
    /\ ensure \in [Ensures -> 0..Loaded]
    /\ spawned \in [Slots -> Nat]
    /\ authing \in [Slots -> Nat]
    /\ tripping \in BOOLEAN
    /\ sleepers \in [Slots -> 0..MaxSleeper]

WorkerTypes ==
    /\ wpc \in [Workers -> WorkerPc]
    /\ wslot \in [Workers -> Slots]
    /\ wsess \in [Workers -> Sessions \cup {Nil}]

ManagerTypes ==
    /\ mpc \in MgrPc
    /\ mslot \in 1..(PoolSize + 1)
    /\ mpc # "visit" => mslot \in Slots
    /\ msess \in Sessions \cup {Nil}
    /\ mhealthy \in BOOLEAN

\* The type invariant.
TypeOK == SlotTypes /\ GoTypes /\ WorkerTypes /\ ManagerTypes

-----------------------------------------------------------------------------
(* newSSHPool: slot 1 holds the session connectionManager authenticated;   *)
(* its call of EnsureAsync has started a reconnect for every other slot.   *)
Init ==
    /\ client = [s \in Slots |-> IF s = 1 THEN 1 ELSE Nil]
    /\ streams = [s \in Slots |-> 0]
    /\ reconnecting = [s \in Slots |-> s # 1]
    /\ fails = [s \in Slots |-> 0]
    /\ rr = 0
    /\ closed = FALSE /\ poolDone = FALSE /\ tunnelDone = FALSE
    /\ recent = (PoolSize # 1)
    /\ ensure = [e \in Ensures |-> Off]
    /\ spawned = [s \in Slots |-> IF s = 1 THEN 0 ELSE 1]
    /\ authing = [s \in Slots |-> 0]
    /\ tripping = FALSE
    /\ sleepers = [s \in Slots |-> 0]
    /\ link = [n \in Sessions |-> IF n = 1 THEN "up" ELSE "closed"]
    /\ wpc = [w \in Workers |-> "idle"]
    /\ wslot = [w \in Workers |-> 1]
    /\ wsess = [w \in Workers |-> Nil]
    /\ mpc = "loop" /\ mslot = 1 /\ msess = Nil /\ mhealthy = FALSE

Healthy(s) == client[s] # Nil /\ ~reconnecting[s]

\* p.mu is held from a worker's scan in checkout to its take.
PoolMuFree == \A w \in Workers : wpc[w] # "picked"

-----------------------------------------------------------------------------
(* The outside world.                                                      *)

\* stopTunnel or a signal cancels the tunnel's context, p.ctx's parent.
TunnelCancel ==
    /\ ~tunnelDone
    /\ tunnelDone' = TRUE
    /\ poolDone' = TRUE
    /\ UNCHANGED <<slotVars, goVars, closed, rr, link, wrkVars, mgrVars>>

\* The server or the network drops a session; nobody is told.
TransportLost(n) ==
    /\ link[n] = "up"
    /\ link' = [link EXCEPT ![n] = "lost"]
    /\ UNCHANGED <<slotVars, goVars, ctxVars, rr, wrkVars, mgrVars>>

\* 500 ms pass since the last EnsureAsync that was not skipped.
EnsureWindowEnds ==
    /\ recent
    /\ recent' = FALSE
    /\ UNCHANGED <<slotVars, ensure, spawned, authing, tripping, sleepers,
                   ctxVars, rr, link, wrkVars, mgrVars>>

-----------------------------------------------------------------------------
(* EnsureAsync.  The load and the store of lastEnsure are two steps: two   *)
(* callers can both find it old.                                           *)

\* The call itself, part of the caller's step: skipped inside the window.
EnsureCall ==
    \/ recent /\ UNCHANGED ensure
    \/ /\ ~recent
       /\ \E e \in Ensures :
            /\ ensure[e] = Off
            /\ \A d \in Ensures : ensure[d] = Off => e <= d
            /\ ensure' = [ensure EXCEPT ![e] = Loaded]

\* A closed pool ends the call, else the scan begins.
MutFirstVisit == 1
FirstVisit == IF closed THEN Off ELSE 1

\* lastEnsure is stored and closed is read.
EnsureStore(e) ==
    /\ ensure[e] = Loaded
    /\ PoolMuFree
    /\ recent' = TRUE
    /\ ensure' = [ensure EXCEPT ![e] = FirstVisit]
    /\ UNCHANGED <<slotVars, spawned, authing, tripping, sleepers, ctxVars,
                   rr, link, wrkVars, mgrVars>>

\* An empty slot nobody reconnects needs a goroutine.
Need(s) == client[s] = Nil /\ ~reconnecting[s]

\* The scan after slot s.
NextVisit(s) == IF s = PoolSize THEN Off ELSE s + 1

\* One slot of the scan.
EnsureVisit(e) ==
    LET s == ensure[e]
    IN  /\ s \in Slots
        /\ reconnecting' = [reconnecting EXCEPT ![s] = @ \/ Need(s)]
        /\ spawned' = [spawned EXCEPT ![s] = IF Need(s) THEN @ + 1 ELSE @]
        /\ ensure' = [ensure EXCEPT ![e] = NextVisit(s)]
        /\ UNCHANGED <<client, streams, fails, authing, tripping, sleepers,
                       recent, ctxVars, rr, link, wrkVars, mgrVars>>

-----------------------------------------------------------------------------
(* reconnectSlot.                                                          *)

\* The goroutine finds the pool's context done and gives the slot up.
ReconnectAbandon(s) ==
    /\ spawned[s] > 0 /\ poolDone
    /\ spawned' = [spawned EXCEPT ![s] = @ - 1]
    /\ reconnecting' = [reconnecting EXCEPT ![s] = FALSE]
    /\ UNCHANGED <<client, streams, fails, ensure, authing, tripping,
                   sleepers, recent, ctxVars, rr, link, wrkVars, mgrVars>>

ReconnectStart(s) ==
    /\ spawned[s] > 0 /\ ~poolDone
    /\ spawned' = [spawned EXCEPT ![s] = @ - 1]
    /\ authing' = [authing EXCEPT ![s] = @ + 1]
    /\ UNCHANGED <<slotVars, ensure, tripping, sleepers, recent, ctxVars,
                   rr, link, wrkVars, mgrVars>>

\* Identities no slot, worker or keepalive refers to, of no open session.
Unused == {n \in Sessions :
             /\ link[n] = "closed"
             /\ \A s \in Slots : client[s] # n
             /\ \A w \in Workers : wsess[w] # n
             /\ msess # n}

\* attemptSSHAuth succeeds, perhaps after Close: the slot gets the session.
AuthOK(s) ==
    /\ authing[s] > 0
    /\ \E n \in Unused :
         /\ \A m \in Unused : n <= m
         /\ client' = [client EXCEPT ![s] = n]
         /\ link' = [link EXCEPT ![n] = "up"]
    /\ authing' = [authing EXCEPT ![s] = @ - 1]
    /\ streams' = [streams EXCEPT ![s] = 0]
    /\ fails' = [fails EXCEPT ![s] = 0]
    /\ reconnecting' = [reconnecting EXCEPT ![s] = FALSE]
    /\ UNCHANGED <<ensure, spawned, tripping, sleepers, recent, ctxVars, rr,
                   wrkVars, mgrVars>>

\* It fails: the breaker is about to trip, or a backoff goroutine sleeps.
AuthFail(s) ==
    /\ authing[s] > 0
    /\ authing' = [authing EXCEPT ![s] = @ - 1]
    /\ fails' = [fails EXCEPT ![s] = IF @ < BreakerLimit THEN @ + 1 ELSE @]
    /\ reconnecting' = [reconnecting EXCEPT ![s] = FALSE]
    /\ IF fails[s] + 1 >= BreakerLimit
       THEN tripping' = TRUE /\ UNCHANGED sleepers
       ELSE /\ sleepers[s] < MaxSleeper
            /\ sleepers' = [sleepers EXCEPT ![s] = @ + 1]
            /\ UNCHANGED tripping
    /\ UNCHANGED <<client, streams, ensure, spawned, recent, ctxVars, rr,
                   link, wrkVars, mgrVars>>

\* The breaker cancels the pool's context, and does nothing else.
TripBreaker ==
    /\ tripping
    /\ tripping' = FALSE
    /\ poolDone' = TRUE
    /\ UNCHANGED <<slotVars, ensure, spawned, authing, sleepers, recent,
                   closed, tunnelDone, rr, link, wrkVars, mgrVars>>

\* A backoff goroutine wakes: its delay is over, or the context is done.
BackoffWake(s) ==
    /\ sleepers[s] > 0
    /\ sleepers' = [sleepers EXCEPT ![s] = @ - 1]
    /\ \/ ~poolDone /\ EnsureCall
       \/ poolDone /\ UNCHANGED ensure
    /\ UNCHANGED <<slotVars, spawned, authing, tripping, recent, ctxVars, rr,
                   link, wrkVars, mgrVars>>

-----------------------------------------------------------------------------
(* What markBroken, Close and release do to a slot.                        *)

\* The session the slot holds now, if any, is closed and forgotten.
MutShut(s) ==
    /\ link' = [n \in Sessions |-> IF n = client[s] THEN "closed" ELSE link[n]]
    /\ UNCHANGED client
Shut(s) ==
    /\ link' = [n \in Sessions |-> IF n = client[s] THEN "closed" ELSE link[n]]
    /\ client' = [client EXCEPT ![s] = Nil]

\* A reconnect is started unless one is under way.
MutRespawn(s) ==
    /\ reconnecting' = [reconnecting EXCEPT ![s] = TRUE]
    /\ spawned' = [spawned EXCEPT ![s] = @ + 1]
MutRespawnLate(s) ==
    /\ reconnecting' = [reconnecting EXCEPT ![s] = TRUE]
    /\ spawned' = [spawned EXCEPT ![s] = IF reconnecting'[s] THEN @ ELSE @ + 1]
Respawn(s) ==
    /\ reconnecting' = [reconnecting EXCEPT ![s] = TRUE]
    /\ spawned' = [spawned EXCEPT ![s] = IF reconnecting[s] THEN @ ELSE @ + 1]

\* markBroken: whichever session the error came from, the slot's goes.
MarkBroken(s) ==
    /\ Shut(s)
    /\ streams' = [streams EXCEPT ![s] = 0]
    /\ Respawn(s)

\* pooledSSH.release: never below zero.
MutReleaseLate(s) ==
    streams' = [streams EXCEPT ![s] = IF @ > 1 THEN @ - 1 ELSE @]
Release(s) ==
    streams' = [streams EXCEPT ![s] = IF @ > 0 THEN @ - 1 ELSE @]

-----------------------------------------------------------------------------
(* Dial, and the stream it returns.  An idle worker is between two turns   *)
(* of Dial's loop, or between two connections: the pool cannot tell.       *)

Goto(w, pc) == wpc' = [wpc EXCEPT ![w] = pc]

\* The worker leaves its slot and its session.
Leave(w, pc) ==
    /\ Goto(w, pc)
    /\ wslot' = [wslot EXCEPT ![w] = 1]
    /\ wsess' = [wsess EXCEPT ![w] = Nil]

\* The slots checkout may choose: healthy, least busy, first from rr on.
LeastBusy ==
    LET healthy == {s \in Slots : Healthy(s)}
        least == {s \in healthy : \A t \in healthy : streams[s] <= streams[t]}
        Turn(s) == IF s > rr THEN s - rr ELSE s + PoolSize - rr
    IN  {s \in least : \A t \in least : Turn(s) <= Turn(t)}

\* checkout's scan, which keeps p.mu; nothing to choose is a miss.
CheckoutScan(w) ==
    /\ wpc[w] = "idle" /\ ~tunnelDone
    /\ PoolMuFree
    /\ IF closed \/ LeastBusy = {}
       THEN Goto(w, "missed") /\ UNCHANGED wslot
       ELSE /\ Goto(w, "picked")
            /\ \E s \in LeastBusy : wslot' = [wslot EXCEPT ![w] = s]
    /\ UNCHANGED <<slotVars, goVars, ctxVars, rr, link, wsess, mgrVars>>

\* checkout looks at the chosen slot again: taken, or broken meanwhile.
CheckoutTake(w) ==
    LET s == wslot[w]
    IN  /\ wpc[w] = "picked"
        /\ IF Healthy(s)
           THEN /\ streams' = [streams EXCEPT ![s] = @ + 1]
                /\ Goto(w, "dialing")
                /\ wsess' = [wsess EXCEPT ![w] = client[s]]
                /\ UNCHANGED wslot
                /\ rr' = IF s = PoolSize THEN 0 ELSE s
           ELSE Leave(w, "missed") /\ UNCHANGED <<streams, rr>>
        /\ UNCHANGED <<client, reconnecting, fails, goVars, ctxVars, link,
                       mgrVars>>

\* checkout returned nothing: Dial asks for a reconnect, and waits or gives up.
DialMiss(w) ==
    /\ wpc[w] = "missed"
    /\ EnsureCall
    /\ Leave(w, "idle")
    /\ UNCHANGED <<slotVars, spawned, authing, tripping, sleepers, recent,
                   ctxVars, rr, link, mgrVars>>

\* client.Dial opened a channel.
DialOK(w) ==
    /\ wpc[w] = "dialing"
    /\ link[wsess[w]] = "up"
    /\ Goto(w, "open")
    /\ UNCHANGED <<slotVars, goVars, ctxVars, rr, link, wslot, wsess, mgrVars>>

\* client.Dial failed: releaseSlot, then markBroken if the error's text is
\* one of isSSHTransportBroken's.  That list misses some errors of a lost
\* session and a server can word a refusal like one, so either may happen.
DialFail(w) ==
    /\ wpc[w] = "dialing"
    /\ Release(wslot[w])
    /\ \/ Leave(w, "idle")
       \/ /\ Goto(w, "breaking")
          /\ wsess' = [wsess EXCEPT ![w] = Nil]
          /\ UNCHANGED wslot
    /\ UNCHANGED <<client, reconnecting, fails, goVars, ctxVars, rr, link,
                   mgrVars>>

DialBroken(w) ==
    /\ wpc[w] = "breaking"
    /\ MarkBroken(wslot[w])
    /\ Leave(w, "idle")
    /\ UNCHANGED <<fails, ensure, authing, tripping, sleepers, recent,
                   ctxVars, rr, mgrVars>>

\* pooledNetConn.Close is called by both ends of pipeBoth; the sync.Once
\* makes only the first call release the slot.
StreamClose(w) ==
    /\ wpc[w] \in {"open", "closedOnce"}
    /\ IF wpc[w] = "open"
       THEN /\ Release(wslot[w])
            /\ Leave(w, "closedOnce")
       ELSE /\ UNCHANGED streams
            /\ Leave(w, "idle")
    /\ UNCHANGED <<client, reconnecting, fails, goVars, ctxVars, rr, link,
                   mgrVars>>

-----------------------------------------------------------------------------
(* The manager: connectionManager's loop, KeepAlive and Close.             *)

\* The route is as before: EnsureAsync.
RouteTick ==
    /\ mpc = "loop"
    /\ EnsureCall
    /\ UNCHANGED <<slotVars, spawned, authing, tripping, sleepers, recent,
                   ctxVars, rr, link, wrkVars, mgrVars>>

KeepAliveStart ==
    /\ mpc = "loop" /\ PoolMuFree
    /\ mpc' = "visit" /\ mslot' = 1 /\ mhealthy' = FALSE
    /\ UNCHANGED <<slotVars, goVars, ctxVars, rr, link, wrkVars, msess>>

NextSlot(healthy) ==
    /\ mpc' = "visit" /\ mslot' = mslot + 1
    /\ msess' = Nil /\ mhealthy' = healthy

\* KeepAlive visits an empty slot and asks for a reconnect if none runs.
KeepAliveEmpty ==
    /\ mpc = "visit" /\ mslot \in Slots
    /\ client[mslot] = Nil
    /\ IF reconnecting[mslot] THEN UNCHANGED ensure ELSE EnsureCall
    /\ NextSlot(mhealthy)
    /\ UNCHANGED <<slotVars, spawned, authing, tripping, sleepers, recent,
                   ctxVars, rr, link, wrkVars>>

\* It counts a slot with streams as healthy, and probes any other.
KeepAliveLive ==
    /\ mpc = "visit" /\ mslot \in Slots
    /\ client[mslot] # Nil
    /\ IF streams[mslot] > 0
       THEN NextSlot(TRUE)
       ELSE /\ mpc' = "probe" /\ msess' = client[mslot]
            /\ UNCHANGED <<mslot, mhealthy>>
    /\ UNCHANGED <<slotVars, goVars, ctxVars, rr, link, wrkVars>>

\* The probe is answered, or abandoned because the tunnel is stopped.
KeepAliveDone ==
    /\ mpc = "probe"
    /\ \/ link[msess] = "up" /\ NextSlot(TRUE)
       \/ tunnelDone /\ NextSlot(mhealthy)
    /\ UNCHANGED <<slotVars, goVars, ctxVars, rr, link, wrkVars>>

\* It fails or, even on a session that is up, takes more than 10 s.
KeepAliveError ==
    /\ mpc = "probe"
    /\ mpc' = "break" /\ msess' = Nil
    /\ UNCHANGED <<slotVars, goVars, ctxVars, rr, link, wrkVars, mslot,
                   mhealthy>>

KeepAliveBroken ==
    /\ mpc = "break"
    /\ MarkBroken(mslot)
    /\ NextSlot(mhealthy)
    /\ UNCHANGED <<fails, ensure, authing, tripping, sleepers, recent,
                   ctxVars, rr, wrkVars>>

KeepAliveEnd ==
    /\ mpc = "visit" /\ mslot \notin Slots
    /\ IF mhealthy THEN UNCHANGED ensure ELSE EnsureCall
    /\ mpc' = "loop" /\ mslot' = 1 /\ mhealthy' = FALSE
    /\ UNCHANGED <<slotVars, spawned, authing, tripping, sleepers, recent,
                   ctxVars, rr, link, wrkVars, msess>>

\* stopActive: the tunnel is stopped, or the route was lost or changed.
CloseBegin ==
    /\ mpc = "loop" /\ PoolMuFree
    /\ closed' = TRUE
    /\ poolDone' = TRUE
    /\ mpc' = "closing" /\ mslot' = 1
    /\ UNCHANGED <<slotVars, goVars, tunnelDone, rr, link, wrkVars, msess,
                   mhealthy>>

CloseSlot ==
    /\ mpc = "closing"
    /\ Shut(mslot)
    /\ streams' = [streams EXCEPT ![mslot] = 0]
    /\ IF mslot = PoolSize THEN mpc' = "gone" /\ mslot' = 1
                           ELSE mpc' = mpc /\ mslot' = mslot + 1
    /\ UNCHANGED <<reconnecting, fails, goVars, ctxVars, rr, wrkVars, msess,
                   mhealthy>>

-----------------------------------------------------------------------------
EnsureStep(e)    == EnsureStore(e) \/ EnsureVisit(e)
AuthEnd(s)       == AuthOK(s) \/ AuthFail(s)
ReconnectStep(s) == ReconnectAbandon(s) \/ ReconnectStart(s) \/ AuthEnd(s)
DialEnd(w)       == DialOK(w) \/ DialFail(w)
WorkerStep(w)    == \/ CheckoutScan(w) \/ CheckoutTake(w) \/ DialMiss(w)
                    \/ DialEnd(w) \/ DialBroken(w) \/ StreamClose(w)
KeepAliveStep    == \/ KeepAliveEmpty \/ KeepAliveLive \/ KeepAliveDone
                    \/ KeepAliveError \/ KeepAliveBroken \/ KeepAliveEnd
MgrStep          == \/ RouteTick \/ KeepAliveStart \/ KeepAliveStep
                    \/ CloseBegin \/ CloseSlot

Next ==
    \/ TunnelCancel
    \/ \E n \in Sessions : TransportLost(n)
    \/ EnsureWindowEnds
    \/ \E e \in Ensures : EnsureStep(e)
    \/ \E s \in Slots : ReconnectStep(s) \/ BackoffWake(s)
    \/ TripBreaker
    \/ \E w \in Workers : WorkerStep(w)
    \/ MgrStep

Spec == Init /\ [][Next]_vars

\* Go runs every runnable goroutine, a stream ends (pipeBoth's idle timer),
\* a dial fails once its session is dead, and the tickers of the manager keep
\* firing; its select picks a ready case at random, so no case that is ready
\* again and again is passed over forever.  Nothing is assumed of the network
\* or the server.  In particular attemptSSHAuth and client.Dial set no deadline,
\* so a handshake or a dial a silent server never answers stays under way.
Fairness ==
    /\ WF_vars(EnsureWindowEnds)
    /\ \A e \in Ensures : WF_vars(EnsureStep(e))
    /\ \A s \in Slots : /\ WF_vars(ReconnectAbandon(s) \/ ReconnectStart(s))
                        /\ WF_vars(BackoffWake(s))
    /\ WF_vars(TripBreaker)
    /\ \A w \in Workers :
         /\ WF_vars(CheckoutTake(w)) /\ WF_vars(DialMiss(w))
         /\ WF_vars(DialFail(w) /\ link[wsess[w]] # "up")
         /\ WF_vars(DialBroken(w)) /\ WF_vars(StreamClose(w))
    /\ WF_vars(KeepAliveStep) /\ WF_vars(CloseSlot)
    /\ SF_vars(RouteTick) /\ SF_vars(KeepAliveStart)
    /\ SF_vars(tunnelDone /\ CloseBegin)

FairSpec == Spec /\ Fairness

-----------------------------------------------------------------------------
(* Safety.                                                                 *)

\* The flag `reconnecting` counts the goroutines: a slot has exactly one
\* reconnectSlot under way while it is set and none while it is not, however
\* EnsureAsync, markBroken and the goroutines themselves interleave.
OneReconnect ==
    \A s \in Slots :
        spawned[s] + authing[s] = IF reconnecting[s] THEN 1 ELSE 0

\* A slot that is being reconnected holds no session, so the one that comes up
\* replaces nothing: markBroken, which sets the flag, has closed it before.
EmptyWhileReconnecting ==
    \A s \in Slots : reconnecting[s] => client[s] = Nil

\* Every SSH session that was opened and not closed is the session of some
\* slot, so that Close and markBroken can still reach it: a reconnect never
\* overwrites the session another one has put there.
OpenSessionsOwned ==
    \A n \in Sessions : link[n] # "closed" => \E s \in Slots : client[s] = n

\* The workers that count as a stream of slot s.
Holders(s) == {w \in Workers : /\ wpc[w] \in {"dialing", "open"}
                               /\ wslot[w] = s}

\* A slot never counts more streams than are dialled or open on it, although
\* markBroken, Close and a reconnect reset the counter under streams that
\* release later: a slot no stream uses counts none, so checkout does not
\* avoid it and KeepAlive probes it.  Nor does it count below zero.
StreamsHeld == \A s \in Slots : streams[s] <= Cardinality(Holders(s))
StreamsBounded == StreamsHeld /\ \A s \in Slots : streams[s] >= 0

\* The three together are inductive.
SessionInv ==
    TypeOK /\ OneReconnect /\ EmptyWhileReconnecting /\ OpenSessionsOwned

\* The pool keeps the ledger of its sessions: a slot takes a session only when
\* it has none, and no session is dropped without being closed or closed
\* without being dropped.
Ledger == INSTANCE SessionLedger
            WITH held <- client,
                 open <- {n \in Sessions : link[n] # "closed"}
LedgerKept == Ledger!Spec

\* A counter moves only with the streams that are taken and given back, each
\* once, and with the session it counts for.
Streams == INSTANCE PooledStreams
             WITH Users <- Workers, count <- streams,
                  holds <- [w \in Workers |->
                              IF wpc[w] \in {"dialing", "open"}
                              THEN wslot[w] ELSE Nil],
                  closing <- {w \in Workers : wpc[w] = "closedOnce"}
StreamsCounted == Streams!Spec

-----------------------------------------------------------------------------
(* Liveness, under FairSpec.                                               *)

\* An empty slot is filled again unless the pool is being given up or the
\* server leaves its handshake unanswered: no interleaving of the debounce,
\* the failing goroutines and the breaker loses the wake-up of a slot for good.
EmptySlotHeals ==
    \A s \in Slots :
        client[s] = Nil ~> (client[s] # Nil \/ poolDone \/ [](authing[s] > 0))

\* Until the pool is closed, a lost session that no stream uses does not stay
\* in its slot for good: KeepAlive finds it.  (While streams use it, KeepAlive
\* skips it; a session that comes up after Close is nobody's to find.)
LostSessionFound ==
    \A n \in Sessions :
        ~ <>[] (~closed /\ \E s \in Slots : /\ client[s] = n
                                            /\ link[n] = "lost"
                                            /\ Holders(s) = {})

\* After Close, the pool's goroutines end but for a handshake the server does
\* not answer: no scan that was under way restarts the discarded pool, and no
\* backoff is left asleep.
ClosedPoolDrains ==
    mpc = "gone" ~> [](\A s \in Slots : spawned[s] = 0 /\ sleepers[s] = 0)

-----------------------------------------------------------------------------
(* What comments in the code say and the code does not do.                 *)

\* main.go:1649: eight failures of a slot "restart pool" and force a "full
\* reconnect".  The pool of a tunnel that is not stopped is then replaced,
\* which starts with connectionManager closing it.
BreakerRestartsPool == (poolDone /\ ~tunnelDone) ~> (closed \/ tunnelDone)

\* main.go:1658: the backoff of a failed slot "avoids hammering the SSH
\* server": no reconnect of the slot starts before its delay is over.
BackoffRespected ==
    [][\A s \in Slots : authing'[s] > authing[s] => sleepers[s] = 0]_vars

\* main.go:1844: "Active traffic proves the session is alive", so a slot with
\* streams counts as healthy: its session is up.
BusyMeansAlive ==
    [][KeepAliveLive /\ streams[mslot] > 0
        => link[client[mslot]] = "up"]_vars

\* main.go:1844: "Avoid sending keepalive requests through busy Dropbear
\* sessions": a session that is probed carries no open stream.
BusyNotProbed ==
    [][KeepAliveLive /\ streams[mslot] = 0
        => \A w \in Workers : wpc[w] = "open"
                                => wsess[w] # client[mslot]]_vars

=============================================================================
