---------------------------- MODULE StateBroadcast ----------------------------
(***************************************************************************)
(* How a change of State reaches the clients of /api/v1/events (main.go:   *)
(* State.set, Subscribe, broadcast, Snapshot and the events handler).      *)
(*                                                                         *)
(* A setter changes State under one lock and then, under another, offers   *)
(* every subscriber a notification, which a subscriber that already has    *)
(* one does not take.  A client is sent a snapshot, subscribes, and is     *)
(* sent another snapshot for every notification it finds in its channel.   *)
(*                                                                         *)
(* The contents of State are abstracted to the number of changes made so   *)
(* far.  Subscribers other than the events handler (the monitor of         *)
(* module.prop) only take notifications of their own.                      *)
(*                                                                         *)
(* A definition named Mut... is the next one with a plausible bug.  Init,  *)
(* Next and the like have State in their names because a proof module has  *)
(* this module beside that of the tunnel, which calls State.set.           *)
(***************************************************************************)
EXTENDS Naturals

CONSTANTS
    Setters,      \* goroutines that call State.set
    Clients,      \* requests of /api/v1/events
    MaxVersion    \* BOUND on the changes of State

ASSUME BoundAssumption == MaxVersion \in Nat

VARIABLES
    version,   \* the number of changes State has seen
    spc,       \* setter -> "idle", or "told" once State is changed
    cpc,       \* client -> where it is
    subs,      \* the clients whose channel is in State.subs
    chan,      \* the clients whose channel holds a notification
    reading,   \* client -> the version of the snapshot it is being sent
    seen,      \* client -> the version of the last snapshot it was sent
    since      \* client -> the version when it subscribed (history)

stateVars == <<version, spc, cpc, subs, chan, reading, seen, since>>

Versions == 0..MaxVersion

StateTypeOK ==
    /\ version \in Versions
    /\ spc \in [Setters -> {"idle", "told"}]
    /\ cpc \in [Clients -> {"off", "greeting", "greeted", "listening",
                            "taken", "sending", "leaving"}]
    /\ subs \subseteq Clients
    /\ chan \subseteq Clients
    /\ reading \in [Clients -> Versions]
    /\ seen \in [Clients -> Versions]
    /\ since \in [Clients -> Versions]

StateInit ==
    /\ version = 0
    /\ spc = [x \in Setters |-> "idle"]
    /\ cpc = [c \in Clients |-> "off"]
    /\ subs = {} /\ chan = {}
    /\ reading = [c \in Clients |-> 0]
    /\ seen = [c \in Clients |-> 0]
    /\ since = [c \in Clients |-> 0]

-----------------------------------------------------------------------------
(* State.set.                                                              *)

Mutate(x) ==
    /\ spc[x] = "idle" /\ version < MaxVersion
    /\ version' = version + 1
    /\ spc' = [spc EXCEPT ![x] = "told"]
    /\ UNCHANGED <<cpc, subs, chan, reading, seen, since>>

\* The subscribers that get a notification: all, a second one being dropped.
MutNotified == IF chan \cap subs = {} THEN subs ELSE chan
Notified == chan \cup subs

Broadcast(x) ==
    /\ spc[x] = "told"
    /\ spc' = [spc EXCEPT ![x] = "idle"]
    /\ chan' = Notified
    /\ UNCHANGED <<version, cpc, subs, reading, seen, since>>

-----------------------------------------------------------------------------
(* The events handler.                                                     *)

ClientAt(c, l) == cpc' = [cpc EXCEPT ![c] = l]

Connect(c) ==
    /\ cpc[c] = "off"
    /\ reading' = [reading EXCEPT ![c] = version]
    /\ ClientAt(c, "greeting")
    /\ UNCHANGED <<version, spc, subs, chan, seen, since>>

\* The first snapshot has been sent.
Greet(c) ==
    /\ cpc[c] = "greeting"
    /\ seen' = [seen EXCEPT ![c] = reading[c]]
    /\ ClientAt(c, "greeted")
    /\ UNCHANGED <<version, spc, subs, chan, reading, since>>

\* Subscribe: a new, empty channel.
Subscribe(c) ==
    /\ cpc[c] = "greeted"
    /\ subs' = subs \cup {c}
    /\ since' = [since EXCEPT ![c] = version]
    /\ ClientAt(c, "listening")
    /\ UNCHANGED <<version, spc, chan, reading, seen>>

\* A notification is taken out of the channel, then a snapshot is made.
Take(c) ==
    /\ cpc[c] = "listening" /\ c \in chan
    /\ chan' = chan \ {c}
    /\ ClientAt(c, "taken")
    /\ UNCHANGED <<version, spc, subs, reading, seen, since>>

MutFresh(c) == since[c]
Fresh(c) == version
Read(c) ==
    /\ cpc[c] = "taken"
    /\ reading' = [reading EXCEPT ![c] = Fresh(c)]
    /\ ClientAt(c, "sending")
    /\ UNCHANGED <<version, spc, subs, chan, seen, since>>

Send(c) ==
    /\ cpc[c] = "sending"
    /\ seen' = [seen EXCEPT ![c] = reading[c]]
    /\ ClientAt(c, "listening")
    /\ UNCHANGED <<version, spc, subs, chan, reading, since>>

\* A send fails, or the request ends while the handler waits; one that fails
\* before Subscribe leaves nothing behind.
Fail(c) ==
    /\ cpc[c] \in {"greeting", "listening", "sending"}
    /\ ClientAt(c, IF cpc[c] = "greeting" THEN "off" ELSE "leaving")
    /\ UNCHANGED <<version, spc, subs, chan, reading, seen, since>>

\* The deferred cleanup takes the channel out of State.subs; the channel, and
\* the notification it may hold, are garbage.
Removed(c) == {c}
Cleanup(c) ==
    /\ cpc[c] = "leaving"
    /\ subs' = subs \ Removed(c)
    /\ chan' = chan \ {c}
    /\ ClientAt(c, "off")
    /\ UNCHANGED <<version, spc, reading, seen, since>>

HandlerStep(c) ==
    \/ Greet(c) \/ Subscribe(c) \/ Take(c) \/ Read(c) \/ Send(c) \/ Cleanup(c)

StateNext ==
    \/ \E x \in Setters : Mutate(x) \/ Broadcast(x)
    \/ \E c \in Clients : Connect(c) \/ HandlerStep(c) \/ Fail(c)

StateSpec == StateInit /\ [][StateNext]_stateVars

\* The handler's goroutine runs, and no write to a client blocks forever
\* (the kernel gives a dead connection up); a setter broadcasts at once.
StateFairness ==
    /\ \A x \in Setters : WF_stateVars(Broadcast(x))
    /\ \A c \in Clients : WF_stateVars(HandlerStep(c))

FairStateSpec == StateSpec /\ StateFairness

-----------------------------------------------------------------------------
\* Coalescing loses nothing: a client that waits with an empty channel, while
\* no setter is about to broadcast, was sent every change made since it
\* subscribed.
Settled(c) ==
    /\ cpc[c] = "listening" /\ c \notin chan
    /\ \A x \in Setters : spc[x] = "idle"
NothingMissed ==
    \A c \in Clients : Settled(c) => seen[c] = version \/ version = since[c]

\* It is inductive with what holds in between: a snapshot under way is the
\* latest, a notification waits in the channel, or a setter is about to
\* broadcast.
OnItsWay == \E x \in Setters : spc[x] = "told"
MissInv(c) ==
    /\ cpc[c] = "listening" /\ c \notin chan
        => seen[c] = version \/ version = since[c] \/ OnItsWay
    /\ cpc[c] = "sending" /\ c \notin chan
        => reading[c] = version \/ OnItsWay

\* State.subs holds the channels of the handlers that listen and of no other:
\* a broadcast does not grow with the clients that have left.
SubsAreListeners ==
    subs = {c \in Clients :
              cpc[c] \in {"listening", "taken", "sending", "leaving"}}

\* A client that stays is sent every change made after it subscribed, however
\* many more follow.
EventuallySent ==
    \A c \in Clients : \A v \in Versions :
        (cpc[c] = "listening" /\ since[c] < v /\ v <= version)
            ~> (seen[c] >= v \/ cpc[c] \in {"leaving", "off"})

\* openapi.yaml:88: "One `event: status` every time `state.set` is called": a
\* settled client has been sent the latest change, also one made between its
\* first snapshot and its subscription.
EveryChangeSent == \A c \in Clients : Settled(c) => seen[c] = version

\* The inductive invariant of the proofs.
BroadcastInv ==
    StateTypeOK /\ SubsAreListeners /\ \A c \in Clients : MissInv(c)

=============================================================================
