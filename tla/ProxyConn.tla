------------------------------ MODULE ProxyConn ------------------------------
(***************************************************************************)
(* One connection through the proxy: handleSocks5Conn or                   *)
(* handleTransparentConn, the stream it gets from the pool, and pipeBoth   *)
(* with its two copying goroutines, idle timer and 400 ms of grace.        *)
(*                                                                         *)
(* Abstractions: data are counted in buffers; a kernel buffer or an SSH    *)
(* window holds Room of them; both ends may send for ever.  Outside the    *)
(* code are the client, the server of the stream, which may also stand for *)
(* the loss of the SSH session, and the stream itself: closing it sends a  *)
(* message, which alone unblocks nobody, and its deadlines do nothing.     *)
(*                                                                         *)
(* A definition named Mut... is the next one with a plausible bug.         *)
(***************************************************************************)
EXTENDS Integers

CONSTANT Room  \* buffers that fit between two ends

ASSUME RoomAssumption == Room \in Nat \ {0}

VARIABLES
    pc,        \* where the handler is
    client,    \* the client's end: open, half (no more data from it), gone
    server,    \* the stream's far end: none, open, eof, closed
    shut,      \* pipeBoth has closed both ends
    inUp,      \* buffers the client has sent, unread by the pump
    inDown,    \* buffers the server has sent, unread by the pump
    toServer,  \* buffers in the stream's window
    toClient,  \* buffers the kernel has for the client
    owed,      \* buffers the server has sent and the client has not read
    up, down,  \* the two pumps
    activity,  \* what the channel activity holds
    done,      \* what the channel done holds
    fired,     \* the idle timer has run out and nobody has received from it
    first,     \* the pump that ended first
    how,       \* why pipeBoth closed both ends
    reset,     \* its closed connection had unread data of the client, or got some
    released   \* calls of the pool's release

ends == <<client, server, shut>>
data == <<inUp, inDown, toServer, toClient, owed>>
chans == <<activity, done, fired>>
ghosts == <<first, how, reset>>
vars == <<pc, ends, data, up, down, chans, ghosts, released>>

PumpPc == {"off", "reading", "writing", "ending", "ended"}

TypeOK ==
    /\ pc \in {"handshake", "dial", "pipe", "grace", "returning", "ended"}
    /\ client \in {"open", "half", "gone"}
    /\ server \in {"none", "open", "eof", "closed"}
    /\ shut \in BOOLEAN /\ fired \in BOOLEAN /\ reset \in BOOLEAN
    /\ inUp \in 0..Room /\ inDown \in 0..Room
    /\ toServer \in 0..Room /\ toClient \in 0..Room
    /\ owed \in Nat
    /\ up \in PumpPc /\ down \in PumpPc
    /\ activity \in 0..2 /\ done \in 0..2
    /\ first \in {"none", "up", "down"}
    /\ how \in {"no", "idle", "grace", "both"}
    /\ released \in Nat

\* A connection has been accepted.
Init ==
    /\ pc = "handshake" /\ client = "open" /\ server = "none" /\ shut = FALSE
    /\ inUp = 0 /\ inDown = 0 /\ toServer = 0 /\ toClient = 0 /\ owed = 0
    /\ up = "off" /\ down = "off" /\ activity = 0 /\ done = 0 /\ fired = FALSE
    /\ first = "none" /\ how = "no" /\ reset = FALSE /\ released = 0

-----------------------------------------------------------------------------
(* The two ends.                                                           *)

\* What comes after its connection is closed resets it: the kernel drops some
\* of what was still to be sent.
ClientSends ==
    /\ client = "open"
    /\ \/ /\ ~shut /\ pc \in {"dial", "pipe", "grace"} /\ inUp < Room
          /\ inUp' = inUp + 1
          /\ UNCHANGED <<toClient, reset>>
       \/ /\ shut /\ ~reset
          /\ reset' = TRUE /\ toClient' \in 0..toClient
          /\ UNCHANGED inUp
    /\ UNCHANGED <<pc, ends, inDown, toServer, owed, up, down, chans, first, how,
                   released>>

ClientReads ==
    /\ client # "gone" /\ toClient > 0
    /\ toClient' = toClient - 1 /\ owed' = owed - 1
    /\ UNCHANGED <<pc, ends, inUp, inDown, toServer, up, down, chans, ghosts,
                   released>>

\* It will send no more, or it is gone altogether.
ClientEnds ==
    /\ \/ client = "open" /\ client' = "half"
       \/ client # "gone" /\ client' = "gone"
    /\ UNCHANGED <<pc, server, shut, data, up, down, chans, ghosts, released>>

ServerSends ==
    /\ server = "open" /\ inDown < Room
    /\ inDown' = inDown + 1 /\ owed' = owed + 1
    /\ UNCHANGED <<pc, ends, inUp, toServer, toClient, up, down, chans, ghosts,
                   released>>

ServerReads ==
    /\ server \in {"open", "eof"} /\ toServer > 0
    /\ toServer' = toServer - 1
    /\ UNCHANGED <<pc, ends, inUp, inDown, toClient, owed, up, down, chans,
                   ghosts, released>>

ServerEnds ==
    /\ \/ server = "open" /\ server' = "eof"
       \/ server \in {"open", "eof"} /\ server' = "closed"
    /\ UNCHANGED <<pc, client, shut, data, up, down, chans, ghosts, released>>

\* The server answers the message that closes the stream, or the session ends.
ServerAnswers ==
    /\ shut /\ server \in {"open", "eof"}
    /\ server' = "closed"
    /\ UNCHANGED <<pc, client, shut, data, up, down, chans, ghosts, released>>

-----------------------------------------------------------------------------
(* The handler.                                                            *)

\* socks5Handshake, or originalDst and isLocalOrBlockedTarget.  The client may
\* be silent: a deadline of 20 s.
Handshake ==
    /\ pc = "handshake"
    /\ pc' \in {"dial", "ended"}
    /\ UNCHANGED <<ends, data, up, down, chans, ghosts, released>>

\* pool.Dial
Dial ==
    /\ pc = "dial"
    /\ \/ pc' = "ended" /\ UNCHANGED <<server, up, down>>
       \/ pc' = "pipe" /\ server' = "open" /\ up' = "reading" /\ down' = "reading"
    /\ UNCHANGED <<client, shut, data, chans, ghosts, released>>

\* pooledNetConn.Close: once.
MutRelease == released + 1
Release == IF released = 0 THEN 1 ELSE released

\* What is sent to the client and not read yet may be lost when its own data
\* are unread.
CloseBoth(why) ==
    /\ shut' = TRUE /\ how' = why
    /\ released' = Release
    /\ reset' = (inUp > 0)
    /\ toClient' \in {toClient, IF inUp > 0 THEN 0 ELSE toClient}
    /\ pc' = "returning"
    /\ UNCHANGED <<client, server, inUp, inDown, toServer, owed, up, down, first>>

\* The idle timer is armed again, and what it had sent is dropped.
Active ==
    /\ pc = "pipe" /\ activity > 0
    /\ activity' = activity - 1 /\ fired' = FALSE
    /\ UNCHANGED <<pc, ends, data, up, down, done, ghosts, released>>

\* A pump that cannot move: it reads where there is nothing or writes where
\* there is no room.
UpStuck ==
    \/ up = "reading" /\ inUp = 0 /\ client = "open"
    \/ up = "writing" /\ toServer = Room /\ server # "closed"
DownStuck ==
    \/ down = "reading" /\ inDown = 0 /\ server = "open"
    \/ down = "writing" /\ toClient = Room /\ client # "gone"

\* The timer runs for 30 s at least: a pump that can move, and the loop that
\* arms it again, are faster.
MutFires ==
    /\ pc = "pipe" /\ ~fired /\ activity = 0 /\ done = 0
    /\ up = "reading" /\ down = "reading" /\ UpStuck /\ DownStuck
    /\ fired' = TRUE
    /\ UNCHANGED <<pc, ends, data, up, down, activity, done, ghosts, released>>
Fires ==
    /\ pc = "pipe" /\ ~fired /\ activity = 0 /\ done = 0
    /\ UpStuck /\ DownStuck
    /\ fired' = TRUE
    /\ UNCHANGED <<pc, ends, data, up, down, activity, done, ghosts, released>>

Idle ==
    /\ pc = "pipe" /\ fired
    /\ CloseBoth("idle")
    /\ UNCHANGED <<activity, done>> /\ fired' = FALSE

\* One pump has ended: the other has 400 ms.
FirstDone ==
    /\ pc = "pipe" /\ done > 0
    /\ done' = done - 1
    /\ pc' = "grace"
    /\ UNCHANGED <<ends, data, up, down, activity, fired, ghosts, released>>

SecondDone ==
    /\ pc = "grace" /\ done > 0
    /\ done' = done - 1 /\ UNCHANGED <<activity, fired>>
    /\ CloseBoth("both")

GraceEnds ==
    /\ pc = "grace"
    /\ CloseBoth("grace")
    /\ UNCHANGED chans

\* pipeBoth has returned; the deferred Close of the stream is its second.
Return ==
    /\ pc = "returning"
    /\ pc' = "ended"
    /\ released' = Release
    /\ UNCHANGED <<ends, data, up, down, chans, ghosts>>

-----------------------------------------------------------------------------
(* The pumps.  A pump that has read tells activity if there is room.       *)

Tell == activity' = IF activity < 2 THEN activity + 1 ELSE activity

UpReads ==
    /\ up = "reading" /\ inUp > 0 /\ ~shut
    /\ inUp' = inUp - 1 /\ up' = "writing" /\ Tell
    /\ UNCHANGED <<pc, ends, inDown, toServer, toClient, owed, down, done, fired,
                   ghosts, released>>

UpWrites ==
    /\ up = "writing" /\ toServer < Room /\ server # "closed" /\ ~shut
    /\ toServer' = toServer + 1 /\ up' = "reading"
    /\ UNCHANGED <<pc, ends, inUp, inDown, toClient, owed, down, chans, ghosts,
                   released>>

\* The client has ended, its connection is closed, or the stream refuses.
\* The stream is no TCPConn: its end is not told that the client's has ended.
UpEnds ==
    /\ \/ up = "reading" /\ (shut \/ client = "gone" \/ (client = "half" /\ inUp = 0))
       \/ up = "writing" /\ (server = "closed" \/ (shut /\ toServer < Room))
    /\ up' = "ending"
    /\ UNCHANGED <<pc, ends, data, down, chans, ghosts, released>>

DownReads ==
    /\ down = "reading" /\ inDown > 0
    /\ inDown' = inDown - 1 /\ down' = "writing" /\ Tell
    /\ UNCHANGED <<pc, ends, inUp, toServer, toClient, owed, up, done, fired,
                   ghosts, released>>

DownWrites ==
    /\ down = "writing" /\ toClient < Room /\ client # "gone" /\ ~shut
    /\ toClient' = toClient + 1 /\ down' = "reading"
    /\ UNCHANGED <<pc, ends, inUp, inDown, toServer, owed, up, chans, ghosts,
                   released>>

\* The stream has ended and is drained (CloseWrite tells the client), or the
\* client's connection refuses.
MutDownEnds ==
    /\ \/ down = "reading" /\ server \in {"eof", "closed"}
       \/ down = "writing" /\ (client = "gone" \/ shut)
    /\ down' = "ending"
    /\ UNCHANGED <<pc, ends, data, up, chans, ghosts, released>>
DownEnds ==
    /\ \/ down = "reading" /\ inDown = 0 /\ server \in {"eof", "closed"}
       \/ down = "writing" /\ (client = "gone" \/ shut)
    /\ down' = "ending"
    /\ UNCHANGED <<pc, ends, data, up, chans, ghosts, released>>

\* The room of the channel done.
MutDoneRoom == 1
DoneRoom == 2

UpDone ==
    /\ up = "ending" /\ done < DoneRoom
    /\ up' = "ended" /\ done' = done + 1
    /\ first' = IF first = "none" THEN "up" ELSE first
    /\ UNCHANGED <<pc, ends, data, down, activity, fired, how, reset, released>>

DownDone ==
    /\ down = "ending" /\ done < DoneRoom
    /\ down' = "ended" /\ done' = done + 1
    /\ first' = IF first = "none" THEN "down" ELSE first
    /\ UNCHANGED <<pc, ends, data, up, activity, fired, how, reset, released>>

-----------------------------------------------------------------------------
UpPump == UpReads \/ UpWrites \/ UpEnds \/ UpDone
DownPump == DownReads \/ DownWrites \/ DownEnds \/ DownDone
Loop == Active \/ FirstDone \/ SecondDone \/ GraceEnds \/ Idle \/ Return
Peers == ClientSends \/ ClientReads \/ ClientEnds
         \/ ServerSends \/ ServerReads \/ ServerEnds \/ ServerAnswers

Next == Handshake \/ Dial \/ Loop \/ Fires \/ UpPump \/ DownPump \/ Peers

\* The handler and the pumps run, timers run out, and a stream's close is
\* answered, if only by the end of the session.  Nothing is assumed of the
\* client, of the server's reading or sending, or of Dial, which has no deadline.
Fairness ==
    /\ WF_vars(Handshake) /\ WF_vars(Loop) /\ WF_vars(Fires)
    /\ WF_vars(UpPump) /\ WF_vars(DownPump) /\ WF_vars(ServerAnswers)

Spec == Init /\ [][Next]_vars
FairSpec == Spec /\ Fairness

-----------------------------------------------------------------------------
(* Properties.                                                             *)

\* The client can read all that the server sent before it ended, however its
\* end is met: but not when nothing moved for the idle time, when the client
\* is gone or its own data reset the connection, and when the direction to
\* the server ended first and the other needed more than the grace.
WholeResponse ==
    /\ pc \in {"returning", "ended"} /\ how \in {"both", "grace"}
    /\ ~(how = "grace" /\ first = "up") /\ client # "gone" /\ ~reset
    => owed = toClient

\* The pool's stream is given back exactly once, by whichever path the
\* handler ends (SSHPool counts on it).
ReleasedOnce ==
    /\ released <= 1
    /\ pc = "ended" => (released = 1 <=> server # "none")

\* What the proofs add.  The channel done holds the pumps that have ended and
\* that the loop has not heard of.
Ended == (IF up = "ended" THEN 1 ELSE 0) + (IF down = "ended" THEN 1 ELSE 0)
PhaseInv ==
    /\ pc \in {"handshake", "dial"}
       => up = "off" /\ down = "off" /\ server = "none" /\ released = 0
    /\ pc \in {"pipe", "grace"} => server # "none" /\ released = 0
    /\ pc = "returning" => server # "none" /\ released = 1 /\ shut
    /\ shut => pc \in {"returning", "ended"}
    /\ ~shut => how = "no"
    /\ ~shut /\ pc = "ended" => up = "off" /\ down = "off"
    /\ ReleasedOnce
DoneInv ==
    /\ pc \in {"handshake", "dial", "pipe"} => done = Ended
    /\ pc = "grace" => done + 1 = Ended
    /\ ~shut => (first = "none" <=> Ended = 0)
    /\ first = "up" => up = "ended"
    /\ first = "down" => down = "ended"

\* Nothing is made up; a pump that ends before pipeBoth closes both ends, with
\* the client there, has met the end of the stream, and loses nothing.
Held == toClient + inDown + (IF down = "writing" THEN 1 ELSE 0)
Drained == inDown = 0 /\ server \in {"eof", "closed"}
WholeInv ==
    /\ Held <= owed
    /\ ~shut /\ client # "gone" => owed = Held
    /\ ~shut /\ client # "gone" /\ down \in {"ending", "ended"} => Drained
    /\ shut /\ how # "idle" /\ ~(how = "grace" /\ first = "up")
       => /\ how \in {"both", "grace"} /\ down = "ended"
          /\ client # "gone" => Drained /\ (~reset => owed = Held)
PipeInv == TypeOK /\ PhaseInv /\ DoneInv /\ WholeInv

\* What a connection does to the pool is what SSHPool's workers do: it takes a
\* stream, gives it back by the first close, and the second changes nothing.
Pool == INSTANCE PooledStreams
          WITH Users <- {1}, Slots <- {1}, Nil <- 0,
               holds <- [u \in {1} |-> IF pc \in {"pipe", "grace"} THEN 1 ELSE 0],
               closing <- {u \in {1} : pc = "returning"},
               count <- [s \in {1} |-> IF server = "none" THEN 0 ELSE 1 - released]
StreamReturned == Pool!Spec

\* Once the client is gone or the stream is closed the handler ends, even if
\* the other end neither reads nor sends nor ends; and it never stays piping
\* without a pump that reads something now and then: two ends that both wait,
\* for data or for room, are closed.
ConnEnds ==
    /\ pc = "pipe" /\ (client = "gone" \/ server = "closed") ~> pc = "ended"
    /\ pc = "pipe" ~> pc = "ended" \/ activity > 0

\* After pipeBoth has returned both pumps end: none waits on a channel that
\* nobody reads.
PumpsEnd == pc = "ended" ~> up \in {"off", "ended"} /\ down \in {"off", "ended"}
=============================================================================
