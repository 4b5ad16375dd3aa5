---------------------------- MODULE PooledStreams ----------------------------
(***************************************************************************)
(* What the pool and the connections it serves agree on: a slot's counter  *)
(* goes up when a user takes a stream, down when that user gives it back   *)
(* for the first time and not when it closes it again, and only the loss   *)
(* or the replacement of the slot's session resets it.  The workers of     *)
(* SSHPool and the connection of ProxyConn both implement this.            *)
(***************************************************************************)
EXTENDS Naturals

CONSTANTS Users, Slots, Nil

VARIABLES
    holds,     \* user -> the slot of the stream it has, or Nil
    closing,   \* the users that have closed it and will close it again
    count      \* slot -> its counter

Init ==
    /\ holds = [u \in Users |-> Nil]
    /\ closing = {}
    /\ count = [s \in Slots |-> 0]

Take(u, s) ==
    /\ holds[u] = Nil /\ u \notin closing
    /\ holds' = [holds EXCEPT ![u] = s]
    /\ count' = [count EXCEPT ![s] = @ + 1]
    /\ UNCHANGED closing

\* The stream could not be opened, or is closed for the first time.
GiveBack(u) ==
    /\ holds[u] # Nil
    /\ holds' = [holds EXCEPT ![u] = Nil]
    /\ count' = [count EXCEPT ![holds[u]] = IF @ > 0 THEN @ - 1 ELSE @]
    /\ closing' \in {closing, closing \cup {u}}

CloseAgain(u) ==
    /\ u \in closing
    /\ closing' = closing \ {u}
    /\ UNCHANGED <<holds, count>>

Reset(s) ==
    /\ count' = [count EXCEPT ![s] = 0]
    /\ UNCHANGED <<holds, closing>>

Next ==
    \/ \E u \in Users : \/ \E s \in Slots : Take(u, s)
                        \/ GiveBack(u) \/ CloseAgain(u)
    \/ \E s \in Slots : Reset(s)

Spec == Init /\ [][Next]_<<holds, closing, count>>

=============================================================================
