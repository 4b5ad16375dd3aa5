---------------------------- MODULE SessionLedger ----------------------------
(***************************************************************************)
(* What the SSH pool promises about the sessions it opens, whatever its    *)
(* goroutines do: every session that is open belongs to one slot, a slot   *)
(* takes a new session only when it has none, and it gives a session up    *)
(* only by closing it.  SSHPool implements this.                           *)
(***************************************************************************)
CONSTANTS Slots, Sessions, Nil

VARIABLES
    held,   \* slot -> its session, or Nil
    open    \* the sessions that are open

Init ==
    /\ held \in [Slots -> Sessions \cup {Nil}]
    /\ \A s, t \in Slots : held[s] = held[t] /\ held[s] # Nil => s = t
    /\ open = {held[s] : s \in Slots} \ {Nil}

Acquire(s, n) ==
    /\ held[s] = Nil
    /\ n \notin open
    /\ held' = [held EXCEPT ![s] = n]
    /\ open' = open \cup {n}

GiveUp(s) ==
    /\ held[s] # Nil
    /\ held' = [held EXCEPT ![s] = Nil]
    /\ open' = open \ {held[s]}

Next == \E s \in Slots : GiveUp(s) \/ \E n \in Sessions : Acquire(s, n)

Spec == Init /\ [][Next]_<<held, open>>

=============================================================================
