---------------------------- MODULE TunnelPromise ----------------------------
(***************************************************************************)
(* What the control of the tunnel promises while no two calls overlap,     *)
(* whatever connectionManager does between them: a tunnel is made only     *)
(* when there is none, it ends only when it was told to and has given the  *)
(* device's traffic back, and while it listens its rules are not taken     *)
(* away before it is told.  TunnelControl implements this.                 *)
(***************************************************************************)
CONSTANT Tunnels

VARIABLES
    live,     \* the tunnels there are
    told,     \* those of them that were told to end
    port,     \* one of them listens on the transparent port
    rules     \* the device's traffic is redirected to that port

Init == live = {} /\ told = {} /\ port = FALSE /\ rules = FALSE

\* A tunnel made after the signal is told from its beginning.
Make(t) ==
    /\ live = {} /\ live' = {t}
    /\ told' \in {{}, {t}}
    /\ UNCHANGED <<port, rules>>

Tell == told' = live /\ UNCHANGED <<live, port, rules>>

Listen ==
    /\ live # {} /\ ~port /\ ~rules
    /\ port' = TRUE
    /\ UNCHANGED <<live, told, rules>>

\* All of its rules or some; if one fails, Unlisten and Restore follow.
Install ==
    /\ live # {} /\ port
    /\ rules' = TRUE
    /\ UNCHANGED <<live, told, port>>

Unlisten == port' = FALSE /\ UNCHANGED <<live, told, rules>>

\* By the end of the session, once nobody listens, or by the script of a stop.
Restore ==
    /\ port => told = live
    /\ rules' = FALSE
    /\ UNCHANGED <<live, told, port>>

End ==
    /\ told = live /\ ~port /\ ~rules
    /\ live' = {} /\ told' = {}
    /\ UNCHANGED <<port, rules>>

Next ==
    \/ \E t \in Tunnels : Make(t)
    \/ Tell \/ Listen \/ Install \/ Unlisten \/ Restore \/ End

Spec == Init /\ [][Next]_<<live, told, port, rules>>

=============================================================================
