----------------------------- MODULE Redirection -----------------------------
(***************************************************************************)
(* What the nat rules are to the device, whichever commands run, fail or   *)
(* are left undone: its connections come to be redirected only by the      *)
(* tunnel that has the transparent port, and once that tunnel says its     *)
(* rules are applied they stay so until it gives the port up or another    *)
(* process's command comes in between.  IptablesRules implements this.     *)
(***************************************************************************)
CONSTANTS Tunnels, Nil

VARIABLES
    port,        \* the tunnel that listens on the transparent port, or Nil
    applied,     \* the tunnel whose rules are applied and undisturbed, if any
    redirected   \* the device's connections go to the transparent port

\* An older version may have left them redirected.
Init == port = Nil /\ applied = {} /\ redirected \in BOOLEAN

Take(t) == port = Nil /\ port' = t /\ UNCHANGED <<applied, redirected>>

Redirect == port # Nil /\ redirected' = TRUE /\ UNCHANGED <<port, applied>>

Lift == applied = {} /\ redirected' = FALSE /\ UNCHANGED <<port, applied>>

Apply(t) ==
    /\ port = t /\ redirected
    /\ applied' = {t}
    /\ UNCHANGED <<port, redirected>>

\* A command of another process, which can only lift them.
Disturb ==
    /\ applied' = {}
    /\ redirected' => redirected
    /\ redirected' \in BOOLEAN
    /\ UNCHANGED port

\* The end of the tunnel or of the daemon.
Leave == port' = Nil /\ applied' = {} /\ UNCHANGED redirected

Next ==
    \/ \E t \in Tunnels : Take(t) \/ Apply(t)
    \/ Redirect \/ Lift \/ Disturb \/ Leave

Spec == Init /\ [][Next]_<<port, applied, redirected>>

=============================================================================
