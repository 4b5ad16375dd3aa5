--------------------------- MODULE MCModuleScripts ---------------------------
(* ModuleScripts for TLC: commands and pids are numbers.                    *)
EXTENDS ModuleScripts

TwoCommands == {1, 2}
TwoPids == 1..2
ThreePids == 1..3

\* As long as the commands come one after the other no step waits for a pid.
PidsSuffice ==
    \A c \in Commands : /\ pc[c] = "spawn" /\ ~mixed => NewDaemon # {}
                        /\ pc[c] = "guard" /\ ~mixed => NewWatchdog # {}

=============================================================================
