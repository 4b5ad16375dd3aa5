------------------------------ MODULE MCSSHPool ------------------------------
(* SSHPool for TLC.                                                        *)
EXTENDS SSHPool, TLC

\* Workers are interchangeable; sound in runs without liveness only.
WorkerSymmetry == Permutations(Workers)

=============================================================================
