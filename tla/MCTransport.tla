----------------------------- MODULE MCTransport -----------------------------
(* Transport for TLC.                                                       *)
EXTENDS Transport

Direct == [mode |-> "google", host |-> "ssh", hasProxy |-> TRUE,
           fallback |-> FALSE, connect |-> FALSE, tls |-> FALSE, payload |-> "read"]

\* A CDN reached directly; the same name in device mode, with TLS, a payload
\* whose response is left to SSH and fallback addresses; a proxy with CONNECT.
ThreePlans ==
    {Direct,
     [Direct EXCEPT !.mode = "device", !.tls = TRUE, !.payload = "write", !.fallback = TRUE],
     [Direct EXCEPT !.host = "proxy", !.connect = TRUE, !.payload = "none"]}

=============================================================================
