------------------------------ MODULE MCProxyConn ------------------------------
(* ProxyConn for TLC: the constants are given in the configuration.        *)
EXTENDS ProxyConn
=============================================================================
