--------------------------- MODULE MCIptablesRules ---------------------------
(* IptablesRules for TLC: the tunnels are interchangeable.                  *)
EXTENDS IptablesRules

\* No hotspot; one on a default interface; one on an interface of the user's.
ThreeConfigs == {[hotspot |-> FALSE, ifaces |-> Default],
                 [hotspot |-> TRUE, ifaces |-> Default],
                 [hotspot |-> TRUE, ifaces |-> <<"own">>]}

Symmetry == Permutations(Tunnels)

=============================================================================
