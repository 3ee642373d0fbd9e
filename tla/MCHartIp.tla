------------------------------ MODULE MCHartIp ------------------------------
(* The packet channel alone, driven by the link runner. *)
EXTENDS HartIp

Spec == IpInit /\ [][IpNext]_ipVars
=============================================================================
