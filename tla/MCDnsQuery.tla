----------------------------- MODULE MCDnsQuery -----------------------------
(***************************************************************************)
(* Instances of DnsQuery for TLC.                                          *)
(***************************************************************************)
EXTENDS DnsQuery

CONSTANTS q1, q2, p1, p2
=============================================================================
