------------------------------ MODULE MCPools ------------------------------
(* Instances of Pools for TLC: the values of the constants are in the        *)
(* configurations.                                                           *)
EXTENDS Pools
=============================================================================
