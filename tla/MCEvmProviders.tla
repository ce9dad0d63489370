--------------------------- MODULE MCEvmProviders ---------------------------
(* A small instance of EvmProviders: Mumbai, the chain without a default socket. *)
EXTENDS EvmProviders, TLC

CONSTANTS u1, u2
=============================================================================
