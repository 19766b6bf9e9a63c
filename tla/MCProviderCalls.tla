-------------------------- MODULE MCProviderCalls --------------------------
(* Instances of ProviderCalls for TLC: up to three concurrent callers.     *)
EXTENDS ProviderCalls

CONSTANTS c1, c2, c3
=============================================================================
