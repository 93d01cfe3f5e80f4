--------------------------- MODULE MCProxyRecovery ---------------------------
(* ProxyRecovery for TLC: one call that changes something, one that reads. *)
EXTENDS ProxyRecovery

CONSTANTS write, read
==============================================================================
