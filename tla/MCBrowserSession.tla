--------------------------- MODULE MCBrowserSession ---------------------------
(* BrowserSession for TLC. *)
EXTENDS BrowserSessionInv

CONSTANTS c1, c2
==============================================================================
