---------------------------- MODULE MCPamGreeter ----------------------------
(* Small instances of PamGreeter for TLC. *)
EXTENDS PamGreeter

CONSTANTS u1, u2

OneQuestion == {<<"prompt">>}
=============================================================================
