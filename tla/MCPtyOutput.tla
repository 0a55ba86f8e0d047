--------------------------- MODULE MCPtyOutput ---------------------------
(* One terminal and one client: clients only share the terminal's locks.  *)
EXTENDS PtyOutput
=============================================================================
