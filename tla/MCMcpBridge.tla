---------------------------- MODULE MCMcpBridge ----------------------------
(* Three lines of any kind; a tool the turn may use and one it may not.     *)
EXTENDS McpBridge
CONSTANTS read, write, web
=============================================================================
