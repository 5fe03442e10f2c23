---------------------------- MODULE MCMcpClient ----------------------------
(* A handshake, a request that may be cancelled and a tool call on one     *)
(* permit, and a server that answers three times.                          *)
EXTENDS McpClient

CONSTANTS h, r, t
=============================================================================
