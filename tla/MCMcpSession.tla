---------------------------- MODULE MCMcpSession ----------------------------
(* TLC instances of McpSession. *)
EXTENDS McpSessionInv

CONSTANTS a, b

\* A configuration that is replaced by another one: a reload disconnects one
\* server and connects the other.
MCConfigs == {{a}, {b}}
=============================================================================
