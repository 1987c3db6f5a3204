---------------------------- MODULE MCSandboxes ----------------------------
(* TLC instances of Sandboxes. *)
EXTENDS SandboxesInv, TLC

CONSTANTS n, h, c1, c2, c3

\* A nested Run with two commands in its container, and a Run on the host with one.
MCKind == [r \in Runs |-> IF r = n THEN "nested" ELSE "local"]
MCRunOf == [c \in Calls |-> IF c \in {c1, c2} THEN n ELSE h]
=============================================================================
