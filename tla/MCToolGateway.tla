--------------------------- MODULE MCToolGateway ---------------------------
(* One or two calls, read and write tools, orm_unlink and a web tool; the   *)
(* records of one business model, of an excluded one, and the session.      *)
EXTENDS ToolGateway, TLC
CONSTANTS c1, c2, read, write, unlink, web, orders, secrets
Symmetry == Permutations(Calls)
=============================================================================
