----------------------------- MODULE MCConsole -----------------------------
(* Console with three servers one after the other and three chunks of input. *)
EXTENDS Console
=============================================================================
