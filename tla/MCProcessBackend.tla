-------------------------- MODULE MCProcessBackend --------------------------
(* One adapter and one process group, with a banner that overlaps itself. *)
EXTENDS ProcessBackend

Banner == <<"a", "a", "b">>
=============================================================================
