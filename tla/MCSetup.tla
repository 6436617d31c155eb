------------------------------- MODULE MCSetup -------------------------------
(* A profile in miniature: see MCSetup.cfg. *)
EXTENDS Layout

MCTagArrays == {None, 0, 1, 20, 400}
=============================================================================
