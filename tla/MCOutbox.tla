------------------------------ MODULE MCOutbox ------------------------------
(* Model-checking instances of Outbox. *)
EXTENDS Outbox, TLC
=============================================================================
