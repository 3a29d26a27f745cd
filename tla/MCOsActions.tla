----------------------------- MODULE MCOsActions -----------------------------
(* A small instance of OsActions for TLC. *)
EXTENDS OsActions
==============================================================================
