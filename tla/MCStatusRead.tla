---------------------------- MODULE MCStatusRead ----------------------------
(* StatusRead with the bounds of each configuration; its constants are     *)
(* numbers and Booleans, so it needs no definitions of its own.            *)
EXTENDS StatusRead
=============================================================================
