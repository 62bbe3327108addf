--------------------------- MODULE MCCommandPath ----------------------------
(* Small instances of CommandPath for TLC. *)
EXTENDS CommandPath, TLC

MCRequest == (Task \ Query) \cup OneWay
=============================================================================
