--------------------------- MODULE FileHistory_MC ---------------------------
(* An instance of FileHistory for TLC. *)
EXTENDS FileHistory

CONSTANTS p, q, v1
=============================================================================
