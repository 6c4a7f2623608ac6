--------------------------- MODULE MCCipherRefresh ---------------------------
(***************************************************************************)
(* Small instances of CipherRefresh.                                       *)
(***************************************************************************)
EXTENDS CipherRefresh

CONSTANTS d1, d2, d3
==============================================================================
