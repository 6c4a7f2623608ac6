-------------------------- MODULE MCAudienceReader ---------------------------
(***************************************************************************)
(* Small instances of AudienceReader: two posts, so that a page, a cut or  *)
(* a null body can fall between them.                                      *)
(***************************************************************************)
EXTENDS AudienceReader

CONSTANTS p1, p2
==============================================================================
