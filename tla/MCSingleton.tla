----------------------------- MODULE MCSingleton -----------------------------
(***************************************************************************)
(* Small instances of Singleton: two devices, which is what two rows of    *)
(* one document take.                                                      *)
(***************************************************************************)
EXTENDS Singleton
==============================================================================
