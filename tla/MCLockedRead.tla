----------------------------- MODULE MCLockedRead -----------------------------
(***************************************************************************)
(* Small instances of LockedRead.                                          *)
(***************************************************************************)
EXTENDS LockedRead
=============================================================================
