-------------------------- MODULE MCAndroidService --------------------------
(* AndroidService for TLC. *)
EXTENDS AndroidService
=============================================================================
