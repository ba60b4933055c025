---------------------------- MODULE MCMobileCore ----------------------------
(* MobileCore for TLC. *)
EXTENDS MobileCore
=============================================================================
