--------------------------- MODULE MCSessionActor ---------------------------
(* A small instance of SessionActor: two clones of the client. *)
EXTENDS SessionActor
=============================================================================
