--------------------------- MODULE MCSessionStore ---------------------------
(* SessionStore for TLC.                                                   *)
EXTENDS SessionStore
=============================================================================
