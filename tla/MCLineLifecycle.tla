--------------------------- MODULE MCLineLifecycle ---------------------------
(* LineLifecycle for TLC. *)
EXTENDS LineLifecycle
=============================================================================
