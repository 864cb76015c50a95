----------------------------- MODULE MCIkeSession ----------------------------
(* One engine process and one ePDG, small enough for TLC.                  *)
EXTENDS IkeSession
=============================================================================
