--------------------------- MODULE MCAppLifecycle ---------------------------
(* The constants of AppLifecycle for TLC. *)
EXTENDS AppLifecycle
=============================================================================
