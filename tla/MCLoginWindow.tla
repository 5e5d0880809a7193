--------------------------- MODULE MCLoginWindow ---------------------------
(* Instances of LoginWindow for TLC.                                          *)
EXTENDS LoginWindow
=============================================================================
