------------------------------ MODULE MCActivity ------------------------------
(* Activity for TLC.                                                         *)
EXTENDS Activity

=============================================================================
