-------------------------------- MODULE MCWeb --------------------------------
(* The web client for TLC.                                                 *)
EXTENDS Web

MCSizes == {<<1, 1>>, <<1, 2>>}

=============================================================================
