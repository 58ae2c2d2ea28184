---------------------------- MODULE MCRegisterPipe ----------------------------
(* RegisterPipe on a small instance: the constants are in MCRegisterPipe.cfg. *)
EXTENDS RegisterPipe
===============================================================================
