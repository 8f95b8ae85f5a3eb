------------------------------- MODULE MCJWT -------------------------------
(***************************************************************************)
(* Instances of JWT for TLC.                                               *)
(***************************************************************************)
EXTENDS JWT
=============================================================================
