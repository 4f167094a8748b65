---------------------------- MODULE MCGeneration ----------------------------
(* The small instance of Generation that Generation.cfg gives to TLC. *)
EXTENDS Generation
=============================================================================
