------------------------ MODULE MCSessionPersistence ------------------------
(* The run of SessionPersistence.                                          *)
EXTENDS SessionPersistence
=============================================================================
