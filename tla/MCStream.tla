------------------------------ MODULE MCStream -------------------------------
(* Instances of Stream for TLC.  4: a bidirectional stream the client      *)
(* opened; 6: a unidirectional one of the client; 7: one of the server.    *)
EXTENDS StreamRefinement
==============================================================================
