---------------------------- MODULE MCConnection -----------------------------
(* Instances of Connection for TLC.  4 and 5 are bidirectional streams of  *)
(* the client and of the server.                                           *)
EXTENDS ConnectionProperties

CONSTANTS r1, r2
==============================================================================
