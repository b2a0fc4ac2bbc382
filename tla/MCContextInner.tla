--------------------------- MODULE MCContextInner ----------------------------
(* Instances of ContextInner for TLC: connections that the application     *)
(* asks for, r1 and r2, and one that a peer opens, i1.                     *)
EXTENDS ContextInnerProperties

CONSTANTS r1, r2, i1
==============================================================================
