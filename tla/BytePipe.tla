------------------------------ MODULE BytePipe -------------------------------
(***************************************************************************)
(* What the sending side of a stream promises, with no channels, swaps,    *)
(* buffers, packets or polls: the application puts bytes into a pipe, and  *)
(* picoquic gets them from it in order, without a gap or a repetition.     *)
(* The pipe is finished only when everything put into it has come out and  *)
(* nothing can follow.  It may be given up at any moment, and is then only *)
(* bound to the order.                                                     *)
(***************************************************************************)
EXTENDS Naturals, Sequences

VARIABLES
  accepted,  \* bytes that were put in
  out,       \* what came out, as ranges [lo, hi) of positions
  outcome    \* "open", "finished" or "aborted"

vars == <<accepted, out, outcome>>

Delivered(o) == IF o = <<>> THEN 0 ELSE o[Len(o)].hi

Init == accepted = 0 /\ out = <<>> /\ outcome = "open"

Put ==
  /\ outcome # "finished"
  /\ accepted' \in Nat /\ accepted' >= accepted
  /\ UNCHANGED <<out, outcome>>

(* The next bytes come out; they may be the last. *)
Get ==
  /\ outcome # "finished" /\ UNCHANGED accepted
  /\ Len(out') = Len(out) + 1 /\ SubSeq(out', 1, Len(out)) = out
  /\ LET new == out'[Len(out')]
     IN new.lo = Delivered(out) /\ new.lo < new.hi /\ new.hi <= accepted
  /\ \/ outcome' = outcome
     \/ outcome = "open" /\ outcome' = "finished" /\ Delivered(out') = accepted

Finish ==
  /\ outcome = "open" /\ outcome' = "finished"
  /\ Delivered(out) = accepted
  /\ UNCHANGED <<accepted, out>>

Abort == outcome' = "aborted" /\ UNCHANGED <<accepted, out>>

Next == Put \/ Get \/ Finish \/ Abort

Spec == Init /\ [][Next]_vars
==============================================================================
