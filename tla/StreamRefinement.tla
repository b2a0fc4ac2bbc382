-------------------------- MODULE StreamRefinement ---------------------------
(***************************************************************************)
(* The sending side of a stream implements a pipe of bytes.                *)
(***************************************************************************)
EXTENDS StreamProperties

(* picoquic has got the FIN and the data before it, or the reset of a      *)
(* stream that carried none.                                               *)
SendingIsOver == (fin_sent /\ pc # "write") \/ reset_called

PipeOutcome ==
  CASE Abandoned                  -> "aborted"
    [] ~Abandoned /\ SendingIsOver  -> "finished"
    [] ~Abandoned /\ ~SendingIsOver -> "open"

Pipe == INSTANCE BytePipe WITH out <- wire, outcome <- PipeOutcome

(* The channel behind start_send, its resize, the collecting of buffers    *)
(* and their copying into packets of any size are together a pipe: every   *)
(* step is a step of BytePipe or leaves the pipe alone.                    *)
ImplementsPipe == Pipe!Spec
==============================================================================
