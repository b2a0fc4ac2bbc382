------------------------------- MODULE Channel -------------------------------
(***************************************************************************)
(* The channel of src/src/channel_with_error.rs: a futures mpsc channel    *)
(* with one sender, plus an error slot that sender and receiver share.     *)
(* The mpsc operations themselves belong to the futures crate; they are    *)
(* modelled by what they do.  A channel is a record:                       *)
(*   queue   the messages sent and not yet received                        *)
(*   size    the `buffer` argument of mpsc::channel                        *)
(*   open    FALSE once the receiver called close or was dropped           *)
(*   error   the kind of error in ErrorState, or NoError                   *)
(***************************************************************************)
EXTENDS Naturals, Sequences

NoError == "none"

(* ErrorKind of a connection error (ffi/connection.rs, Connection::error). *)
ErrorKinds == {"TLSHandshakeError", "Unknown"}

NewChannel(size) ==
  [queue |-> <<>>, size |-> size, open |-> TRUE, error |-> NoError]

(* mpsc gives every sender one slot beyond the buffer: the sender parks    *)
(* itself when the queue exceeds `size` and a received message unparks it. *)
HasRoom(c) == Len(c.queue) <= c.size

(* SenderWithError::start_send followed by map_err / check_for_error.      *)
StartSendResult(c) ==
  CASE c.open /\ HasRoom(c)               -> "Ready"
    [] c.open /\ ~HasRoom(c)              -> "NotReady"
    [] ~c.open /\ c.error # NoError       -> "Channel"
    [] ~c.open /\ c.error = NoError       -> "Normal"

Enqueue(c, m) == [c EXCEPT !.queue = Append(@, m)]

Dequeue(c) == [c EXCEPT !.queue = Tail(@)]

(* Receiver dropped: closed and drained. *)
DropReceiver(c) ==
  [queue |-> <<>>, size |-> c.size, open |-> FALSE, error |-> c.error]

(* ReceiverWithError::propagate_error: ErrorState::set_error overwrites.   *)
DiscardError(c, err) == c  \* mutant of PropagateError
PropagateError(c, err) == [c EXCEPT !.error = err]
==============================================================================
