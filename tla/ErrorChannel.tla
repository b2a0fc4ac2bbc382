---------------------------- MODULE ErrorChannel -----------------------------
(***************************************************************************)
(* The channel of src/src/channel_with_error.rs with clones of its sender  *)
(* on several threads, at the grain of its locks: start_send, is_closed    *)
(* and the reading of ErrorState are steps of their own, and so are the    *)
(* calls that the receiver makes one after the other in                    *)
(* check_and_handle_error (src/src/connection.rs).  Connection takes each  *)
(* of the two sides as one step; this module shows that it may.            *)
(***************************************************************************)
EXTENDS Channel

CONSTANTS
  Requests,   \* one start_send each, of some clone of NewStreamHandle
  Errors      \* what Connection::error may return

ASSUME ErrorChannelAssumptions == Errors \subseteq ErrorKinds

VARIABLES
  chan,
  future,      \* the NewStreamFuture of a request, or where its send is
  error,       \* the error check_and_handle_error is busy with, or NoError
  to_do        \* the calls left of check_and_handle_error, or "dropped"

vars == <<chan, future, error, to_do>>

Init ==
  /\ chan = NewChannel(0)
  /\ future = [r \in Requests |-> "unused"]
  /\ error = NoError /\ to_do = <<>>

Answer(r, a) == future' = [future EXCEPT ![r] = a]

------------------------------------------------------------------------------
(* The senders: SenderWithError::start_send in new_stream_handle. *)

StartSend(r) ==
  /\ future[r] = "unused"
  /\ IF chan.open
     THEN Answer(r, "waiting") /\ chan' = Enqueue(chan, r)
     ELSE Answer(r, "refused") /\ UNCHANGED chan
  /\ UNCHANGED <<error, to_do>>

(* map_err: check_for_error first asks is_closed ... *)
IsClosed(r) ==
  /\ future[r] = "refused"
  /\ Answer(r, IF chan.open THEN "Normal" ELSE "closed")
  /\ UNCHANGED <<chan, error, to_do>>

(* ... and then reads ErrorState; new_stream_handle answers the request.   *)
CheckForError(r) ==
  /\ future[r] = "closed"
  /\ Answer(r, IF chan.error = NoError THEN "Normal" ELSE chan.error)
  /\ UNCHANGED <<chan, error, to_do>>

------------------------------------------------------------------------------
(* The receiver. *)

(* check_create_stream_requests: the request gets its stream. *)
Receive ==
  /\ error = NoError /\ to_do = <<>> /\ chan.queue # <<>>
  /\ Answer(Head(chan.queue), "Ok") /\ chan' = Dequeue(chan)
  /\ UNCHANGED <<error, to_do>>

CloseFirst == <<"close", "propagate_error", "poll">>  \* mutant of Order
Order == <<"propagate_error", "close", "poll">>

CheckAndHandleError(err) ==
  /\ to_do = <<>> /\ error = NoError
  /\ error' = err /\ to_do' = Order
  /\ UNCHANGED <<chan, future>>

IsNext(call) == to_do # <<>> /\ Head(to_do) = call

CallPropagateError ==
  /\ IsNext("propagate_error") /\ to_do' = Tail(to_do)
  /\ chan' = PropagateError(chan, error)
  /\ UNCHANGED <<future, error>>

Close ==
  /\ IsNext("close") /\ to_do' = Tail(to_do)
  /\ chan' = [chan EXCEPT !.open = FALSE]
  /\ UNCHANGED <<future, error>>

PollRequest ==
  /\ IsNext("poll") /\ chan.queue # <<>>
  /\ Answer(Head(chan.queue), error) /\ chan' = Dequeue(chan)
  /\ UNCHANGED <<error, to_do>>

PollEnds ==
  /\ IsNext("poll") /\ chan.queue = <<>> /\ to_do' = Tail(to_do)
  /\ UNCHANGED <<chan, future, error>>

(* The Context is dropped, after an error or without one: the senders that *)
(* are still queued go with the receiver, and their futures are canceled.  *)
Drop ==
  /\ to_do = <<>> /\ to_do' = <<"dropped">>
  /\ chan' = DropReceiver(chan)
  /\ future' = [r \in Requests |->
       IF \E i \in DOMAIN chan.queue : chan.queue[i] = r
       THEN "Canceled" ELSE future[r]]
  /\ UNCHANGED <<error>>

Next ==
  \/ \E r \in Requests : StartSend(r) \/ IsClosed(r) \/ CheckForError(r)
  \/ Receive \/ \E err \in Errors : CheckAndHandleError(err)
  \/ CallPropagateError \/ Close \/ PollRequest \/ PollEnds \/ Drop

Spec == Init /\ [][Next]_vars

------------------------------------------------------------------------------
(* "A sender with an associated error that can be set by the receiver      *)
(* side": a request that races with check_and_handle_error gets its stream *)
(* or the error, never the answer of a channel that has none, whichever    *)
(* of the senders and the receiver is faster.                              *)
RefusedRequestLearnsError ==
  error # NoError =>
    \A r \in Requests : future[r] \notin {"Normal", "Canceled"}
==============================================================================
