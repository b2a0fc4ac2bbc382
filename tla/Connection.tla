----------------------------- MODULE Connection ------------------------------
(***************************************************************************)
(* One connection (src/src/connection.rs) inside the event loop that polls *)
(* it (CContext and ContextInner of src/src/context_inner.rs).             *)
(*                                                                         *)
(*  - The application waits for the connection, asks for streams through   *)
(*    NewStreamHandle, reads the streams of the peer and closes the        *)
(*    connection, from any thread.                                         *)
(*  - The event loop polls the connection's Context and delivers the       *)
(*    picoquic callbacks to it, then sleeps until it is notified, a packet *)
(*    arrives or its timer fires.                                          *)
(*                                                                         *)
(* The Context is reference counted: `listed` is the reference in          *)
(* CContext.connections, `raw` the one given to picoquic with the callback.*)
(* A stream's own Context is module Stream; here it is its id, and that    *)
(* its poll returns Ready is an input.                                     *)
(***************************************************************************)
EXTENDS Integers, Sequences, StreamIds, Channel

CONSTANTS
  Roles,        \* values of is_client to consider
  Requests,     \* calls of NewStreamHandle::new_*_stream
  PeerStreams,  \* ids of the streams that the peer opens
  MaxHandOuts,  \* bound: Streams handed out for one id
  MaxMessages,  \* bound: messages the Connection has not read
  Failures,     \* errors with which the connection may end
  MayShutDown   \* may the application drop the Context of the event loop?

ASSUME ConnectionAssumptions ==
  /\ Roles \subseteq BOOLEAN /\ PeerStreams \subseteq Nat
  /\ MaxHandOuts \in Nat /\ MaxMessages \in Nat
  /\ Failures \subseteq {NoError} \cup ErrorKinds /\ MayShutDown \in BOOLEAN

VARIABLES
  is_client,
  (* the application *)
  connect,       \* NewConnectionFuture
  handle,        \* the Connection: "builder", "held", "dropped", "never" built
  future,        \* the NewStreamFuture of every request
  close_sent,    \* close_immediately was called
  (* the connection's Context *)
  listed, raw,   \* its two references
  closed, wait_for_ready_state, next_stream_id, streams,
  recv_create_stream, create_parked,  \* requests; the event loop waits on it
  close_parked,                       \* the event loop waits on close_recv
  send_msg,
  (* the event loop *)
  pc, wakeup,
  (* picoquic, external *)
  cnx_state, registered, cnx_error,
  peer_done,     \* the streams the peer finished or reset
  handed         \* history: Streams the application got, by id

appVars  == <<is_client, connect, handle, future, close_sent>>
refVars  == <<listed, raw>>
ctxVars  == <<closed, wait_for_ready_state, next_stream_id, streams,
              recv_create_stream, create_parked, close_parked, send_msg>>
loopVars == <<pc, wakeup>>
quicVars == <<cnx_state, registered, cnx_error, peer_done>>
vars == <<appVars, refVars, ctxVars, loopVars, quicVars, handed>>

(* Results of a NewStreamFuture. *)
Unused == [state |-> "unused", id |-> 0]
Waiting == [state |-> "waiting", id |-> 0]
Ok(id) == [state |-> "Ok", id |-> id]
Failed(kind) == [state |-> kind, id |-> 0]

Msg(type, id) == [type |-> type, id |-> id]

(* send_msg.unbounded_send: nothing arrives once the receiver is dropped.  *)
SendMsg(queue, m) ==
  IF handle \in {"dropped", "never"} THEN queue ELSE Append(queue, m)

Count(id) == IF id \in DOMAIN handed THEN handed[id] ELSE 0
HandOut(id) == [i \in DOMAIN handed \cup {id} |-> IF i = id THEN Count(id) + 1
                                                  ELSE handed[i]]

------------------------------------------------------------------------------
(* Context::new, after Connection::create (client) or from_incoming with   *)
(* its first callback (server), which run inside the event loop's poll.    *)
(* recv_create_stream was polled once, close_recv was not.                 *)
NotPolledYet == FALSE  \* mutant of ParkedAtStart
ParkedAtStart == TRUE

ContextNew ==
  /\ listed = TRUE /\ raw = TRUE
  /\ closed = FALSE /\ next_stream_id = 0 /\ streams = {}
  /\ recv_create_stream = NewChannel(0)
  /\ create_parked = ParkedAtStart /\ close_parked = FALSE
  /\ send_msg = <<>> /\ registered = TRUE

Init ==
  /\ is_client \in Roles
  /\ ContextNew
  /\ wait_for_ready_state = is_client
  /\ connect = IF is_client THEN "waiting" ELSE "none"
  /\ handle = IF is_client THEN "builder" ELSE "held"
  /\ future = [r \in Requests |-> Unused] /\ close_sent = FALSE
  /\ pc = "callbacks" /\ wakeup = FALSE
  /\ cnx_state = IF is_client THEN "handshake" ELSE "ready"
  /\ cnx_error = NoError /\ peer_done = {}
  /\ handed = [i \in {} |-> 0]

------------------------------------------------------------------------------
(* The application. *)

(* The kind of the error of a refused request: SendError::Channel carries  *)
(* the connection's error, SendError::Normal is Unknown.                   *)
OnlyChannelError == recv_create_stream.error  \* mutant of SendErrorKind
SendErrorKind ==
  IF recv_create_stream.error = NoError THEN "Unknown"
  ELSE recv_create_stream.error

(* NewStreamHandle::new_stream_handle: request r is queued, or fails at    *)
(* once with the channel's error.                                          *)
NewStream(r, stype) ==
  /\ handle \in {"held", "dropped"} /\ future[r] = Unused
  /\ IF recv_create_stream.open
     THEN /\ recv_create_stream' =
               Enqueue(recv_create_stream, [request |-> r, stype |-> stype])
          /\ future' = [future EXCEPT ![r] = Waiting]
          /\ wakeup' = (wakeup \/ create_parked) /\ create_parked' = FALSE
     ELSE /\ future' = [future EXCEPT ![r] = Failed(SendErrorKind)]
          /\ UNCHANGED <<recv_create_stream, wakeup, create_parked>>
  /\ UNCHANGED <<is_client, connect, handle, close_sent, refVars, closed,
                 wait_for_ready_state, next_stream_id, streams, close_parked,
                 send_msg, pc, quicVars, handed>>

(* Connection::poll with a message there. *)
PollConnection ==
  /\ handle = "held" /\ send_msg # <<>>
  /\ send_msg' = Tail(send_msg)
  /\ UNCHANGED <<appVars, refVars, closed, wait_for_ready_state,
                 next_stream_id, streams, recv_create_stream, create_parked,
                 close_parked, loopVars, quicVars, handed>>

(* close_immediately, or a plain drop of the Connection.  Both wake a task *)
(* that waits on close_recv; only the first closes the connection.         *)
DropConnection(close) ==
  /\ handle = "held"
  /\ handle' = "dropped" /\ close_sent' = close
  /\ send_msg' = <<>>
  /\ wakeup' = (wakeup \/ close_parked) /\ close_parked' = FALSE
  /\ UNCHANGED <<is_client, connect, future, refVars, closed,
                 wait_for_ready_state, next_stream_id, streams,
                 recv_create_stream, create_parked, pc, quicVars, handed>>

------------------------------------------------------------------------------
(* Pieces of Context's methods that several steps use. *)

(* The futures whose oneshot sender is in the queue of requests.           *)
Queued(r) ==
  \E i \in DOMAIN recv_create_stream.queue :
    recv_create_stream.queue[i].request = r

ResolveNone(kind) == future  \* mutant of Resolve
Resolve(kind) ==
  [r \in Requests |-> IF Queued(r) THEN Failed(kind) ELSE future[r]]

(* wait_for_ready_state is taken or dropped with the ConnectionBuilder and  *)
(* the sender of the NewConnectionFuture, which resolves to `result`.       *)
LoseBuilder(result) ==
  /\ connect' = IF wait_for_ready_state THEN result ELSE connect
  /\ handle' = IF wait_for_ready_state THEN "never" ELSE handle
  /\ wait_for_ready_state' = FALSE

(* The last reference goes: Context::drop unregisters the callback, then   *)
(* the fields are dropped, the senders of waiting futures among them.      *)
DropContext ==
  /\ registered' = FALSE
  /\ streams' = {}
  /\ recv_create_stream' = DropReceiver(recv_create_stream)
  /\ future' = Resolve("Canceled")
  /\ LoseBuilder("Canceled")

(* propagate_error and close of the requests' channel, which is drained.   *)
ErrorWithoutClose(c, err) == PropagateError(c, err)  \* mutant of CloseWithError
CloseWithError(c, err) == DropReceiver(PropagateError(c, err))

(* connection_callback for a close event: check_and_handle_error, close,   *)
(* and picoquic's reference is dropped.                                    *)
HandleClose(err) ==
  /\ raw' = FALSE
  /\ closed' = TRUE
  /\ cnx_state' = "disconnected" /\ cnx_error' = err
  /\ LET told == IF err # NoError /\ ~wait_for_ready_state
                 THEN SendMsg(send_msg, Msg("Error", 0)) ELSE send_msg
     IN send_msg' = SendMsg(told, Msg("Close", 0))
  /\ IF err # NoError
     THEN /\ recv_create_stream' = CloseWithError(recv_create_stream, err)
          /\ future' = Resolve(err)
          /\ LoseBuilder(err)
          /\ streams' = IF listed THEN streams ELSE {}
          /\ registered' = listed
     ELSE IF listed
     THEN UNCHANGED <<recv_create_stream, future, connect, handle,
                      wait_for_ready_state, streams, registered>>
     ELSE DropContext
  /\ UNCHANGED <<is_client, close_sent, listed, next_stream_id,
                 create_parked, close_parked, wakeup, peer_done, handed>>

------------------------------------------------------------------------------
(* The event loop: CContext::poll, which polls the connection's Context.   *)

(* The task runs because it was notified, a packet came, the timer fired,  *)
(* or the loop goes round again without sleeping.                          *)
Wake ==
  /\ pc = "sleep"
  /\ pc' = "poll" /\ wakeup' = FALSE
  /\ UNCHANGED <<appVars, refVars, ctxVars, quicVars, handed>>

(* A closed Context is removed from the list, and dropped with the last    *)
(* reference.                                                              *)
RetainedWhenReady == closed  \* mutant of Retained
Retained == ~closed

PollClosed ==
  /\ pc = "poll" /\ listed /\ closed
  /\ pc' = "check"
  /\ listed' = Retained
  /\ IF raw \/ Retained
     THEN UNCHANGED <<registered, streams, recv_create_stream, future,
                      connect, handle, wait_for_ready_state>>
     ELSE DropContext
  /\ UNCHANGED <<is_client, close_sent, raw, closed, next_stream_id,
                 create_parked, close_parked, send_msg, wakeup, cnx_state,
                 cnx_error, peer_done, handed>>

(* The streams whose poll is Ready are removed: the peer has finished, or  *)
(* the application, which must have got the Stream, has dropped it         *)
(* (RemovedOnlyWhenFinished of module StreamProperties).                   *)
MayBeFinished(id) ==
  id \in peer_done \/ \A i \in DOMAIN send_msg : send_msg[i].id # id

PollStreams(done) ==
  /\ pc = "poll" /\ listed /\ ~closed
  /\ pc' = "requests"
  /\ streams' = streams \ done
  /\ UNCHANGED <<appVars, refVars, closed, wait_for_ready_state,
                 next_stream_id, recv_create_stream, create_parked,
                 close_parked, send_msg, wakeup, quicVars, handed>>

PollUnlisted ==
  /\ pc = "poll" /\ ~listed
  /\ pc' = "check"
  /\ UNCHANGED <<appVars, refVars, ctxVars, wakeup, quicVars, handed>>

(* check_create_stream_requests, one request; the assertion that the id is *)
(* new may fail.                                                           *)
CreateStream ==
  /\ pc = "requests" /\ recv_create_stream.queue # <<>>
  /\ LET req == Head(recv_create_stream.queue)
         id == generate_stream_id(next_stream_id, is_client, req.stype)
     IN /\ pc' = IF id \in streams THEN "panic" ELSE "requests"
        /\ streams' = streams \cup {id}
        /\ future' = [future EXCEPT ![req.request] = Ok(id)]
        /\ handed' = HandOut(id)
  /\ recv_create_stream' = Dequeue(recv_create_stream)
  /\ next_stream_id' = next_stream_id + 1
  /\ UNCHANGED <<is_client, connect, handle, close_sent, refVars, closed,
                 wait_for_ready_state, create_parked, close_parked, send_msg,
                 wakeup, quicVars>>

CreateStreamEnd ==
  /\ pc = "requests" /\ recv_create_stream.queue = <<>>
  /\ pc' = "close" /\ create_parked' = TRUE
  /\ UNCHANGED <<appVars, refVars, closed, wait_for_ready_state,
                 next_stream_id, streams, recv_create_stream, close_parked,
                 send_msg, wakeup, quicVars, handed>>

(* The end of Context::poll: close_recv.poll() is Ready(()), an error      *)
(* (the Connection was dropped) or NotReady.                               *)
PollCloseRecv ==
  /\ pc = "close"
  /\ pc' = "check"
  /\ IF close_sent
     THEN /\ closed' = TRUE /\ cnx_state' = "closing"
          /\ send_msg' = SendMsg(send_msg, Msg("Close", 0))
          /\ UNCHANGED close_parked
     ELSE /\ close_parked' = (handle # "dropped")
          /\ UNCHANGED <<closed, cnx_state, send_msg>>
  /\ UNCHANGED <<appVars, refVars, wait_for_ready_state, next_stream_id,
                 streams, recv_create_stream, create_parked, wakeup,
                 registered, cnx_error, peer_done, handed>>

(* ContextInner::poll checks whether the Context was dropped.  If so its   *)
(* future ends and its fields are dropped: picoquic_free closes the        *)
(* connection, but CContext is leaked and its list with it.                *)
ContextKept ==
  /\ pc = "check"
  /\ pc' = "callbacks"
  /\ UNCHANGED <<appVars, refVars, ctxVars, wakeup, quicVars, handed>>

ShutDown ==
  /\ pc = "check" /\ MayShutDown
  /\ pc' = "stopped"
  /\ IF raw THEN HandleClose(NoError)
            ELSE UNCHANGED <<appVars, refVars, ctxVars, wakeup, quicVars,
                             handed>>

EndOfLoop ==
  /\ pc = "callbacks"
  /\ pc' \in {"sleep", "poll"}
  /\ UNCHANGED <<appVars, refVars, ctxVars, wakeup, quicVars, handed>>

------------------------------------------------------------------------------
(* The picoquic callbacks, while packets are received and prepared. *)

(* The peer sends on its own streams and on the bidirectional ones that    *)
(* were opened here.                                                       *)
PeerIds ==
  {id \in PeerStreams : is_client_initiated(id) # is_client}
    \cup {id \in DOMAIN handed : ~is_unidirectional(id)}

(* connection_callback keeps picoquic's reference for every other event.   *)
ReferenceDropped == FALSE  \* mutant of ReferenceKept
ReferenceKept == raw

(* almost_ready: process_wait_for_ready_state hands out the Connection.    *)
AlmostReady ==
  /\ pc = "callbacks" /\ registered /\ cnx_state = "handshake"
  /\ cnx_state' = "ready"
  /\ connect' = "Ok" /\ handle' = "held" /\ wait_for_ready_state' = FALSE
  /\ raw' = ReferenceKept
  /\ UNCHANGED <<is_client, future, close_sent, listed, closed,
                 next_stream_id, streams, recv_create_stream, create_parked,
                 close_parked, send_msg, loopVars, registered, cnx_error,
                 peer_done, handed>>

(* handle_stream_callback.  The peer sends on a stream, and may end it     *)
(* with this callback (`end`); stream 0 is ignored.  Whether the Context   *)
(* of the stream is still there does not matter to the peer.               *)
StreamCallback(id, end) ==
  /\ pc = "callbacks" /\ registered /\ cnx_state = "ready"
  /\ id # 0 /\ id \notin peer_done
  /\ peer_done' = IF end THEN peer_done \cup {id} ELSE peer_done
  /\ raw' = ReferenceKept
  /\ IF id \in streams
     THEN UNCHANGED <<streams, send_msg, handed>>
     ELSE /\ Count(id) < MaxHandOuts /\ Len(send_msg) < MaxMessages
          /\ streams' = streams \cup {id}
          /\ send_msg' = SendMsg(send_msg, Msg("NewStream", id))
          /\ handed' = IF handle \in {"dropped", "never"} THEN handed
                        ELSE HandOut(id)
  /\ UNCHANGED <<appVars, listed, closed, wait_for_ready_state,
                 next_stream_id, recv_create_stream, create_parked,
                 close_parked, loopVars, cnx_state, registered, cnx_error>>

(* A close event.  picoquic raises one before the Context is polled again. *)
CloseCallback(err) ==
  /\ pc = "callbacks" /\ registered /\ raw
  /\ UNCHANGED pc
  /\ HandleClose(err)

------------------------------------------------------------------------------
App ==
  \/ \E r \in Requests, stype \in StreamTypes : NewStream(r, stype)
  \/ PollConnection
  \/ \E close \in BOOLEAN : DropConnection(close)

Poll ==
  \/ PollClosed \/ PollUnlisted
  \/ \E done \in SUBSET {id \in streams : MayBeFinished(id)} : PollStreams(done)
  \/ CreateStream \/ CreateStreamEnd \/ PollCloseRecv \/ ContextKept

Callbacks ==
  \/ AlmostReady
  \/ \E id \in PeerIds, end \in BOOLEAN : StreamCallback(id, end)
  \/ \E err \in Failures : CloseCallback(err)

Next == App \/ Wake \/ Poll \/ Callbacks \/ EndOfLoop \/ ShutDown

Spec == Init /\ [][Next]_vars
==============================================================================
