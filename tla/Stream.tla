------------------------------- MODULE Stream --------------------------------
(***************************************************************************)
(* One QUIC stream of picoquic-rs (src/src/stream.rs together with         *)
(* src/src/swappable_stream.rs).  Two parties share channels:              *)
(*                                                                         *)
(*  - the application holds the `Stream` handle: it sends chunks of bytes  *)
(*    through `send_data`, resizes that channel, resets, reads `recv_msg`  *)
(*    and drops the handle, at any moment, from any thread;                *)
(*  - the event loop owns the stream `Context`: it polls it and delivers   *)
(*    the picoquic callbacks to it.  A poll and a callback are sequences   *)
(*    of channel operations, and the application's calls fall between any  *)
(*    two of them: `pc` says where the event loop is.                      *)
(*                                                                         *)
(* picoquic itself (is_active, wire, fin_sent, reset_called,               *)
(* stop_sending_calls) is external: only what the crate asks of it is kept.*)
(* A chunk, a buffer and a piece of data on the wire are ranges of byte    *)
(* positions [lo, hi) in the sequence of all bytes that start_send         *)
(* accepted on this stream, so that order, loss and duplication show.      *)
(***************************************************************************)
EXTENDS Integers, Sequences, StreamIds, Channel

CONSTANTS
  StreamIdSet,   \* ids the stream may have
  ClientSides,   \* values of is_client_con to consider
  ChunkSizes,    \* lengths of the `Bytes` the application sends
  PacketSizes,   \* values of `max_length` picoquic offers
  DefaultSize,   \* stream_send_channel_default_size
  SwapSizes,     \* arguments of set_send_channel_size
  MaxSends,      \* bound: chunks the application sends
  MaxChannels,   \* bound: send channels, so MaxChannels - 1 resizes
  MaxRecv,       \* bound: callbacks with data from the peer
  ConnectionEnds \* how the connection may end: "local", or a callback's error

ASSUME StreamAssumptions ==
  /\ StreamIdSet \subseteq Nat \ {0} /\ ClientSides \subseteq BOOLEAN
  /\ ChunkSizes \subseteq Nat /\ PacketSizes \subseteq Nat \ {0}
  /\ DefaultSize \in Nat /\ SwapSizes \subseteq Nat
  /\ MaxSends \in Nat /\ MaxRecv \in Nat /\ MaxChannels \in Nat \ {0}
  /\ ConnectionEnds \subseteq {"local", NoError} \cup ErrorKinds

VARIABLES
  id, is_client_con,
  (* the `Stream` handle *)
  handle,        \* which fields are still there; dropped in declaration order
  sender,        \* the channel whose sender is `Stream.send_data`; 0: None
  stream_reset, reset_requested,
  accepted, sends,   \* bytes and chunks start_send took so far
  (* what the two share *)
  chan,          \* the send channels, numbered in order of creation
  created,       \* how many of them exist
  control_msg, recv_msg,
  (* `Context` *)
  pc,
  active, swap_to,   \* the two receivers of `Context.send_data`; 0: None
  data_send, stop_sending_or_fin_sent, fin_received_or_recv_msg_dropped,
  active_buffer,     \* Option<Bytes>: a sequence of at most one chunk
  (* locals of handle_send_data; `length` counts down to what is left *)
  max_length, buffers, size, length,
  (* picoquic's side of the stream, external *)
  is_active, wire, fin_sent, reset_called, stop_sending_calls,
  (* the peer and the connection *)
  peer_done, peer_stop, received, conn, conn_error

constantVars == <<id, is_client_con>>
handleVars   == <<handle, sender, stream_reset, reset_requested, accepted,
                  sends>>
chanVars     == <<chan, created>>
msgVars      == <<control_msg, recv_msg>>
dataVars     == <<active, swap_to>>
flagVars     == <<data_send, stop_sending_or_fin_sent,
                  fin_received_or_recv_msg_dropped>>
localVars    == <<max_length, buffers, size, length>>
quicVars     == <<is_active, wire, fin_sent, reset_called, stop_sending_calls>>
peerVars     == <<peer_done, peer_stop, received, conn, conn_error>>

vars == <<constantVars, handleVars, chanVars, msgVars, pc, dataVars, flagVars,
          active_buffer, localVars, quicVars, peerVars>>

Channels == 1..MaxChannels
Size(buf) == buf.hi - buf.lo

(* cmp::min *)
Greatest(a, b) == IF a <= b THEN b ELSE a  \* mutant of Least
Least(a, b) == IF a <= b THEN a ELSE b

(* Bytes::advance *)
AdvanceNothing(buf, n) == buf  \* mutant of Advance
Advance(buf, n) == [buf EXCEPT !.lo = @ + n]

------------------------------------------------------------------------------
(* Messages of the control channel.  SwapSendData(k) carries the receiver  *)
(* of channel k and the sender of the channel before it.                   *)
ResetMsg == [type |-> "Reset", receiver |-> 0]
SwapSendData(k) == [type |-> "SwapSendData", receiver |-> k]

(* The old sender of a swap lives in the message until it is processed.    *)
SenderNotInMessage(k) == sender = k  \* mutant of SenderAlive
SenderAlive(k) ==
  \/ sender = k
  \/ \E i \in DOMAIN control_msg : control_msg[i] = SwapSendData(k + 1)

(* ReceiverWithError::poll on channel k.                                   *)
Exhausted(k) ==
  chan[k].queue = <<>> /\ (~SenderAlive(k) \/ ~chan[k].open)

(* SwappableStream::poll: the stream that answers, and the channels after  *)
(* the swap dropped the exhausted receiver.                                *)
Swaps == active # 0 /\ Exhausted(active) /\ swap_to # 0
PollTarget == IF Swaps THEN swap_to ELSE active
PollHasItem == PollTarget # 0 /\ chan[PollTarget].queue # <<>>
PollIsNone == PollTarget # 0 /\ Exhausted(PollTarget)
ChanAfterSwap ==
  IF Swaps THEN [chan EXCEPT ![active] = DropReceiver(@)] ELSE chan
SwapToAfterSwap == IF Swaps THEN 0 ELSE swap_to

(* The channels once the receivers in ks are gone.                         *)
DropReceivers(c, ks) ==
  [k \in Channels |-> IF k \in ks THEN DropReceiver(c[k]) ELSE c[k]]

(* Messages the handle's recv_msg gets: dropped receivers take none.       *)
RecvMessage(queue, msgs) == IF handle = "alive" THEN queue \o msgs ELSE queue

------------------------------------------------------------------------------
(* Stream::new: the handle and the channels it shares with its Context.    *)
StreamNew ==
  /\ handle = "alive"
  /\ sender = IF HasSendChannel(id, is_client_con) THEN 1 ELSE 0
  /\ stream_reset = FALSE /\ reset_requested = FALSE
  /\ accepted = 0 /\ sends = 0
  /\ chan = [k \in Channels |-> NewChannel(DefaultSize)] /\ created = 1
  /\ control_msg = <<>> /\ recv_msg = <<>>

(* Context::new. *)
ContextNew ==
  /\ active = sender /\ swap_to = 0
  /\ data_send = FALSE
  /\ stop_sending_or_fin_sent = ~HasSendChannel(id, is_client_con)
  /\ fin_received_or_recv_msg_dropped = NeverReceives(id, is_client_con)
  /\ active_buffer = <<>>

Init ==
  /\ id \in StreamIdSet /\ is_client_con \in ClientSides
  /\ StreamNew /\ ContextNew
  /\ pc = "idle"
  /\ max_length = 0 /\ buffers = <<>> /\ size = 0 /\ length = 0
  /\ is_active = FALSE /\ wire = <<>> /\ fin_sent = FALSE
  /\ reset_called = FALSE /\ stop_sending_calls = 0
  /\ peer_done = FALSE /\ peer_stop = FALSE /\ received = 0
  /\ conn = "open" /\ conn_error = NoError

------------------------------------------------------------------------------
(* The application. *)

(* Stream::start_send of n bytes, when the channel takes them.  A full or  *)
(* closed channel hands the item back and changes nothing.                 *)
StartSend(n) ==
  /\ handle = "alive" /\ sender # 0
  /\ StartSendResult(chan[sender]) = "Ready"
  /\ sends < MaxSends
  /\ chan' = [chan EXCEPT ![sender] =
                Enqueue(@, [lo |-> accepted, hi |-> accepted + n])]
  /\ accepted' = accepted + n /\ sends' = sends + 1
  /\ UNCHANGED <<constantVars, handle, sender, stream_reset, reset_requested,
                 created, msgVars, pc, dataVars, flagVars, active_buffer,
                 localVars, quicVars, peerVars>>

(* Stream::set_send_channel_size.  When the Context is gone the message    *)
(* cannot be sent and both of its halves are dropped with it.              *)
SetSendChannelSize(n) ==
  /\ handle = "alive" /\ sender # 0
  /\ created < MaxChannels
  /\ created' = created + 1
  /\ sender' = created + 1
  /\ IF pc = "gone"
     THEN /\ chan' = [chan EXCEPT ![created + 1] = DropReceiver(NewChannel(n))]
          /\ UNCHANGED control_msg
     ELSE /\ chan' = [chan EXCEPT ![created + 1] = NewChannel(n)]
          /\ control_msg' = Append(control_msg, SwapSendData(created + 1))
  /\ UNCHANGED <<constantVars, handle, stream_reset, accepted, sends,
                 reset_requested, recv_msg, pc, dataVars, flagVars,
                 active_buffer, localVars, quicVars, peerVars>>

(* Stream::reset, once. *)
Reset ==
  /\ handle = "alive" /\ pc # "gone"
  /\ ~reset_requested
  /\ reset_requested' = TRUE
  /\ control_msg' = Append(control_msg, ResetMsg)
  /\ UNCHANGED <<constantVars, handle, sender, stream_reset, accepted, sends,
                 chanVars, recv_msg, pc, dataVars, flagVars, active_buffer,
                 localVars, quicVars, peerVars>>

(* Stream::poll with a message there. *)
PollRecv ==
  /\ handle = "alive" /\ recv_msg # <<>>
  /\ recv_msg' = Tail(recv_msg)
  /\ stream_reset' = (stream_reset \/ Head(recv_msg) = "Reset")
  /\ UNCHANGED <<constantVars, handle, sender, accepted, sends, reset_requested,
                 chanVars, control_msg, pc, dataVars, flagVars, active_buffer,
                 localVars, quicVars, peerVars>>

(* The handle is dropped field by field: recv_msg, control_msg, send_data. *)
DropStream ==
  /\ \/ /\ handle = "alive" /\ handle' = "recv_dropped"
        /\ recv_msg' = <<>> /\ UNCHANGED sender
     \/ /\ handle = "recv_dropped" /\ handle' = "control_dropped"
        /\ UNCHANGED <<recv_msg, sender>>
     \/ /\ handle = "control_dropped" /\ handle' = "dropped"
        /\ sender' = 0 /\ UNCHANGED recv_msg
  /\ UNCHANGED <<constantVars, stream_reset, accepted, sends, reset_requested,
                 chanVars, control_msg, pc, dataVars, flagVars, active_buffer,
                 localVars, quicVars, peerVars>>

------------------------------------------------------------------------------
(* Pieces of Context's methods that several steps use. *)

(* close_send_data: both receivers of the SwappableStream are dropped.     *)
CloseActiveOnly ==  \* mutant of CloseSendData
  /\ chan' = DropReceivers(chan, {active})
  /\ active' = 0 /\ swap_to' = 0
CloseSendData ==
  /\ chan' = DropReceivers(chan, {active, swap_to})
  /\ active' = 0 /\ swap_to' = 0

(* Context::reset, picoquic_reset_stream included.                         *)
ContextReset ==
  /\ stop_sending_or_fin_sent' = TRUE
  /\ CloseSendData
  /\ reset_called' = TRUE

(* recv_message_dropped, called when `lost` says so.                       *)
RecvMessageDroppedAgain(lost) ==  \* mutant of RecvMessageDropped
  /\ fin_received_or_recv_msg_dropped' =
       (fin_received_or_recv_msg_dropped \/ lost)
  /\ stop_sending_calls' =
       IF lost THEN stop_sending_calls + 1 ELSE stop_sending_calls
RecvMessageDropped(lost) ==
  /\ fin_received_or_recv_msg_dropped' =
       (fin_received_or_recv_msg_dropped \/ lost)
  /\ stop_sending_calls' =
       IF /\ lost /\ ~fin_received_or_recv_msg_dropped
          /\ ~NeverReceives(id, is_client_con)
       THEN stop_sending_calls + 1 ELSE stop_sending_calls

(* Context::drop and then the drop of its fields: the receivers queued in  *)
(* control_msg and the buffer that was not sent go too.                    *)
DropContext ==
  /\ pc' = "gone"
  /\ recv_msg' = RecvMessage(recv_msg, <<"Close">>)
  /\ chan' = DropReceivers(chan, {active, swap_to} \cup
                {control_msg[i].receiver : i \in DOMAIN control_msg})
  /\ active' = 0 /\ swap_to' = 0
  /\ control_msg' = <<>> /\ active_buffer' = <<>>
  /\ UNCHANGED <<constantVars, handleVars, created, flagVars, localVars,
                 quicVars, peerVars>>

------------------------------------------------------------------------------
(* Context::poll.  The connection polls its streams until it is closed.    *)

PollStart ==
  /\ pc = "idle" /\ conn = "open"
  /\ pc' = "control"
  /\ UNCHANGED <<constantVars, handleVars, chanVars, msgVars, dataVars,
                 flagVars, active_buffer, localVars, quicVars, peerVars>>

(* poll_control_msg, Message::Reset.                                       *)
PollControlReset ==
  /\ pc = "control" /\ control_msg # <<>> /\ Head(control_msg) = ResetMsg
  /\ control_msg' = Tail(control_msg)
  /\ ContextReset
  /\ UNCHANGED <<constantVars, handleVars, created, recv_msg, pc, data_send,
                 fin_received_or_recv_msg_dropped, active_buffer, localVars,
                 is_active, wire, fin_sent, stop_sending_calls, peerVars>>

(* poll_control_msg, Message::SwapSendData: set_swap_to drops a receiver   *)
(* that is still waiting for its turn.                                     *)
PollControlSwap ==
  /\ pc = "control" /\ control_msg # <<>> /\ Head(control_msg) # ResetMsg
  /\ control_msg' = Tail(control_msg)
  /\ LET new_receiver == Head(control_msg).receiver
     IN IF active # 0
        THEN /\ swap_to' = new_receiver
             /\ chan' = DropReceivers(chan, {swap_to})
        ELSE /\ UNCHANGED swap_to
             /\ chan' = DropReceivers(chan, {new_receiver})
  /\ UNCHANGED <<constantVars, handleVars, created, recv_msg, pc, active,
                 flagVars, active_buffer, localVars, quicVars, peerVars>>

(* poll_control_msg, no message: NotReady, or None when the handle's       *)
(* sender is gone.                                                         *)
PollControlEnd ==
  /\ pc = "control" /\ control_msg = <<>>
  /\ pc' = "send"
  /\ RecvMessageDropped(handle \in {"control_dropped", "dropped"})
  /\ UNCHANGED <<constantVars, handleVars, chanVars, msgVars, dataVars,
                 data_send, stop_sending_or_fin_sent, active_buffer,
                 localVars, is_active, wire, fin_sent, reset_called, peerVars>>

(* poll_send_data, Ready(Some(buf)).                                       *)
PollSendDataItem ==
  /\ pc = "send" /\ active_buffer = <<>> /\ PollHasItem
  /\ pc' = "check"
  /\ active_buffer' = <<Head(chan[PollTarget].queue)>>
  /\ chan' = [ChanAfterSwap EXCEPT ![PollTarget] = Dequeue(@)]
  /\ active' = PollTarget /\ swap_to' = SwapToAfterSwap
  /\ is_active' = TRUE
  /\ UNCHANGED <<constantVars, handleVars, created, msgVars, flagVars,
                 localVars, wire, fin_sent, reset_called, stop_sending_calls,
                 peerVars>>

(* poll_send_data, Ready(None): handle_send_data_dropped resets a stream   *)
(* that never carried data and asks for a FIN otherwise.                   *)
NothingWaiting == active_buffer = <<>>  \* mutant of CarriedNoData
CarriedNoData == ~data_send /\ active_buffer = <<>>
FinWasSent == stop_sending_or_fin_sent  \* mutant of NeedsFin
NeedsFin == ~stop_sending_or_fin_sent
PollSendDataNone ==
  /\ pc = "send" /\ active_buffer = <<>> /\ PollIsNone
  /\ pc' = "check"
  /\ CloseSendData
  /\ IF CarriedNoData
     THEN /\ stop_sending_or_fin_sent' = TRUE /\ reset_called' = TRUE
          /\ UNCHANGED is_active
     ELSE /\ is_active' = (is_active \/ NeedsFin)
          /\ UNCHANGED <<stop_sending_or_fin_sent, reset_called>>
  /\ UNCHANGED <<constantVars, handleVars, created, msgVars, data_send,
                 fin_received_or_recv_msg_dropped, active_buffer, localVars,
                 wire, fin_sent, stop_sending_calls, peerVars>>

(* poll_send_data, the rest: a buffer is waiting, there is no send_data,   *)
(* or nothing is ready (a swap may have happened all the same).            *)
PollSendDataIdle ==
  /\ pc = "send"
  /\ pc' = "check"
  /\ \/ /\ active_buffer # <<>> \/ active = 0
        /\ UNCHANGED <<chan, dataVars>>
     \/ /\ active_buffer = <<>> /\ active # 0 /\ ~PollHasItem /\ ~PollIsNone
        /\ chan' = ChanAfterSwap
        /\ active' = PollTarget /\ swap_to' = SwapToAfterSwap
  /\ UNCHANGED <<constantVars, handleVars, created, msgVars, flagVars,
                 active_buffer, localVars, quicVars, peerVars>>

(* The end of Context::poll: NotReady, or Ready and the connection's       *)
(* `retain` drops the Context.                                             *)
EitherFinished ==  \* mutant of BothFinished
  stop_sending_or_fin_sent \/ fin_received_or_recv_msg_dropped
BothFinished == stop_sending_or_fin_sent /\ fin_received_or_recv_msg_dropped

PollNotReady ==
  /\ pc = "check" /\ ~BothFinished
  /\ pc' = "idle"
  /\ UNCHANGED <<constantVars, handleVars, chanVars, msgVars, dataVars,
                 flagVars, active_buffer, localVars, quicVars, peerVars>>

PollReady ==
  /\ pc = "check" /\ BothFinished
  /\ DropContext

------------------------------------------------------------------------------
(* The picoquic callbacks. *)

(* handle_callback for stream_data, stream_fin, stream_reset and           *)
(* stop_sending, with `len` bytes of data.                                 *)
Callback(event, len) ==
  /\ pc = "idle" /\ conn = "open"
  /\ IF event = "stop_sending"
     THEN HasSendChannel(id, is_client_con) /\ ~peer_stop /\ len = 0
     ELSE ~NeverReceives(id, is_client_con) /\ ~peer_done
  /\ event = "stream_data" => len > 0
  /\ event = "stream_reset" => len = 0
  /\ received + len <= MaxRecv
  /\ received' = received + len
  /\ peer_done' = (peer_done \/ event \in {"stream_fin", "stream_reset"})
  /\ peer_stop' = (peer_stop \/ event = "stop_sending")
  /\ LET delivers == len > 0 /\ ~fin_received_or_recv_msg_dropped
         data == IF delivers THEN <<"RecvData">> ELSE <<>>
         end  == CASE event = "stream_reset" -> <<"Reset">>
                   [] event = "stream_fin"   -> <<"Close">>
                   [] OTHER                  -> <<>>
     IN /\ recv_msg' = RecvMessage(recv_msg, data \o end)
        /\ stop_sending_calls' =
             IF delivers /\ handle # "alive"
             THEN stop_sending_calls + 1 ELSE stop_sending_calls
        /\ fin_received_or_recv_msg_dropped' =
             \/ fin_received_or_recv_msg_dropped
             \/ delivers /\ handle # "alive"
             \/ end # <<>>
  /\ IF event = "stop_sending"
     THEN stop_sending_or_fin_sent' = TRUE /\ CloseSendData
     ELSE UNCHANGED <<stop_sending_or_fin_sent, chan, dataVars>>
  /\ UNCHANGED <<constantVars, handleVars, created, control_msg, pc,
                 data_send, active_buffer, localVars, is_active, wire,
                 fin_sent, reset_called, conn, conn_error>>

(* The prepare_to_send callback: picoquic has room for m bytes of a stream *)
(* that is marked active.  handle_send_data starts collecting buffers.     *)
PrepareToSend(m) ==
  /\ pc = "idle" /\ conn = "open"
  /\ is_active /\ ~fin_sent /\ ~reset_called
  /\ pc' = "collect"
  /\ max_length' = m
  /\ buffers' = active_buffer
  /\ size' = IF active_buffer = <<>> THEN 0 ELSE Size(active_buffer[1])
  /\ active_buffer' = <<>>
  /\ UNCHANGED <<constantVars, handleVars, chanVars, msgVars, dataVars,
                 flagVars, length, quicVars, peerVars>>

(* One turn of the loop of collect_buffers_to_send.                        *)
CollectEverything == TRUE  \* mutant of CollectMore
CollectMore == size <= max_length
CollectBuffer ==
  /\ pc = "collect" /\ CollectMore /\ PollHasItem
  /\ LET buf == Head(chan[PollTarget].queue)
     IN buffers' = Append(buffers, buf) /\ size' = size + Size(buf)
  /\ chan' = [ChanAfterSwap EXCEPT ![PollTarget] = Dequeue(@)]
  /\ active' = PollTarget /\ swap_to' = SwapToAfterSwap
  /\ UNCHANGED <<constantVars, handleVars, created, msgVars, pc, flagVars,
                 active_buffer, max_length, length, quicVars, peerVars>>

(* The loop ends, and handle_send_data provides the data to picoquic.      *)
NothingReady == CollectMore /\ ~PollHasItem  \* mutant of Fin
Fin == CollectMore /\ (active = 0 \/ PollIsNone)
StillActiveLate == size > max_length + 1 /\ ~Fin  \* mutant of StillActive
StillActive == size > max_length /\ ~Fin
ProvideData ==
  /\ pc = "collect" /\ ~(CollectMore /\ PollHasItem)
  /\ IF CollectMore /\ active # 0
     THEN /\ chan' = ChanAfterSwap
          /\ active' = PollTarget /\ swap_to' = SwapToAfterSwap
     ELSE UNCHANGED <<chan, dataVars>>
  /\ is_active' = StillActive
  /\ fin_sent' = Fin /\ stop_sending_or_fin_sent' = Fin
  /\ data_send' = (data_send \/ size > 0)
  /\ length' = Least(max_length, size)
  /\ max_length' = 0 /\ size' = 0
  /\ pc' = IF buffers = <<>> THEN "idle" ELSE "write"
  /\ UNCHANGED <<constantVars, handleVars, created, msgVars,
                 fin_received_or_recv_msg_dropped, active_buffer, buffers,
                 wire, reset_called, stop_sending_calls, peerVars>>

(* One turn of the copying loop: what does not fit becomes active_buffer,  *)
(* and a second remainder is the panic of stream.rs.                       *)
CopyBuffer ==
  /\ pc = "write"
  /\ LET buf == Head(buffers)
         n == Least(Size(buf), length)
         rest == Advance(buf, n)
     IN /\ wire' = IF n > 0 THEN Append(wire, [buf EXCEPT !.hi = buf.lo + n])
                   ELSE wire
        /\ length' = length - n
        /\ IF Size(rest) # 0 /\ active_buffer # <<>>
           THEN pc' = "panic" /\ UNCHANGED active_buffer
           ELSE /\ pc' = IF Tail(buffers) = <<>> THEN "idle" ELSE "write"
                /\ active_buffer' = IF Size(rest) # 0 THEN <<rest>>
                                    ELSE active_buffer
  /\ buffers' = Tail(buffers)
  /\ UNCHANGED <<constantVars, handleVars, chanVars, msgVars, dataVars,
                 flagVars, max_length, size, is_active, fin_sent,
                 reset_called, stop_sending_calls, peerVars>>

------------------------------------------------------------------------------
(* The connection ends. *)

(* connection::Context::close from close_recv, at the end of its poll.     *)
LocalClose ==
  /\ pc = "idle" /\ conn = "open"
  /\ conn' = "closed"
  /\ recv_msg' = RecvMessage(recv_msg, <<"Close">>)
  /\ RecvMessageDropped(handle # "alive")
  /\ UNCHANGED <<constantVars, handleVars, chanVars, control_msg, pc,
                 dataVars, data_send, stop_sending_or_fin_sent, active_buffer,
                 localVars, is_active, wire, fin_sent, reset_called,
                 peer_done, peer_stop, received, conn_error>>

(* The close callback: handle_connection_error when the connection has an  *)
(* error, then handle_connection_close.  propagate_error goes through      *)
(* Deref to the active receiver.                                           *)
CloseCallback(err) ==
  /\ pc = "idle" /\ conn \in {"open", "closed"}
  /\ conn' = "dead"
  /\ conn_error' = err
  /\ recv_msg' = RecvMessage(recv_msg,
       IF err = NoError THEN <<"Close">> ELSE <<"Error", "Close">>)
  /\ RecvMessageDropped(handle # "alive")
  /\ chan' = IF err # NoError /\ active # 0
             THEN [chan EXCEPT ![active] = PropagateError(@, err)] ELSE chan
  /\ UNCHANGED <<constantVars, handleVars, created, control_msg, pc, dataVars,
                 data_send, stop_sending_or_fin_sent, active_buffer,
                 localVars, is_active, wire, fin_sent, reset_called,
                 peer_done, peer_stop, received>>

(* The connection's Context is dropped with its streams.                   *)
ConnectionDropped ==
  /\ pc = "idle" /\ conn = "dead"
  /\ DropContext

------------------------------------------------------------------------------
App ==
  \/ \E n \in ChunkSizes : StartSend(n)
  \/ \E n \in SwapSizes : SetSendChannelSize(n)
  \/ Reset \/ PollRecv \/ DropStream

Poll ==
  \/ PollStart \/ PollControlReset \/ PollControlSwap \/ PollControlEnd
  \/ PollSendDataItem \/ PollSendDataNone \/ PollSendDataIdle
  \/ PollNotReady \/ PollReady

SendData == CollectBuffer \/ ProvideData \/ CopyBuffer

Events == {"stream_data", "stream_fin", "stream_reset", "stop_sending"}

Quic ==
  \/ \E event \in Events, len \in 0..1 : Callback(event, len)
  \/ \E m \in PacketSizes : PrepareToSend(m)
  \/ SendData
  \/ "local" \in ConnectionEnds /\ LocalClose
  \/ \E err \in ConnectionEnds \ {"local"} : CloseCallback(err)
  \/ ConnectionDropped

Next == App \/ Poll \/ Quic

Spec == Init /\ [][Next]_vars
==============================================================================
